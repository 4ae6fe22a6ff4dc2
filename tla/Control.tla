-------------------------------- MODULE Control --------------------------------
(***************************************************************************)
(* The socket scripts and qsctl talk to (src/ipc/IPCServer, with takeLines *)
(* and decodeRequest of IPCProtocol), over the launcher it toggles.        *)
(*                                                                         *)
(* A client sends lines and leaves when it likes: qsctl sends one, waits,  *)
(* and gives up after a while.  What has not been read of its lines is in  *)
(* the kernel or, a part of a line, in buffer_.                            *)
(***************************************************************************)
EXTENDS Launcher

CONSTANTS
    Clients,     \* connections there may be at a time
    Foreign      \* those of another user

ASSUME ControlAssumption == Foreign \subseteq Clients

VARIABLE conns

vars == <<launcherVars, conns>>

\* "state": any verb that reads; "unknown": a verb, argument or key this shell does not
\* have.  "foreign" is no line of this protocol, another version's, or one that is too long.
Line == {"launcher", "state", "unknown", "foreign"}
Answer == [ok : BOOLEAN, open : BOOLEAN]

\* end: the client's; served: the server's, "closed" while its object waits for deletion;
\* sent: every line so far, of which the first taken are read; answers: all written.
Connection == [end : {"none", "open", "left"},
               served : {"none", "pending", "open", "closed"},
               sent : Seq(Line), taken : Nat, answers : Seq(Answer)]

NoConnection == [end |-> "none", served |-> "none", sent |-> <<>>, taken |-> 0,
                 answers |-> <<>>]

-----------------------------------------------------------------------------
(* IPCServer::Connection.                                                    *)

\* dispatch, and the line's answer; x is the launcher, the answers so far, and whether the
\* connection is to be closed.
Dispatch(x, line, made) ==
    CASE line = "launcher" ->
             LET toggled == Toggle(x.launcher, made)
             IN  [x EXCEPT !.launcher = toggled,
                           !.answers = Append(@, [ok |-> TRUE, open |-> toggled.open])]
      [] line = "state" -> [x EXCEPT !.answers = Append(@, [ok |-> TRUE, open |-> FALSE])]
      [] line = "unknown" -> [x EXCEPT !.answers = Append(@, [ok |-> FALSE, open |-> FALSE])]

\* Mutant: the lines after one that is not understood answered too.
HandleLineOn(x, line, made) ==
    IF line = "foreign"
    THEN [x EXCEPT !.answers = Append(@, [ok |-> FALSE, open |-> FALSE]), !.close = TRUE]
    ELSE Dispatch(x, line, made)

\* A line that is not understood is refused and is the last one looked at.
HandleLine(x, line, made) ==
    IF x.close THEN x
    ELSE IF line = "foreign"
    THEN [x EXCEPT !.answers = Append(@, [ok |-> FALSE, open |-> FALSE]), !.close = TRUE]
    ELSE Dispatch(x, line, made)

\* The lines one after the other.
HandleLines(x, lines, made) ==
    LET after[n \in 0..Len(lines)] ==
            IF n = 0 THEN x ELSE HandleLine(after[n - 1], lines[n], made)
    IN  after[Len(lines)]

\* onReadyRead, over as many lines as have come.  An answer to a client that has left fails
\* to be written, which closes the socket when the lines read have been dealt with.
ReadyRead(c) ==
    /\ launcher.running
    /\ conns[c].served = "open"
    /\ \E n \in (conns[c].taken + 1)..Len(conns[c].sent), made \in BOOLEAN :
          LET lines == SubSeq(conns[c].sent, conns[c].taken + 1, n)
              x == HandleLines([launcher |-> launcher, answers |-> conns[c].answers,
                                close |-> FALSE], lines, made)
          IN  /\ launcher' = x.launcher
              /\ conns' = [conns EXCEPT ![c].answers = x.answers, ![c].taken = n,
                              ![c].served = IF x.close \/ conns[c].end = "left"
                                            THEN "closed" ELSE "open"]
    /\ UNCHANGED <<disk, remembered, bounds>>

\* The end of a client that left is read after its last line: `disconnected`.
Disconnected(c) ==
    /\ launcher.running
    /\ conns[c].served = "open" /\ conns[c].end = "left"
    /\ conns[c].taken = Len(conns[c].sent)
    /\ conns' = [conns EXCEPT ![c].served = "closed"]
    /\ UNCHANGED launcherVars

\* handleConnection: a client of another user is closed unread.
HandleConnection(c) ==
    IF c \in Foreign THEN [conns[c] EXCEPT !.served = "closed"]
    ELSE [conns[c] EXCEPT !.served = "open"]

\* newConnection: all that are pending.
NewConnection ==
    /\ launcher.running
    /\ \E c \in Clients : conns[c].served = "pending"
    /\ conns' = [c \in Clients |-> IF conns[c].served = "pending" THEN HandleConnection(c)
                                   ELSE conns[c]]
    /\ UNCHANGED launcherVars

\* Mutant: the helper deleted, the socket left to the server.
DeferredDeleteHelper ==
    /\ \E c \in Clients : conns[c].served = "closed" /\ conns[c].end = "open"
    /\ conns' = [c \in Clients |-> IF conns[c].served = "closed" /\ conns[c].end = "open"
                                   THEN NoConnection ELSE conns[c]]
    /\ UNCHANGED launcherVars

\* deleteLater of the sockets that are closed. The client finds its connection ended.
DeferredDelete ==
    /\ \E c \in Clients : conns[c].served = "closed"
    /\ conns' = [c \in Clients |-> IF conns[c].served = "closed" THEN NoConnection
                                   ELSE conns[c]]
    /\ UNCHANGED launcherVars

-----------------------------------------------------------------------------
(* The clients.                                                              *)

Connect(c) ==
    /\ launcher.running
    /\ conns[c] = NoConnection /\ bounds.lines > 0
    /\ conns' = [conns EXCEPT ![c].end = "open", ![c].served = "pending"]
    /\ UNCHANGED launcherVars

\* One line will do for a client that nobody reads.
Lines(c) == IF c \in Foreign THEN {"launcher"} ELSE Line

SendLine(c) ==
    /\ conns[c].end = "open" /\ conns[c].served # "closed"
    /\ Len(conns[c].sent) < (IF c \in Foreign THEN 1 ELSE bounds.lines)
    /\ \E line \in Lines(c) : conns' = [conns EXCEPT ![c].sent = Append(@, line)]
    /\ UNCHANGED launcherVars

\* qsctl has its answer, or has waited for as long as it would.
Leave(c) ==
    /\ conns[c].end = "open"
    /\ conns' = [conns EXCEPT ![c].end = "left"]
    /\ UNCHANGED launcherVars

-----------------------------------------------------------------------------
Init == LauncherInit /\ conns = [c \in Clients |-> NoConnection]

\* The process and its sockets end together.
ShellStops == ExitOrCrash /\ conns' = [c \in Clients |-> NoConnection]

Next ==
    \/ (LauncherNext \/ Start \/ TogglePanel) /\ UNCHANGED conns
    \/ ShellStops
    \/ NewConnection \/ DeferredDelete
    \/ \E c \in Clients :
          ReadyRead(c) \/ Disconnected(c) \/ Connect(c) \/ SendLine(c) \/ Leave(c)

Spec == Init /\ [][Next]_vars

\* The event loop goes on with what is ready.
FairSpec ==
    /\ Spec
    /\ WF_vars(NewConnection) /\ WF_vars(DeferredDelete)
    /\ \A c \in Clients : WF_vars(ReadyRead(c)) /\ WF_vars(Disconnected(c))

-----------------------------------------------------------------------------
\* Every variable has its type, and the open panel lists what its query asks for now.
TypeOK == LauncherTypeOK /\ conns \in [Clients -> Connection]

WellFormed == TypeOK /\ ListIsCurrent

\* "one request line per one response line": the answers written are those to the lines
\* read, in their order; what follows a line that is not understood is neither answered nor
\* carried out, and nothing is said to another user's client.
AnsweredInOrder ==
    \A c \in Clients :
        LET conn == conns[c]
            bad == {i \in 1..conn.taken : conn.sent[i] = "foreign"}
        IN  /\ Len(conn.answers) = IF bad = {} THEN conn.taken
                                   ELSE CHOOSE i \in bad : \A j \in bad : i <= j
            /\ \A i \in DOMAIN conn.answers :
                  conn.answers[i].ok <=> conn.sent[i] \in {"launcher", "state"}
            /\ bad # {} \/ c \in Foreign => conn.served # "open"
            /\ c \in Foreign => conn.answers = <<>>

\* A toggle's answer is the state it left: where it was open, closed, and the last answer of
\* a read says how the panel is.
TogglesTold ==
    \A c \in Clients :
        LET told == {i \in (Len(conns[c].answers) + 1)..Len(conns'[c].answers) :
                        conns'[c].sent[i] = "launcher"}
        IN  /\ ReadyRead(c) /\ told = {} => launcher' = launcher
            /\ \A i \in told :
                  /\ (\A j \in told : i <= j) /\ launcher.open =>
                         ~conns'[c].answers[i].open
                  /\ (\A j \in told : j <= i) =>
                         conns'[c].answers[i].open = launcher'.open

\* A request line is answered once, in order, and with what it did.
RequestsAnswered == [][AnsweredInOrder' /\ TogglesTold]_vars

\* Nothing is kept of a client that has gone, whatever it left unread.
ClientsLetGo == \A c \in Clients : conns[c].end = "left" ~> conns[c].served = "none"
=============================================================================
