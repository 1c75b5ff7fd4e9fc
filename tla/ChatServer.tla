------------------------------- MODULE ChatServer -------------------------------
(***************************************************************************)
(* The local chat of csci4061/server: the server's polling loop (server.c),*)
(* the shells it talks to through pipes (shell.c), one in the operator's   *)
(* terminal and one in an xterm window per user, and their readers.        *)
(*                                                                         *)
(* A pipe is the sequence of the messages written and not yet read; a read *)
(* of MSG_SIZE bytes takes some of them, acts on the first, and may stop   *)
(* inside the last (which lengths do what is left open).  A window's shell *)
(* and reader live and die together: when the shell ends, its reader gets  *)
(* the terminal's SIGHUP, and soon after the xterm ends too.  Nobody ever  *)
(* reaps a window the server killed, so a window stands for its pids.      *)
(*                                                                         *)
(* The server knows its users' pipes by descriptor numbers.  The parent    *)
(* closes users[i].ctop[1] after the fork, keeps the number, and closes it *)
(* again when the user goes: whoever has the number by then loses it.      *)
(***************************************************************************)
EXTENDS Integers, Sequences, FiniteSets

CONSTANTS
    Windows,         \* one per \add that succeeds
    Server,          \* the operator's shell
    Names, NoName,   \* user names; a command without one
    ServerName,      \* the name the server's own messages carry
    NamePrefixes,    \* the pairs <<typed, name>> where name starts with typed
    Unset,           \* a child_pid malloc left in the slot
    MAX_USERS,       \* slots
    OperatorLines,   \* the pairs <<command, name>> the operator may type
    UserLines,       \* those a user may type
    PipeSize,        \* bound on the messages a pipe holds
    MaxLines         \* bound on the lines typed, besides those \add lines

ASSUME ChatAssumption ==
    /\ Server \notin Windows /\ Unset \notin Windows
    /\ NoName \notin Names /\ ServerName \notin Names
    /\ NamePrefixes \subseteq Names \X Names
    /\ \A n \in Names : <<n, n>> \in NamePrefixes
    /\ MAX_USERS \in Nat \ {0}
    /\ OperatorLines \cup UserLines \subseteq
          {"list", "add", "kick", "exit", "p2p", "say"} \X (Names \cup {NoName})
    /\ PipeSize \in Nat \ {0}
    /\ MaxLines \in Nat

VARIABLES
    running,         \* the server has not exited
    turn,            \* whose pipe it reads next: a slot's, or -1 the operator's
    users,           \* the slots
    fds,             \* what each of the server's descriptors refers to
    inherited,       \* the ends a window's processes got from the fork
    unheard,         \* history: the windows whose ctop[0] another's cleanup closed
    outbox,          \* the writes left of the broadcast under way
    ctop,            \* shell to server, for each shell
    ptoc,            \* server to reader, for each shell
    window,          \* the life of each shell and of the terminal it is in
    title,           \* the name each window's shell was started with
    lines            \* how many lines that count have been typed

vars == <<running, turn, users, fds, inherited, unheard, outbox, ctop, ptoc,
          window, title, lines>>

table == <<fds, inherited, unheard>>

Shells == Windows \cup {Server}
Slots == 0 .. MAX_USERS - 1

(* Descriptor numbers, counted from the first that is free when the server *)
(* has made its own pipes: each user in a slot takes three for good, and   *)
(* the next one four for a while.                                          *)
Numbers == 0 .. 3 * MAX_USERS

(* The ends of a window's pipes that the server holds, named after the     *)
(* members of users[i] that keep their numbers.                            *)
Ends == [of : Windows, end : {"ptoc0", "ptoc1", "ctop0"}]
End(w, e) == [of |-> w, end |-> e]
Closed == End(Unset, "closed")

(* Commands carry the shell that wrote them, and texts their author and,   *)
(* if a \p2p wrote them, its addressee, to state what becomes of them.     *)
Commands == [cmd : {"child_pid", "list", "add", "kick", "exit", "p2p", "say"},
             arg : Names \cup {NoName}, by : Shells]
Texts == [how : {"notice", "say", "p2p"}, sender : Names \cup {NoName, ServerName},
          to : Names \cup {NoName}, by : Shells]

Command(cmd, arg, s) == [cmd |-> cmd, arg |-> arg, by |-> s]

Init ==
    /\ running = TRUE
    /\ turn = -1
    /\ users = [i \in Slots |->    \* the members of an empty slot are not read
          [status |-> "EMPTY", name |-> NoName, pid |-> Unset, child_pid |-> Unset,
           ptoc0 |-> 0, ptoc1 |-> 0, ctop0 |-> 0, ctop1 |-> 0]]
    /\ fds = [n \in Numbers |-> Closed]
    /\ inherited = [w \in Windows |-> {}]
    /\ unheard = {}
    /\ outbox = {}
    /\ ctop = [s \in Shells |->
          IF s = Server THEN <<Command("child_pid", NoName, Server)>> ELSE <<>>]
    /\ ptoc = [s \in Shells |-> <<>>]
    /\ window = [s \in Shells |-> IF s = Server THEN "open" ELSE "none"]
    /\ title = [w \in Windows |-> NoName]
    /\ lines = 0

-------------------------------------------------------------------------------
(* Pipes and descriptors.                                                  *)

(* Some process has this end of a pipe open: the server, or a window that  *)
(* was forked while the server had it (nothing is closed on exec).         *)
Held(e) ==
    \/ \E n \in Numbers : fds[n] = e
    \/ \E w \in Windows : e \in inherited[w]

Pipes == [ctop |-> ctop, ptoc |-> ptoc]

Dropped(pipe, k) == SubSeq(pipe, k + 1, Len(pipe))

Operator == -1    \* the server's end of the operator's pipe, which nobody closes

(* write() to a descriptor, left being the pipes after the read.  One that *)
(* is closed or no write end gives an error that is reported and passed    *)
(* over; a pipe with no read end left ends the server with SIGPIPE; a full *)
(* pipe blocks it.                                                         *)
Write(n, text, left) ==
    LET e == IF n = Operator THEN End(Server, "ptoc1") ELSE fds[n]
        broken == e.of # Server /\ ~Held(End(e.of, "ptoc0"))
    IN  IF e.end # "ptoc1" \/ broken
        THEN /\ running' = (running /\ e.end # "ptoc1")
             /\ ptoc' = left.ptoc
        ELSE /\ Len(left.ptoc[e.of]) < PipeSize
             /\ ptoc' = [left.ptoc EXCEPT ![e.of] = Append(@, text)]
             /\ UNCHANGED running

-------------------------------------------------------------------------------
(* The shells.                                                             *)

ShellOnly == UNCHANGED <<running, turn, users, fds, unheard, outbox, title>>

(* The xterm starts the shell, which forks its reader and reports its pid: *)
(* SIGPIPE if nobody can read that.                                        *)
Open(w) ==
    /\ window[w] = "opening"
    /\ IF Held(End(w, "ctop0"))
       THEN /\ window' = [window EXCEPT ![w] = "open"]
            /\ ctop' = [ctop EXCEPT ![w] = Append(@, Command("child_pid", NoName, w))]
       ELSE window' = [window EXCEPT ![w] = "closing"] /\ UNCHANGED ctop
    /\ ShellOnly /\ UNCHANGED <<inherited, ptoc, lines>>

(* A bound: no more of the operator's \add than there are windows to open. *)
WindowsLeft ==
    Cardinality({k \in 1 .. Len(ctop[Server]) : ctop[Server][k].cmd = "add"})
    < Cardinality({w \in Windows : window[w] = "none"})

HasShell(s) == window[s] \in {"open", "silent"}    \* silent: its reader was killed

(* A line is typed; a blank line is dropped by the shell.  One that nobody *)
(* can read is the end of the shell (ShellEnds).                           *)
Type(s) ==
    /\ HasShell(s)
    /\ s = Server \/ Held(End(s, "ctop0"))
    /\ Len(ctop[s]) < PipeSize
    /\ \E c \in IF s = Server THEN OperatorLines ELSE UserLines :
          /\ IF s = Server /\ c[1] = "add"
             THEN WindowsLeft /\ UNCHANGED lines
             ELSE lines < MaxLines /\ lines' = lines + 1
          /\ ctop' = [ctop EXCEPT ![s] = Append(@, Command(c[1], c[2], s))]
    /\ ShellOnly /\ UNCHANGED <<inherited, ptoc, window>>

(* \seg, SIGPIPE, or any other end of a user's shell; the xterm follows.   *)
(* The operator's reader is not hit by the end of the operator's shell.    *)
ShellEnds(s) ==
    /\ HasShell(s)
    /\ window' = [window EXCEPT ![s] = IF s = Server THEN "gone" ELSE "closing"]
    /\ ShellOnly /\ UNCHANGED <<inherited, ctop, ptoc, lines>>

(* The last process of a window ends, and closes all it has.               *)
WindowEnds(w) ==
    /\ window' = [window EXCEPT ![w] = "gone"]
    /\ inherited' = [inherited EXCEPT ![w] = {}]
    /\ ShellOnly /\ UNCHANGED <<ctop, ptoc, lines>>

TerminalFollows(w) == window[w] = "closing" /\ WindowEnds(w)

(* The user closes the window, or the xterm fails.                         *)
UserCloses(w) == window[w] \in {"opening", "open", "silent"} /\ WindowEnds(w)

HasReader(s) == s = Server \/ window[s] = "open"

(* A reader takes some messages from its pipe and prints the first.        *)
Show(s) ==
    /\ HasReader(s)
    /\ \E k \in 1 .. Len(ptoc[s]) : ptoc' = [ptoc EXCEPT ![s] = Dropped(@, k)]
    /\ ShellOnly /\ UNCHANGED <<inherited, ctop, window, lines>>

-------------------------------------------------------------------------------
(* What the server does with a command.  left has the pipes after the read.*)

FullIn(u, i) == u[i].status = "FULL"
Full(i) == FullIn(users, i)

StartsWith(name, typed) == <<typed, name>> \in NamePrefixes

(* i is the slot find_user_index returns.                                  *)
FindUserIndex(typed, i) ==
    /\ Full(i) /\ StartsWith(users[i].name, typed)
    /\ \A j \in Slots : Full(j) /\ StartsWith(users[j].name, typed) => i <= j

Found(typed) == \E i \in Slots : FindUserIndex(typed, i)

Text(how, sender, to, s) == [how |-> how, sender |-> sender, to |-> to, by |-> s]

Notice == Text("notice", NoName, NoName, Server)

Reply(n, left) ==
    /\ Write(n, Notice, left)
    /\ ctop' = left.ctop
    /\ UNCHANGED <<users, table, outbox, window, title>>

Ignore(left) ==
    /\ ctop' = left.ctop /\ ptoc' = left.ptoc
    /\ UNCHANGED <<running, users, table, outbox, window, title>>

(* broadcast_msg: a notice to the operator (slot -1), and then the text to *)
(* every slot in use, one write after another (WriteNext).                 *)
Broadcast(sender, c, left) ==
    /\ outbox' = {[slot |-> -1, text |-> Notice]} \cup
          {[slot |-> i, text |-> Text("say", sender, c.arg, c.by)] :
              i \in {j \in Slots : Full(j)}}
    /\ ctop' = left.ctop /\ ptoc' = left.ptoc
    /\ UNCHANGED <<running, users, table, window, title>>

(* kill(0) reaches the server's whole process group, windows included.     *)
Exit ==
    /\ running' = FALSE
    /\ users' = [i \in Slots |-> [users[i] EXCEPT !.status = "EMPTY"]]
    /\ fds' = [n \in Numbers |-> Closed]
    /\ inherited' = [w \in Windows |-> {}]
    /\ window' = [s \in Shells |->
          IF s \in Windows /\ window[s] # "none" THEN "gone" ELSE window[s]]
    /\ ctop' = [s \in Shells |-> <<>>]
    /\ ptoc' = [s \in Shells |-> <<>>]
    /\ UNCHANGED <<unheard, outbox, title>>

NumbersButCtop0(i) == {users[i].ptoc0, users[i].ptoc1, users[i].ctop1}    \* mistake: one is left open

(* The numbers close_pipes closes, whatever they refer to.                 *)
NumbersOf(i) == {users[i].ptoc0, users[i].ptoc1, users[i].ctop0, users[i].ctop1}

(* cleanup_user: the numbers are closed, the child and the xterm killed.   *)
(* The child is a reader; its shell lives on if it is another window's.  A *)
(* child_pid that was never reported is whatever malloc left: a pid of     *)
(* nobody, or 0, the process group.                                        *)
CleanupUser(i, left) ==
    LET w == users[i].pid IN
    \/ /\ users' = [users EXCEPT ![i].status = "EMPTY"]
       /\ fds' = [n \in Numbers |-> IF n \in NumbersOf(i) THEN Closed ELSE fds[n]]
       /\ unheard' = unheard \cup
             {v \in Windows \ {w} : \E n \in NumbersOf(i) : fds[n] = End(v, "ctop0")}
       /\ window' = [s \in Shells |->
             IF s = w THEN "gone"
             ELSE IF s = users[i].child_pid /\ window[s] = "open" THEN "silent"
             ELSE window[s]]
       /\ inherited' = [inherited EXCEPT ![w] = {}]
       /\ ctop' = [left.ctop EXCEPT ![w] = <<>>]
       /\ ptoc' = [left.ptoc EXCEPT ![w] = <<>>]
       /\ UNCHANGED <<running, outbox, title>>
    \/ users[i].child_pid = Unset /\ Exit

FreeIgnoringStatus(i) == i = 0    \* mistake: takes the first slot, in use or not

(* The slot add_user takes: the first that is empty.                       *)
Free(i) == ~Full(i) /\ \A j \in 0 .. i - 1 : Full(j)

(* The number pipe() takes next: the lowest that is closed.                *)
Lowest(S) == {n \in S : \A m \in S : n <= m}

ClosedNumbers == {n \in Numbers : fds[n] = Closed}

(* The pipes get the four lowest numbers, ptoc and then ctop.  The window  *)
(* is forked with all the ends the server has, but its own write end of    *)
(* ptoc and read end of ctop, and then the server closes ctop[1].          *)
MakePipes(w, p0, p1, c0) ==
    /\ fds' = [fds EXCEPT ![p0] = End(w, "ptoc0"), ![p1] = End(w, "ptoc1"),
                          ![c0] = End(w, "ctop0")]
    /\ inherited' = [inherited EXCEPT ![w] =
          ({fds[n] : n \in Numbers} \ {Closed}) \cup {End(w, "ptoc0")}]
    /\ UNCHANGED unheard

FillKeepingName(slot, name, w, p0, p1, c0, c1) ==    \* mistake: the slot keeps its old name
    [status |-> "FULL", pid |-> w, child_pid |-> slot.child_pid,
     name |-> IF slot.name = NoName THEN name ELSE slot.name,
     ptoc0 |-> p0, ptoc1 |-> p1, ctop0 |-> c0, ctop1 |-> c1]

(* child_pid stays what it was.                                            *)
Fill(slot, name, w, p0, p1, c0, c1) ==
    [status |-> "FULL", pid |-> w, child_pid |-> slot.child_pid, name |-> name,
     ptoc0 |-> p0, ptoc1 |-> p1, ctop0 |-> c0, ctop1 |-> c1]

(* Any window not used yet: which it is makes no difference.               *)
NextWindow == {w \in Windows : w = CHOOSE v \in Windows : window[v] = "none"}

(* The slot is filled, its pipes made, and the xterm forked.               *)
AddUser(name, i, w, left) ==
    /\ window[w] = "none"
    /\ Write(Operator, Notice, left)
    /\ \E p0 \in Lowest(ClosedNumbers) :
       \E p1 \in Lowest(ClosedNumbers \ {p0}) :
       \E c0 \in Lowest(ClosedNumbers \ {p0, p1}) :
       \E c1 \in Lowest(ClosedNumbers \ {p0, p1, c0}) :
          /\ users' = [users EXCEPT ![i] = Fill(@, name, w, p0, p1, c0, c1)]
          /\ MakePipes(w, p0, p1, c0)
    /\ window' = [window EXCEPT ![w] = "opening"]
    /\ title' = [title EXCEPT ![w] = name]
    /\ ctop' = left.ctop
    /\ UNCHANGED outbox

ServerCommand(c, left) ==
    \/ c.cmd = "child_pid" /\ Ignore(left)    \* used only by an exit, after which nothing runs
    \/ c.cmd = "list" /\ Reply(Operator, left)
    \/ /\ c.cmd = "add" /\ c.arg # NoName
       /\ \/ \E i \in Slots, w \in NextWindow : Free(i) /\ AddUser(c.arg, i, w, left)
          \/ (\A i \in Slots : Full(i)) /\ Reply(Operator, left)
    \/ c.cmd = "add" /\ c.arg = NoName /\ Ignore(left)
    \/ /\ c.cmd = "kick"
       /\ \/ \E i \in Slots : FindUserIndex(c.arg, i) /\ CleanupUser(i, left)
          \/ ~Found(c.arg) /\ Reply(Operator, left)
    \/ c.cmd = "exit" /\ Exit
    \/ c.cmd = "say" /\ Broadcast(ServerName, c, left)
    \/ c.cmd = "p2p" /\ Reply(Operator, left)

SendP2P(i, c, left) ==
    \/ c.arg = NoName /\ Ignore(left)
    \/ /\ \E r \in Slots :
             /\ FindUserIndex(c.arg, r)
             /\ Write(users[r].ptoc1, Text("p2p", users[i].name, c.arg, c.by), left)
       /\ ctop' = left.ctop
       /\ UNCHANGED <<users, table, outbox, window, title>>
    \/ c.arg # NoName /\ ~Found(c.arg) /\ Reply(users[i].ptoc1, left)

ChildPid(i, c, left) ==
    /\ users' = [users EXCEPT ![i].child_pid = c.by]
    /\ ctop' = left.ctop /\ ptoc' = left.ptoc
    /\ UNCHANGED <<running, table, outbox, window, title>>

UserCommand(i, c, left) ==
    \/ c.cmd = "child_pid" /\ ChildPid(i, c, left)
    \/ c.cmd = "list" /\ Reply(users[i].ptoc1, left)
    \/ c.cmd = "p2p" /\ SendP2P(i, c, left)
    \/ c.cmd = "exit" /\ CleanupUser(i, left)
    \/ c.cmd = "say" /\ Broadcast(users[i].name, c, left)
    \/ c.cmd \in {"add", "kick"} /\ Reply(Operator, left)

-------------------------------------------------------------------------------
(* The polling loop.                                                       *)

(* The tail of a message whose beginning an earlier read took: no command. *)
Remainder(c) == [c EXCEPT !.cmd = "say", !.arg = IF c.cmd = "p2p" THEN @ ELSE NoName]

(* What a read that takes messages from a pipe may leave in it.            *)
Leftovers(pipe) ==
    {Dropped(pipe, k) : k \in 1 .. Len(pipe)}
    \cup {<<Remainder(pipe[k])>> \o Dropped(pipe, k) : k \in 2 .. Len(pipe)}

(* What read() finds at the end e of a pipe: what it returns, with what it *)
(* leaves in the pipes.  A text that was on its way to a window is taken   *)
(* for a line like any other.                                              *)
Reads(e) ==
    IF e.end = "ctop0"
    THEN {[command |-> Head(ctop[e.of]),
           left |-> [ctop |-> [ctop EXCEPT ![e.of] = rest], ptoc |-> ptoc]] :
             rest \in Leftovers(ctop[e.of])}
    ELSE {[command |-> Command("say", Head(ptoc[e.of]).to, Head(ptoc[e.of]).by),
           left |-> [ctop |-> ctop, ptoc |-> [ptoc EXCEPT ![e.of] = Dropped(@, k)]]] :
             k \in 1 .. Len(ptoc[e.of])}

(* Nothing is left to read, and nobody is left to write.                   *)
EndOfFile(e) ==
    \/ e.end = "ctop0" /\ ctop[e.of] = <<>> /\ window[e.of] = "gone"
    \/ e.end = "ptoc0" /\ ptoc[e.of] = <<>> /\ ~Held(End(e.of, "ptoc1"))

(* read() returns -1: there is nothing yet, or this is no end to read from.*)
ReadFails(e) == e.end \in {"ctop0", "ptoc0"} => Reads(e) = {} /\ ~EndOfFile(e)

After(i) == IF i = MAX_USERS - 1 THEN -1 ELSE i + 1

Polling == running /\ outbox = {}

PollServer ==
    /\ Polling /\ turn = -1
    /\ turn' = 0
    /\ \/ ctop[Server] = <<>> /\ window[Server] = "open" /\ Ignore(Pipes)
       \/ \E r \in Reads(End(Server, "ctop0")) : ServerCommand(r.command, r.left)

(* The operator's shell has ended: the server exits, and cleans up nothing.*)
EndOfConversation ==
    /\ Polling /\ turn = -1
    /\ EndOfFile(End(Server, "ctop0"))
    /\ running' = FALSE
    /\ UNCHANGED <<turn, users, table, outbox, ctop, ptoc, window, title>>

PollUser(i) ==
    LET e == fds[users[i].ctop0] IN
    /\ Polling /\ turn = i
    /\ turn' = After(i)
    /\ \/ ~Full(i) /\ Ignore(Pipes)
       \/ Full(i) /\ ReadFails(e) /\ Ignore(Pipes)
       \/ /\ Full(i) /\ ~ReadFails(e)
          /\ \E r \in Reads(e) : UserCommand(i, r.command, r.left)

UserGoneIgnored(i) ==    \* mistake: end of file is taken for no message
    /\ Polling /\ turn = i
    /\ Full(i) /\ EndOfFile(fds[users[i].ctop0])
    /\ turn' = After(i)
    /\ Ignore(Pipes)

(* End of file: the window is gone and nothing is left in its pipe.        *)
UserGone(i) ==
    /\ Polling /\ turn = i
    /\ Full(i) /\ EndOfFile(fds[users[i].ctop0])
    /\ turn' = After(i)
    /\ CleanupUser(i, Pipes)

(* The next write of a broadcast, in the order of the slots.               *)
WriteNext ==
    /\ running
    /\ \E m \in outbox :
          /\ \A n \in outbox : m.slot <= n.slot
          /\ Write(IF m.slot = -1 THEN Operator ELSE users[m.slot].ptoc1, m.text, Pipes)
          /\ outbox' = outbox \ {m}
    /\ UNCHANGED <<turn, users, table, ctop, window, title>>

ServerStep ==
    /\ UNCHANGED lines
    /\ \/ PollServer \/ EndOfConversation
       \/ \E i \in Slots : PollUser(i) \/ UserGone(i)
       \/ WriteNext

Next ==
    \/ ServerStep
    \/ running /\ \E s \in Shells : Type(s) \/ ShellEnds(s) \/ Show(s)
    \/ running /\ \E w \in Windows : Open(w) \/ TerminalFollows(w) \/ UserCloses(w)

Spec == Init /\ [][Next]_vars

(* Fairness: the server keeps polling, a reader whose terminal lives keeps *)
(* reading, and an xterm whose shell has ended ends.  Nobody has to type.  *)
Fairness ==
    /\ WF_vars(ServerStep)
    /\ \A s \in Shells : WF_vars(running /\ Show(s))
    /\ \A w \in Windows : WF_vars(running /\ TerminalFollows(w))

FairSpec == Spec /\ Fairness

-------------------------------------------------------------------------------
InSlot(w) == {i \in Slots : Full(i) /\ users[i].pid = w}

(* Every window on the screen belongs to exactly one slot, through adds,   *)
(* kicks, exits, crashes and the reuse of slots: the server can always     *)
(* reach it, name it and end it.                                           *)
WindowHasSlot ==
    running => \A w \in Windows :
        window[w] \notin {"none", "gone"} => Cardinality(InSlot(w)) = 1

(* No descriptor leaks: each that is open in the server is an end of the   *)
(* pipe of a user in a slot that still knows its number, so the cleanup    *)
(* will close it and pipe() always finds a free one, though numbers are    *)
(* closed twice, by others, and given to others in between.                *)
NoDescriptorLeaks ==
    \A n \in Numbers : fds[n] # Closed =>
        \E i \in Slots : /\ Full(i) /\ users[i].pid = fds[n].of
                         /\ users[i][fds[n].end] = n

(* A text goes out under the name its author's own shell prompts with, or  *)
(* under that of a window whose pipe another user's cleanup closed: its    *)
(* slot may read somebody else's lines.                                    *)
SenderIsAuthor ==
    \A s \in Shells : \A k \in 1 .. Len(ptoc[s]) :
        LET text == ptoc[s][k] IN
        text.sender \in Names =>
            \/ text.sender = title[text.by]
            \/ \E w \in unheard : text.sender = title[w]

(* The server is inside a write to a full pipe that nobody reads any more. *)
Stuck ==
    /\ ~ENABLED ServerStep
    /\ \E s \in Shells : ~HasReader(s) /\ Len(ptoc[s]) = PipeSize

(* The slot of a user whose window is gone is eventually free again,       *)
(* unless the server blocks on a pipe that nobody will ever read, or can   *)
(* no longer see the end of the file, closed by another user's cleanup.    *)
SlotReclaimed ==
    \A w \in Windows :
        window[w] \in {"closing", "gone"} /\ InSlot(w) # {}
        ~> (InSlot(w) = {} \/ ~running \/ Stuck \/ w \in unheard)

(* A cleanup leaves the other users' pipes alone: server.c:173, "Close all *)
(* pipes for this user".  So the server can write to the window in a slot  *)
(* and read from it as long as the slot is in use.                         *)
UsersStayConnected ==
    \A i \in Slots : Full(i) =>
        /\ fds[users[i].ptoc1] = End(users[i].pid, "ptoc1")
        /\ fds[users[i].ctop0] = End(users[i].pid, "ctop0")

(* A \p2p goes to the named user and to nobody else: README.txt:26, "use   *)
(* \p2p <username> <message> in user shell to send p2p message to a        *)
(* specificc user".                                                        *)
P2PStaysPrivate ==
    \A w \in Windows : \A k \in 1 .. Len(ptoc[w]) :
        ptoc[w][k].to # NoName => StartsWith(title[w], ptoc[w][k].to)

(* When a user's slot is cleaned up, the child killed is that user's own:  *)
(* server.c:184, "kill user's child process".                              *)
KillsUsersChild ==
    [][\A i \in Slots : Full(i) /\ ~FullIn(users', i) /\ running' =>
          users[i].child_pid = users[i].pid]_vars
===============================================================================
