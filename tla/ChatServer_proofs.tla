---------------------------- MODULE ChatServer_proofs ----------------------------
(***************************************************************************)
(* Proofs about ChatServer, for any number of windows, slots and names and *)
(* pipes of any size: every window on the screen has its slot, no          *)
(* descriptor leaks, and a text carries its author's name.                 *)
(***************************************************************************)
EXTENDS ChatServer, FiniteSetTheorems, SequenceTheorems, TLAPS

USE ChatAssumption

-------------------------------------------------------------------------------
(* The inductive invariant.  It has the shape of the state, what is in the *)
(* pipes, how slots and windows belong together, and what the descriptors  *)
(* refer to.                                                               *)

User == [status : {"EMPTY", "FULL"}, name : Names \cup {NoName},
         pid : Windows \cup {Unset}, child_pid : Shells \cup {Unset},
         ptoc0 : Numbers, ptoc1 : Numbers, ctop0 : Numbers, ctop1 : Numbers]

OnScreen == {"opening", "open", "silent", "closing"}

(* A shell's pipe holds commands that this shell wrote.                    *)
CommandsOf(s) == {c \in Commands : c.by = s}

OwnCommands(pipes) ==
    /\ DOMAIN pipes = Shells
    /\ pipes = [s \in Shells |-> pipes[s]]
    /\ \A s \in Shells : pipes[s] \in Seq(CommandsOf(s))

TypeInv ==
    /\ running \in BOOLEAN
    /\ users \in [Slots -> User]
    /\ fds \in [Numbers -> Ends \cup {Closed}]
    /\ window \in [Shells -> OnScreen \cup {"none", "gone"}]
    /\ title \in [Windows -> Names \cup {NoName}]
    /\ OwnCommands(ctop)

(* A window that was forked and has this title.                            *)
Titled(w, name) == w \in Windows /\ window[w] # "none" /\ title[w] = name

(* A user's name is on what was written in the window with that title, or  *)
(* on what the slot of a window read that the server no longer hears.      *)
MayBear(name, s) == Titled(s, name) \/ \E w \in unheard : Titled(w, name)

AuthoredTexts == {t \in Texts : t.sender \in Names => MayBear(t.sender, t.by)}

AuthoredPipes == [Shells -> Seq(AuthoredTexts)]

Writes(texts) == [slot : Slots \cup {-1}, text : texts]

TextInv ==
    /\ ptoc \in AuthoredPipes
    /\ outbox \subseteq Writes(AuthoredTexts)

(* A slot in use has a window of its own, that bears its name, and a       *)
(* window on the screen has a slot.                                        *)
HasSlot(w) == \E i \in Slots : Full(i) /\ users[i].pid = w

SlotInv ==
    /\ \A i \in Slots : Full(i) =>
          /\ users[i].name \in Names
          /\ Titled(users[i].pid, users[i].name)
    /\ \A i, j \in Slots : Full(i) /\ Full(j) /\ users[i].pid = users[j].pid => i = j
    /\ running => \A w \in Windows : window[w] \in OnScreen => HasSlot(w)

(* A descriptor is known to the slot of its pipe's window, and a slot's    *)
(* ctop[0] is its own window's unless a cleanup of another has closed it.  *)
TableInv ==
    /\ NoDescriptorLeaks
    /\ unheard \subseteq {w \in Windows : window[w] # "none"}
    /\ \A i \in Slots : Full(i) =>
          \/ fds[users[i].ctop0] = End(users[i].pid, "ctop0")
          \/ users[i].pid \in unheard

ChatInv == TypeInv /\ TextInv /\ SlotInv /\ TableInv

LEMMA InitChatInv == Init => ChatInv
  <1> SUFFICES ASSUME Init PROVE ChatInv
    OBVIOUS
  <1>1. \A i \in Slots : ~ Full(i)
    BY DEF Init, Full, FullIn
  <1>2. TypeInv
    <2>1. Command("child_pid", NoName, Server) \in CommandsOf(Server)
      BY DEF Command, CommandsOf, Commands, Shells
    <2>2. OwnCommands(ctop)
      BY <2>1 DEF Init, OwnCommands
    <2> QED
      BY <2>2 DEF Init, TypeInv, User, OnScreen, Numbers
  <1>3. TextInv
    BY DEF Init, TextInv, AuthoredPipes
  <1>4. SlotInv
    BY <1>1 DEF Init, SlotInv, OnScreen, Shells
  <1>5. TableInv
    BY <1>1 DEF Init, TableInv, NoDescriptorLeaks
  <1> QED
    BY <1>2, <1>3, <1>4, <1>5 DEF ChatInv

-------------------------------------------------------------------------------
(* Pipes.                                                                  *)

LEMMA DroppedType ==
    ASSUME NEW S, NEW pipe \in Seq(S), NEW k \in 1 .. Len(pipe)
    PROVE  Dropped(pipe, k) \in Seq(S)
  <1>1. \A i \in k + 1 .. Len(pipe) : pipe[i] \in S
    BY ElementOfSeq
  <1> QED
    BY <1>1, SubSeqProperties DEF Dropped

(* The command the server reads from a shell's pipe is that shell's, and   *)
(* so is what it leaves there.                                             *)
LEMMA ReadCommand ==
    ASSUME NEW s \in Shells, NEW pipe \in Seq(CommandsOf(s)), NEW rest \in Leftovers(pipe)
    PROVE  Head(pipe) \in CommandsOf(s) /\ rest \in Seq(CommandsOf(s))
  <1>1. \A k \in 1 .. Len(pipe) : Dropped(pipe, k) \in Seq(CommandsOf(s))
    BY DroppedType
  <1>2. \A k \in 1 .. Len(pipe) : <<Remainder(pipe[k])>> \in Seq(CommandsOf(s))
    <2> SUFFICES ASSUME NEW k \in 1 .. Len(pipe)
                 PROVE  Remainder(pipe[k]) \in CommandsOf(s)
      OBVIOUS
    <2>1. pipe[k] \in CommandsOf(s)
      BY ElementOfSeq
    <2> QED
      BY <2>1 DEF Remainder, CommandsOf, Commands
  <1>3. rest \in Seq(CommandsOf(s))
    <2>1. CASE \E k \in 1 .. Len(pipe) : rest = Dropped(pipe, k)
      BY <1>1, <2>1
    <2>2. ASSUME NEW k \in 2 .. Len(pipe), rest = <<Remainder(pipe[k])>> \o Dropped(pipe, k)
          PROVE  rest \in Seq(CommandsOf(s))
      <3>1. k \in 1 .. Len(pipe)
        BY LenProperties
      <3>2. /\ <<Remainder(pipe[k])>> \in Seq(CommandsOf(s))
            /\ Dropped(pipe, k) \in Seq(CommandsOf(s))
        BY <1>1, <1>2, <3>1
      <3> QED
        BY <2>2, <3>2, ConcatProperties
    <2> QED
      BY <2>1, <2>2 DEF Leftovers
  <1>4. 1 \in 1 .. Len(pipe)
    <2>1. Len(pipe) \in Nat
      BY LenProperties
    <2>2. (\E k : k \in 1 .. Len(pipe)) \/ (\E k : k \in 2 .. Len(pipe))
      BY DEF Leftovers
    <2> QED
      BY <2>1, <2>2
  <1> QED
    BY <1>3, <1>4, ElementOfSeq, HeadTailProperties

(* What the server has read leaves the pipes in shape.                     *)
InShape(left) == OwnCommands(left.ctop) /\ left.ptoc \in AuthoredPipes

LEMMA NothingRead == ChatInv => InShape(Pipes)
  BY DEF ChatInv, TypeInv, TextInv, InShape, Pipes

LEMMA ReadLeaves ==
    ASSUME ChatInv, NEW s \in Shells, NEW r \in Reads(End(s, "ctop0"))
    PROVE  r.command \in CommandsOf(s) /\ InShape(r.left)
  <1>1. PICK rest \in Leftovers(ctop[s]) :
            /\ r.command = Head(ctop[s])
            /\ r.left.ctop = [ctop EXCEPT ![s] = rest]
            /\ r.left.ptoc = ptoc
    BY DEF Reads, End
  <1>2. OwnCommands(r.left.ctop)
    BY <1>1, ReadCommand DEF ChatInv, TypeInv, OwnCommands
  <1> QED
    <2>1. ctop[s] \in Seq(CommandsOf(s))
      BY DEF ChatInv, TypeInv, OwnCommands
    <2>2. r.command \in CommandsOf(s)
      BY <1>1, <2>1, ReadCommand
    <2> QED
      BY <1>1, <1>2, <2>2 DEF ChatInv, TextInv, InShape

(* A slot whose ctop[0] leads to the pipe of a reader takes its texts.     *)
LEMMA ReadTakesText ==
    ASSUME ChatInv, NEW w \in Windows, NEW r \in Reads(End(w, "ptoc0"))
    PROVE  r.command \in Commands /\ InShape(r.left)
  <1>1. PICK k \in 1 .. Len(ptoc[w]) :
            /\ r.command = Command("say", Head(ptoc[w]).to, Head(ptoc[w]).by)
            /\ r.left.ctop = ctop
            /\ r.left.ptoc = [ptoc EXCEPT ![w] = Dropped(ptoc[w], k)]
    BY DEF Reads, End
  <1>2. w \in Shells /\ ptoc[w] \in Seq(AuthoredTexts)
    BY DEF ChatInv, TextInv, AuthoredPipes, Shells
  <1>3. Head(ptoc[w]) \in AuthoredTexts
    BY <1>2, LenProperties, ElementOfSeq, HeadTailProperties
  <1>4. Dropped(ptoc[w], k) \in Seq(AuthoredTexts)
    BY <1>2, DroppedType
  <1>5. r.left.ptoc \in AuthoredPipes
    BY <1>1, <1>2, <1>4 DEF ChatInv, TextInv, AuthoredPipes
  <1> QED
    BY <1>1, <1>3, <1>5 DEF AuthoredTexts, Texts, Command, Commands, InShape, ChatInv, TypeInv

-------------------------------------------------------------------------------
(* What the steps of the server and of the windows do to the invariant.    *)

(* A window keeps its title as long as the program runs, and the server    *)
(* does not hear it again.                                                 *)
TitlesKept ==
    /\ \A w \in Windows : window[w] # "none" => window'[w] # "none" /\ title'[w] = title[w]
    /\ unheard \subseteq unheard'

LEMMA TextsStay ==
    ASSUME TitlesKept, ptoc' \in AuthoredPipes, outbox' \subseteq Writes(AuthoredTexts)
    PROVE  TextInv'
  <1>1. AuthoredTexts \subseteq AuthoredTexts'
    BY DEF TitlesKept, AuthoredTexts, MayBear, Titled
  <1>2. ptoc' \in [Shells -> Seq(AuthoredTexts')]
    BY <1>1, SeqMonotonic DEF AuthoredPipes
  <1>3. outbox' \subseteq Writes(AuthoredTexts')
    BY <1>1 DEF Writes
  <1> QED
    BY <1>2, <1>3 DEF TextInv, AuthoredPipes, Writes, Slots, Shells

(* A step that leaves the slots and the table alone, and opens no window.  *)
LEMMA SlotsStay ==
    ASSUME ChatInv, OwnCommands(ctop'), UNCHANGED <<users, fds, unheard, title>>,
           running' = running \/ running' = FALSE,
           window' \in [Shells -> OnScreen \cup {"none", "gone"}],
           \A w \in Windows : window'[w] = "none" <=> window[w] = "none",
           \A w \in Windows : window'[w] \in OnScreen => window[w] \in OnScreen
    PROVE  TypeInv' /\ SlotInv' /\ TableInv' /\ TitlesKept
  <1>1. TypeInv'
    BY DEF ChatInv, TypeInv, OwnCommands
  <1>2. SlotInv'
    BY DEF ChatInv, SlotInv, Titled, HasSlot, Full, FullIn
  <1>3. TableInv'
    BY DEF ChatInv, TableInv, NoDescriptorLeaks, Full, FullIn
  <1>4. TitlesKept
    BY DEF TitlesKept
  <1> QED
    BY <1>1, <1>2, <1>3, <1>4

(* A step that only moves commands and texts, or ends the server.          *)
LEMMA PipesMove ==
    ASSUME ChatInv, OwnCommands(ctop'), ptoc' \in AuthoredPipes,
           outbox' \subseteq Writes(AuthoredTexts),
           running' = running \/ running' = FALSE,
           UNCHANGED <<users, fds, unheard, window, title>>
    PROVE  ChatInv'
  <1>1. TypeInv' /\ SlotInv' /\ TableInv' /\ TitlesKept
    BY SlotsStay DEF ChatInv, TypeInv
  <1> QED
    BY <1>1, TextsStay DEF ChatInv

(* A write ends in the pipe of a window or of the operator, or nowhere.    *)
LEMMA WriteKeeps ==
    ASSUME ChatInv, NEW n \in Numbers \cup {Operator}, NEW text \in AuthoredTexts,
           NEW left, InShape(left), Write(n, text, left)
    PROVE  ptoc' \in AuthoredPipes /\ (running' = running \/ running' = FALSE)
  <1> DEFINE e == IF n = Operator THEN End(Server, "ptoc1") ELSE fds[n]
             broken == e.of # Server /\ ~Held(End(e.of, "ptoc0"))
  <1>1. CASE e.end # "ptoc1" \/ broken
    BY <1>1 DEF Write, InShape, ChatInv, TypeInv
  <1>2. CASE ~(e.end # "ptoc1" \/ broken)
    <2>1. e.of \in Shells
      BY <1>2 DEF ChatInv, TypeInv, Ends, Closed, End, Shells
    <2>2. /\ ptoc' = [left.ptoc EXCEPT ![e.of] = Append(@, text)]
          /\ running' = running
      BY <1>2 DEF Write
    <2> HIDE DEF e
    <2>3. Append(left.ptoc[e.of], text) \in Seq(AuthoredTexts)
      BY <2>1, AppendProperties DEF InShape, AuthoredPipes
    <2> QED
      BY <2>1, <2>2, <2>3 DEF InShape, AuthoredPipes
  <1> QED
    BY <1>1, <1>2

LEMMA NoticeIsAuthored == Notice \in AuthoredTexts
  BY DEF Notice, Text, Texts, AuthoredTexts, Shells

LEMMA ReplyKeeps ==
    ASSUME ChatInv, NEW n \in Numbers \cup {Operator},
           NEW left, InShape(left), Reply(n, left)
    PROVE  ChatInv'
  <1>1. ptoc' \in AuthoredPipes /\ (running' = running \/ running' = FALSE)
    BY NoticeIsAuthored, WriteKeeps DEF Reply
  <1> QED
    BY <1>1, PipesMove DEF Reply, table, InShape, ChatInv, TextInv

LEMMA IgnoreKeeps ==
    ASSUME ChatInv, NEW left, InShape(left), Ignore(left)
    PROVE  ChatInv'
  BY PipesMove DEF Ignore, table, InShape, ChatInv, TextInv

(* A broadcast in the name of the server, or of a user who may be the      *)
(* author.                                                                 *)
LEMMA BroadcastKeeps ==
    ASSUME ChatInv, NEW c \in Commands, NEW sender \in Names \cup {ServerName},
           sender \in Names => MayBear(sender, c.by),
           NEW left, InShape(left), Broadcast(sender, c, left)
    PROVE  ChatInv'
  <1>1. Text("say", sender, c.arg, c.by) \in AuthoredTexts
    BY DEF Commands, Text, Texts, AuthoredTexts
  <1>2. outbox' \subseteq Writes(AuthoredTexts)
    BY <1>1, NoticeIsAuthored DEF Broadcast, Writes
  <1> QED
    BY <1>2, PipesMove DEF Broadcast, table, InShape

LEMMA ExitKeeps ==
    ASSUME ChatInv, Exit
    PROVE  ChatInv'
  <1> USE DEF ChatInv
  <1>1. TypeInv'
    <2>1. users' \in [Slots -> User]
      <3>1. \A i \in Slots : [users[i] EXCEPT !.status = "EMPTY"] \in User
        BY DEF TypeInv, User
      <3> QED
        BY <3>1 DEF Exit
    <2>2. window' \in [Shells -> OnScreen \cup {"none", "gone"}]
      BY DEF Exit, TypeInv
    <2>3. OwnCommands(ctop')
      BY DEF Exit, OwnCommands
    <2>4. fds' \in [Numbers -> Ends \cup {Closed}]
      BY DEF Exit
    <2> QED
      BY <2>1, <2>2, <2>3, <2>4 DEF Exit, TypeInv, OwnCommands
  <1>2. TitlesKept
    BY DEF Exit, TitlesKept, Shells
  <1>3. ptoc' \in AuthoredPipes
    BY DEF Exit, AuthoredPipes
  <1>4. TextInv'
    BY <1>2, <1>3, TextsStay DEF TextInv, Exit
  <1>e. \A i \in Slots : ~ Full(i)'
    BY DEF Exit, TypeInv, User, Full, FullIn
  <1>5. SlotInv'
    BY <1>e DEF Exit, SlotInv
  <1>6. TableInv'
    BY <1>2, <1>e DEF Exit, TableInv, NoDescriptorLeaks, TitlesKept
  <1> QED
    BY <1>1, <1>4, <1>5, <1>6

(* A slot in use is cleaned up, while no broadcast is under way.           *)
LEMMA CleanupKeeps ==
    ASSUME ChatInv, outbox = {}, NEW i \in Slots, Full(i),
           NEW left, InShape(left), CleanupUser(i, left)
    PROVE  ChatInv'
  <1> USE DEF ChatInv
  <1>1. CASE Exit
    BY <1>1, ExitKeeps
  <1>2. CASE ~ Exit
    <2>0. PICK v \in Windows : v = users[i].pid
      BY DEF SlotInv, Titled
    <2>1. /\ users' = [users EXCEPT ![i].status = "EMPTY"]
          /\ fds' = [n \in Numbers |-> IF n \in NumbersOf(i) THEN Closed ELSE fds[n]]
          /\ unheard' = unheard \cup
                {u \in Windows \ {v} : \E n \in NumbersOf(i) : fds[n] = End(u, "ctop0")}
          /\ ctop' = [left.ctop EXCEPT ![v] = <<>>]
          /\ ptoc' = [left.ptoc EXCEPT ![v] = <<>>]
          /\ UNCHANGED <<running, outbox, title>>
      BY <1>2, <2>0 DEF CleanupUser
    <2>2. /\ window' \in [Shells -> OnScreen \cup {"none", "gone"}]
          /\ window'[v] = "gone"
          /\ \A u \in Windows : window[u] # "none" => window'[u] # "none"
          /\ \A u \in Windows : window'[u] \in OnScreen => u # v /\ window[u] \in OnScreen
      <3>1. window' = [s \in Shells |->
                 IF s = v THEN "gone"
                 ELSE IF s = users[i].child_pid /\ window[s] = "open" THEN "silent"
                 ELSE window[s]]
        BY <1>2, <2>0 DEF CleanupUser
      <3> QED
        BY <3>1 DEF TypeInv, OnScreen, Shells
    <2>3. users' \in [Slots -> User] /\ ~ Full(i)'
      BY <2>1 DEF TypeInv, User, Full, FullIn
    <2>4. \A j \in Slots \ {i} : users'[j] = users[j]
      BY <2>1 DEF TypeInv
    <2>5. \A j \in Slots : Full(j)' => j # i /\ Full(j) /\ users'[j] = users[j] /\ users[j].pid # v
      BY <2>0, <2>3, <2>4 DEF SlotInv, Full, FullIn
    <2>6. TypeInv'
      <3>1. OwnCommands(ctop')
        <4>1. \A s \in Shells : ctop'[s] \in Seq(CommandsOf(s))
          BY <2>1, EmptySeq DEF InShape, OwnCommands, Shells
        <4> QED
          BY <2>1, <4>1 DEF InShape, OwnCommands
      <3>2. fds' \in [Numbers -> Ends \cup {Closed}]
        BY <2>1 DEF TypeInv
      <3> QED
        BY <2>1, <2>2, <2>3, <3>1, <3>2 DEF TypeInv, OwnCommands
    <2>7. TitlesKept
      BY <2>1, <2>2 DEF TitlesKept
    <2>8. TextInv'
      <3>1. ptoc' \in AuthoredPipes
        BY <2>1, EmptySeq DEF InShape, AuthoredPipes
      <3> QED
        BY <2>1, <2>7, <3>1, TextsStay DEF TextInv
    <2>9. SlotInv'
      <3>1. \A j \in Slots : Full(j)' =>
               users'[j].name \in Names /\ Titled(users[j].pid, users[j].name)'
        BY <2>1, <2>2, <2>5 DEF SlotInv, Titled
      <3>2. \A j, k \in Slots : Full(j)' /\ Full(k)' /\ users'[j].pid = users'[k].pid => j = k
        BY <2>5 DEF SlotInv
      <3>3. ASSUME running, NEW u \in Windows, window'[u] \in OnScreen PROVE HasSlot(u)'
        <4>1. PICK j \in Slots : Full(j) /\ users[j].pid = u
          BY <2>2, <3>3 DEF SlotInv, HasSlot
        <4>2. j # i
          BY <2>0, <2>2, <3>3, <4>1
        <4> QED
          BY <2>4, <4>1, <4>2 DEF HasSlot, Full, FullIn
      <3> QED
        BY <2>1, <3>1, <3>2, <3>3 DEF SlotInv
    <2>10. TableInv'
      <3>1. NoDescriptorLeaks'
        <4> SUFFICES ASSUME NEW n \in Numbers, fds'[n] # Closed
                     PROVE  \E j \in Slots : /\ Full(j)' /\ users'[j].pid = fds'[n].of
                                             /\ users'[j][fds'[n].end] = n
          BY DEF NoDescriptorLeaks
        <4>1. n \notin NumbersOf(i) /\ fds'[n] = fds[n] /\ fds[n] # Closed
          BY <2>1
        <4>2. PICK j \in Slots : /\ Full(j) /\ users[j].pid = fds[n].of
                                /\ users[j][fds[n].end] = n
          BY <4>1 DEF TableInv, NoDescriptorLeaks
        <4>3. users[i][fds[n].end] # n
          BY <4>1 DEF NumbersOf, TypeInv, Ends
        <4>4. j # i
          BY <4>2, <4>3
        <4> QED
          BY <2>4, <4>1, <4>2, <4>4 DEF Full, FullIn
      <3>2. unheard' \subseteq {u \in Windows : window'[u] # "none"}
        <4> SUFFICES ASSUME NEW u \in Windows, NEW n \in NumbersOf(i),
                            fds[n] = End(u, "ctop0")
                     PROVE  window[u] # "none"
          BY <2>1, <2>2 DEF TableInv
        <4>1. n \in Numbers
          BY DEF NumbersOf, TypeInv, User
        <4>2. fds[n] # Closed /\ fds[n].of = u
          BY DEF Closed, End
        <4>3. PICK j \in Slots : Full(j) /\ users[j].pid = u
          BY <4>1, <4>2 DEF TableInv, NoDescriptorLeaks
        <4> QED
          BY <4>3 DEF SlotInv, Titled
      <3>3. ASSUME NEW j \in Slots, Full(j)', users'[j].pid \notin unheard'
            PROVE  fds'[users'[j].ctop0] = End(users'[j].pid, "ctop0")
        <4>1. Full(j) /\ users'[j] = users[j] /\ users[j].pid # v
          BY <2>5, <3>3
        <4>2. fds[users[j].ctop0] = End(users[j].pid, "ctop0")
          BY <2>1, <3>3, <4>1 DEF TableInv
        <4>3. users[j].pid \in Windows /\ users[j].ctop0 \in Numbers
          BY <4>1 DEF SlotInv, Titled, TypeInv, User
        <4>4. users[j].ctop0 \notin NumbersOf(i)
          BY <2>1, <3>3, <4>1, <4>2, <4>3
        <4> QED
          BY <2>1, <4>1, <4>2, <4>3, <4>4
      <3> QED
        BY <3>1, <3>2, <3>3 DEF TableInv
    <2> QED
      BY <2>6, <2>8, <2>9, <2>10
  <1> QED
    BY <1>1, <1>2

(* A free slot takes a window that was never used, and four closed numbers.*)
LEMMA AddKeeps ==
    ASSUME ChatInv, NEW i \in Slots, ~ Full(i), NEW w \in Windows, NEW name \in Names,
           NEW left, InShape(left), AddUser(name, i, w, left)
    PROVE  ChatInv'
  <1> USE DEF ChatInv
  <1>1. /\ window[w] = "none" /\ window' = [window EXCEPT ![w] = "opening"]
        /\ title' = [title EXCEPT ![w] = name]
        /\ ctop' = left.ctop /\ UNCHANGED outbox
        /\ Write(Operator, Notice, left)
    BY DEF AddUser
  <1>2. PICK p0, p1, c0, c1 \in ClosedNumbers :
            /\ p1 # p0 /\ c0 \notin {p0, p1}
            /\ users' = [users EXCEPT ![i] = Fill(@, name, w, p0, p1, c0, c1)]
            /\ MakePipes(w, p0, p1, c0)
    BY DEF AddUser, Lowest
  <1>3. /\ users' \in [Slots -> User]
        /\ \A j \in Slots \ {i} : users'[j] = users[j]
        /\ users'[i].status = "FULL" /\ users'[i].pid = w /\ users'[i].name = name
        /\ users'[i].ptoc0 = p0 /\ users'[i].ptoc1 = p1 /\ users'[i].ctop0 = c0
    <2> DEFINE taken == Fill(users[i], name, w, p0, p1, c0, c1)
    <2>1. /\ taken.status = "FULL" /\ taken.pid = w /\ taken.name = name
          /\ taken.ptoc0 = p0 /\ taken.ptoc1 = p1 /\ taken.ctop0 = c0
          /\ taken \in User
      BY DEF TypeInv, User, Fill, ClosedNumbers
    <2>2. users' = [users EXCEPT ![i] = taken]
      BY <1>2
    <2> HIDE DEF taken
    <2> QED
      BY <2>1, <2>2 DEF TypeInv
  <1>4. /\ fds' \in [Numbers -> Ends \cup {Closed}]
        /\ fds'[p0] = End(w, "ptoc0") /\ fds'[p1] = End(w, "ptoc1")
        /\ fds'[c0] = End(w, "ctop0")
        /\ \A n \in Numbers \ {p0, p1, c0} : fds'[n] = fds[n]
        /\ unheard' = unheard
    BY <1>2 DEF MakePipes, ClosedNumbers, TypeInv, Ends, End
  <1>5. /\ window'[w] = "opening" /\ \A u \in Shells \ {w} : window'[u] = window[u]
        /\ title'[w] = name /\ \A u \in Windows \ {w} : title'[u] = title[u]
    BY <1>1 DEF TypeInv, Shells
  <1>6. ptoc' \in AuthoredPipes /\ (running' = running \/ running' = FALSE)
    BY <1>1, NoticeIsAuthored, WriteKeeps
  <1>7. TypeInv'
    BY <1>1, <1>3, <1>4, <1>6 DEF TypeInv, InShape, OwnCommands, OnScreen, Shells
  <1>8. TitlesKept
    BY <1>1, <1>4, <1>5 DEF TitlesKept, Shells
  <1>9. TextInv'
    BY <1>1, <1>6, <1>8, TextsStay DEF TextInv
  <1>10. \A j \in Slots \ {i} : Full(j)' =>
            /\ Full(j) /\ users'[j] = users[j]
            /\ users[j].pid \in Windows \ {w}
    BY <1>1, <1>3 DEF SlotInv, Titled, Full, FullIn
  <1>11. SlotInv'
    <2>1. \A j \in Slots : Full(j)' =>
             users'[j].name \in Names /\ Titled(users[j].pid, users[j].name)'
      BY <1>3, <1>5, <1>10 DEF SlotInv, Titled, Shells
    <2>2. \A j, k \in Slots : Full(j)' /\ Full(k)' /\ users'[j].pid = users'[k].pid => j = k
      BY <1>3, <1>10 DEF SlotInv
    <2>3. HasSlot(w)' /\ \A u : HasSlot(u) => HasSlot(u)'
      BY <1>3 DEF HasSlot, Full, FullIn
    <2>4. running => \A u \in Windows : window'[u] \in OnScreen => HasSlot(u)'
      BY <1>5, <2>3 DEF SlotInv, Shells
    <2> QED
      BY <1>6, <2>1, <2>2, <2>4 DEF SlotInv
  <1>12. TableInv'
    <2>0. Full(i)'
      BY <1>3 DEF Full, FullIn
    <2>1. NoDescriptorLeaks'
      <3> SUFFICES ASSUME NEW n \in Numbers, fds'[n] # Closed
                   PROVE  \E j \in Slots : /\ Full(j)' /\ users'[j].pid = fds'[n].of
                                           /\ users'[j][fds'[n].end] = n
        BY DEF NoDescriptorLeaks
      <3>1. CASE n \in {p0, p1, c0}
        BY <1>3, <1>4, <2>0, <3>1 DEF End
      <3>2. CASE n \notin {p0, p1, c0}
        <4>1. PICK j \in Slots : /\ Full(j) /\ users[j].pid = fds[n].of
                                /\ users[j][fds[n].end] = n
          BY <1>4, <3>2 DEF TableInv, NoDescriptorLeaks
        <4> QED
          BY <1>3, <1>4, <3>2, <4>1 DEF Full, FullIn
      <3> QED
        BY <3>1, <3>2
    <2>2. unheard' \subseteq {u \in Windows : window'[u] # "none"}
      BY <1>4, <1>8 DEF TableInv, TitlesKept
    <2>3. ASSUME NEW j \in Slots, Full(j)', users'[j].pid \notin unheard'
          PROVE  fds'[users'[j].ctop0] = End(users'[j].pid, "ctop0")
      <3>1. CASE j = i
        BY <1>3, <1>4, <3>1
      <3>2. CASE j # i
        <4>1. fds[users[j].ctop0] = End(users[j].pid, "ctop0")
          BY <1>4, <1>10, <2>3, <3>2 DEF TableInv
        <4>2. users[j].ctop0 \in Numbers \ ClosedNumbers
          BY <1>10, <2>3, <3>2, <4>1 DEF ClosedNumbers, Closed, End, TypeInv, User
        <4> QED
          BY <1>4, <1>10, <2>3, <3>2, <4>1, <4>2
      <3> QED
        BY <3>1, <3>2
    <2> QED
      BY <2>1, <2>2, <2>3 DEF TableInv
  <1> QED
    BY <1>7, <1>9, <1>11, <1>12

LEMMA ChildPidKeeps ==
    ASSUME ChatInv, NEW i \in Slots, NEW c \in Commands,
           NEW left, InShape(left), ChildPid(i, c, left)
    PROVE  ChatInv'
  <1> USE DEF ChatInv
  <1>1. /\ users' \in [Slots -> User]
        /\ \A j \in Slots : /\ users'[j].status = users[j].status
                            /\ users'[j].pid = users[j].pid
                            /\ users'[j].name = users[j].name
                            /\ users'[j].ptoc0 = users[j].ptoc0
                            /\ users'[j].ptoc1 = users[j].ptoc1
                            /\ users'[j].ctop0 = users[j].ctop0
    BY DEF ChildPid, TypeInv, User, Commands
  <1>2. UNCHANGED <<running, fds, unheard, outbox, window, title>>
    BY DEF ChildPid, table
  <1>3. TypeInv'
    BY <1>1, <1>2 DEF ChildPid, TypeInv, InShape, OwnCommands
  <1>4. SlotInv'
    BY <1>1, <1>2 DEF SlotInv, Titled, HasSlot, Full, FullIn
  <1>5. TextInv'
    BY <1>2, TextsStay DEF ChildPid, TextInv, TitlesKept, InShape
  <1>6. TableInv'
    <2>1. \A n \in Numbers : fds[n] # Closed => fds[n].end \in {"ptoc0", "ptoc1", "ctop0"}
      BY DEF TypeInv, Ends
    <2>2. NoDescriptorLeaks'
      BY <1>1, <1>2, <2>1 DEF TableInv, NoDescriptorLeaks, Full, FullIn
    <2> QED
      BY <1>1, <1>2, <2>2 DEF TableInv, Full, FullIn
  <1> QED
    BY <1>3, <1>4, <1>5, <1>6

-------------------------------------------------------------------------------
(* The commands.                                                           *)

LEMMA ServerCommandKeeps ==
    ASSUME ChatInv, outbox = {}, NEW c \in Commands,
           NEW left, InShape(left), ServerCommand(c, left)
    PROVE  ChatInv'
  <1>1. CASE Ignore(left)
    BY <1>1, IgnoreKeeps
  <1>2. CASE Reply(Operator, left)
    BY <1>2, ReplyKeeps
  <1>3. CASE c.arg # NoName /\ \E i \in Slots, w \in NextWindow :
                                  Free(i) /\ AddUser(c.arg, i, w, left)
    <2>1. c.arg \in Names
      BY <1>3 DEF Commands
    <2> QED
      BY <1>3, <2>1, AddKeeps DEF Free, NextWindow
  <1>4. CASE \E i \in Slots : FindUserIndex(c.arg, i) /\ CleanupUser(i, left)
    BY <1>4, CleanupKeeps DEF FindUserIndex
  <1>5. CASE Exit
    BY <1>5, ExitKeeps
  <1>6. CASE Broadcast(ServerName, c, left)
    BY <1>6, BroadcastKeeps
  <1> QED
    BY <1>1, <1>2, <1>3, <1>4, <1>5, <1>6 DEF ServerCommand

(* c was written by the user in slot i, or the server no longer hears him. *)
LEMMA UserCommandKeeps ==
    ASSUME ChatInv, outbox = {}, NEW i \in Slots, Full(i), NEW c \in Commands,
           c.by = users[i].pid \/ users[i].pid \in unheard,
           NEW left, InShape(left), UserCommand(i, c, left)
    PROVE  ChatInv'
  <1>p. users[i].name \in Names /\ MayBear(users[i].name, c.by)
    BY DEF ChatInv, SlotInv, MayBear
  <1>n. \A j \in Slots : users[j].ptoc1 \in Numbers
    BY DEF ChatInv, TypeInv, User
  <1>1. CASE ChildPid(i, c, left)
    BY <1>1, ChildPidKeeps
  <1>2. CASE Reply(users[i].ptoc1, left) \/ Reply(Operator, left)
    BY <1>2, <1>n, ReplyKeeps
  <1>3. CASE /\ \E r \in Slots :
                   /\ FindUserIndex(c.arg, r)
                   /\ Write(users[r].ptoc1, Text("p2p", users[i].name, c.arg, c.by), left)
             /\ ctop' = left.ctop
             /\ UNCHANGED <<users, table, outbox, window, title>>
    <2>1. PICK r \in Slots :
              Write(users[r].ptoc1, Text("p2p", users[i].name, c.arg, c.by), left)
      BY <1>3
    <2>2. Text("p2p", users[i].name, c.arg, c.by) \in AuthoredTexts
      BY <1>p DEF Commands, Text, Texts, AuthoredTexts
    <2>3. ptoc' \in AuthoredPipes /\ (running' = running \/ running' = FALSE)
      BY <1>n, <2>1, <2>2, WriteKeeps
    <2> QED
      BY <1>3, <2>3, PipesMove DEF table, InShape, ChatInv, TextInv
  <1>4. CASE CleanupUser(i, left)
    BY <1>4, CleanupKeeps
  <1>5. CASE Broadcast(users[i].name, c, left)
    BY <1>5, <1>p, BroadcastKeeps
  <1>6. CASE Ignore(left)
    BY <1>6, IgnoreKeeps
  <1> QED
    BY <1>1, <1>2, <1>3, <1>4, <1>5, <1>6 DEF UserCommand, SendP2P

-------------------------------------------------------------------------------
(* Every step keeps the invariant.                                         *)

LEMMA PollUserKeeps ==
    ASSUME ChatInv, NEW i \in Slots, PollUser(i)
    PROVE  ChatInv'
  <1> DEFINE e == fds[users[i].ctop0]
  <1>0. outbox = {} /\ InShape(Pipes)
    BY NothingRead DEF PollUser, Polling
  <1>1. CASE Ignore(Pipes)
    BY <1>0, <1>1, IgnoreKeeps
  <1>2. ASSUME Full(i), ~ReadFails(e), NEW r \in Reads(e), UserCommand(i, r.command, r.left)
        PROVE  ChatInv'
    <2>1. e \in Ends \cup {Closed} /\ e.end \in {"ctop0", "ptoc0"}
      BY <1>2 DEF ReadFails, ChatInv, TypeInv, User
    <2>2. PICK w \in Windows : e = End(w, "ctop0") \/ e = End(w, "ptoc0")
      BY <2>1 DEF Ends, Closed, End
    <2>3. e = End(users[i].pid, "ctop0") \/ users[i].pid \in unheard
      BY <1>2 DEF ChatInv, TableInv
    <2> HIDE DEF e
    <2>4. CASE e = End(w, "ctop0")
      <3>1. r.command \in CommandsOf(w) /\ InShape(r.left)
        BY <1>2, <2>4, ReadLeaves DEF Shells
      <3>2. r.command.by = users[i].pid \/ users[i].pid \in unheard
        BY <2>3, <2>4, <3>1 DEF CommandsOf, End
      <3> QED
        BY <1>0, <1>2, <3>1, <3>2, UserCommandKeeps DEF CommandsOf
    <2>5. CASE e = End(w, "ptoc0")
      <3>1. r.command \in Commands /\ InShape(r.left)
        BY <1>2, <2>5, ReadTakesText
      <3>2. users[i].pid \in unheard
        BY <2>3, <2>5 DEF End
      <3> QED
        BY <1>0, <1>2, <3>1, <3>2, UserCommandKeeps
    <2> QED
      BY <2>2, <2>4, <2>5
  <1> QED
    BY <1>1, <1>2 DEF PollUser

LEMMA ServerStepKeeps ==
    ASSUME ChatInv, ServerStep
    PROVE  ChatInv'
  <1>0. InShape(Pipes)
    BY NothingRead
  <1>1. CASE PollServer
    <2>0. outbox = {}
      BY <1>1 DEF PollServer, Polling
    <2>1. CASE Ignore(Pipes)
      BY <1>0, <2>1, IgnoreKeeps
    <2>2. ASSUME NEW r \in Reads(End(Server, "ctop0")), ServerCommand(r.command, r.left)
          PROVE  ChatInv'
      BY <2>0, <2>2, ReadLeaves, ServerCommandKeeps DEF CommandsOf, Shells
    <2> QED
      BY <1>1, <2>1, <2>2 DEF PollServer
  <1>2. CASE EndOfConversation
    BY <1>2, PipesMove DEF EndOfConversation, table, ChatInv, TypeInv, TextInv
  <1>3. ASSUME NEW i \in Slots, PollUser(i) PROVE ChatInv'
    BY <1>3, PollUserKeeps
  <1>4. ASSUME NEW i \in Slots, UserGone(i) PROVE ChatInv'
    BY <1>0, <1>4, CleanupKeeps DEF UserGone, Polling
  <1>5. CASE WriteNext
    <2>1. PICK m \in outbox :
              /\ Write(IF m.slot = -1 THEN Operator ELSE users[m.slot].ptoc1, m.text, Pipes)
              /\ outbox' = outbox \ {m}
      BY <1>5 DEF WriteNext
    <2>2. m.slot \in Slots \cup {-1} /\ m.text \in AuthoredTexts
      BY DEF ChatInv, TextInv, Writes
    <2>3. (IF m.slot = -1 THEN Operator ELSE users[m.slot].ptoc1) \in Numbers \cup {Operator}
      BY <2>2 DEF ChatInv, TypeInv, User
    <2>4. ptoc' \in AuthoredPipes /\ (running' = running \/ running' = FALSE)
      BY <1>0, <2>1, <2>2, <2>3, WriteKeeps
    <2> QED
      BY <1>5, <2>1, <2>4, PipesMove DEF WriteNext, table, ChatInv, TypeInv, TextInv
  <1> QED
    BY <1>1, <1>2, <1>3, <1>4, <1>5 DEF ServerStep

(* A window's steps change what it shows and what it has written.          *)
LEMMA ShellStepKeeps ==
    ASSUME ChatInv, OwnCommands(ctop'),
           UNCHANGED <<running, users, fds, unheard, outbox, title>>,
           window' \in [Shells -> OnScreen \cup {"none", "gone"}],
           \A w \in Windows : window'[w] = "none" <=> window[w] = "none",
           \A w \in Windows : window'[w] \in OnScreen => window[w] \in OnScreen,
           ptoc' \in AuthoredPipes
    PROVE  ChatInv'
  <1>1. TypeInv' /\ SlotInv' /\ TableInv' /\ TitlesKept
    BY SlotsStay DEF ChatInv
  <1> QED
    BY <1>1, TextsStay DEF ChatInv, TextInv

LEMMA AppendOwn ==
    ASSUME OwnCommands(ctop), NEW s \in Shells, NEW c \in CommandsOf(s),
           ctop' = [ctop EXCEPT ![s] = Append(@, c)]
    PROVE  OwnCommands(ctop')
  <1>1. Append(ctop[s], c) \in Seq(CommandsOf(s))
    BY AppendProperties DEF OwnCommands
  <1> QED
    BY <1>1 DEF OwnCommands

LEMMA NextChatInv == ChatInv /\ [Next]_vars => ChatInv'
  <1> SUFFICES ASSUME ChatInv, [Next]_vars PROVE ChatInv'
    OBVIOUS
  <1> /\ OwnCommands(ctop)
      /\ window \in [Shells -> OnScreen \cup {"none", "gone"}]
      /\ ptoc \in AuthoredPipes
    BY DEF ChatInv, TypeInv, TextInv
  <1> USE DEF ShellOnly
  <1>1. CASE ServerStep
    BY <1>1, ServerStepKeeps
  <1>2. ASSUME NEW s \in Shells, Type(s) PROVE ChatInv'
    <2>1. PICK c \in OperatorLines \cup UserLines :
              ctop' = [ctop EXCEPT ![s] = Append(@, Command(c[1], c[2], s))]
      BY <1>2 DEF Type
    <2>2. Command(c[1], c[2], s) \in CommandsOf(s)
      BY DEF Command, CommandsOf, Commands
    <2>3. OwnCommands(ctop')
      BY <2>1, <2>2, AppendOwn
    <2> QED
      BY <1>2, <2>3, ShellStepKeeps DEF Type
  <1>3. ASSUME NEW s \in Shells, ShellEnds(s) PROVE ChatInv'
    BY <1>3, ShellStepKeeps DEF ShellEnds, HasShell, OnScreen, Shells
  <1>4. ASSUME NEW s \in Shells, Show(s) PROVE ChatInv'
    <2>1. PICK k \in 1 .. Len(ptoc[s]) : ptoc' = [ptoc EXCEPT ![s] = Dropped(@, k)]
      BY <1>4 DEF Show
    <2>2. Dropped(ptoc[s], k) \in Seq(AuthoredTexts)
      BY DroppedType DEF AuthoredPipes
    <2>3. ptoc' \in AuthoredPipes
      BY <2>1, <2>2 DEF AuthoredPipes
    <2> QED
      BY <1>4, <2>3, ShellStepKeeps DEF Show
  <1>5. ASSUME NEW w \in Windows, Open(w) PROVE ChatInv'
    <2>1. Command("child_pid", NoName, w) \in CommandsOf(w)
      BY DEF Command, CommandsOf, Commands, Shells
    <2>2. OwnCommands(ctop')
      BY <1>5, <2>1, AppendOwn DEF Open, Shells
    <2>3. /\ window' \in [Shells -> OnScreen \cup {"none", "gone"}]
          /\ \A u \in Windows : window'[u] = "none" <=> window[u] = "none"
          /\ \A u \in Windows : window'[u] \in OnScreen => window[u] \in OnScreen
      BY <1>5 DEF Open, OnScreen, Shells
    <2> QED
      BY <1>5, <2>2, <2>3, ShellStepKeeps DEF Open
  <1>6. ASSUME NEW w \in Windows, TerminalFollows(w) \/ UserCloses(w) PROVE ChatInv'
    BY <1>6, ShellStepKeeps DEF TerminalFollows, UserCloses, WindowEnds, OnScreen, Shells
  <1>7. CASE UNCHANGED vars
    BY <1>7, ShellStepKeeps DEF vars
  <1> QED
    BY <1>1, <1>2, <1>3, <1>4, <1>5, <1>6, <1>7 DEF Next

-------------------------------------------------------------------------------
(* The theorems.                                                           *)

(* Every window on the screen belongs to exactly one slot, for any number  *)
(* of slots and windows and any order of adds, kicks, exits and crashes.   *)
THEOREM EveryWindowHasSlot == Spec => []WindowHasSlot
  <1>1. ChatInv => WindowHasSlot
    <2> SUFFICES ASSUME ChatInv, running, NEW w \in Windows, window[w] \in OnScreen
                 PROVE  Cardinality(InSlot(w)) = 1
      BY DEF WindowHasSlot, OnScreen, ChatInv, TypeInv, Shells
    <2>1. PICK i \in Slots : Full(i) /\ users[i].pid = w
      BY DEF ChatInv, SlotInv, HasSlot
    <2>2. InSlot(w) = {i}
      BY <2>1 DEF InSlot, ChatInv, SlotInv
    <2> QED
      BY <2>2, FS_Singleton
  <1> QED
    BY <1>1, InitChatInv, NextChatInv, PTL DEF Spec

(* Every descriptor that is open in the server is known to the slot of the *)
(* window whose pipe it is an end of, though numbers are closed twice.     *)
THEOREM DescriptorsAreKnown == Spec => []NoDescriptorLeaks
  <1>1. ChatInv => NoDescriptorLeaks
    BY DEF ChatInv, TableInv
  <1> QED
    BY <1>1, InitChatInv, NextChatInv, PTL DEF Spec

(* A text in a user's name was written in the window that has this name,   *)
(* or the server does not hear that window since another's cleanup.        *)
THEOREM TextsAreTheirAuthors == Spec => []SenderIsAuthor
  <1>1. ChatInv => SenderIsAuthor
    <2> SUFFICES ASSUME ChatInv, NEW s \in Shells, NEW k \in 1 .. Len(ptoc[s]),
                        ptoc[s][k].sender \in Names
                 PROVE  \/ ptoc[s][k].sender = title[ptoc[s][k].by]
                        \/ \E w \in unheard : ptoc[s][k].sender = title[w]
      BY DEF SenderIsAuthor
    <2>1. ptoc[s][k] \in AuthoredTexts
      BY ElementOfSeq DEF ChatInv, TextInv, AuthoredPipes
    <2> QED
      BY <2>1 DEF AuthoredTexts, MayBear, Titled
  <1> QED
    BY <1>1, InitChatInv, NextChatInv, PTL DEF Spec

===============================================================================
