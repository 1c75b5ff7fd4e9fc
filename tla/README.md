# A verification project for course-samples

The repository holds the programs of several courses: a multi-threaded web
server (`csci4061/cache`), a chat of several processes joined by pipes
(`csci4061/server`), a priority queue and a merge sort in Java (`csci1933`), and
the drawing program BrushWork in C++ (`csci3081W/iteration1/src`) with its copy of
the user interface toolkit GLUI (`csci3081W/iteration1/glui`).  This directory
models them in TLA+, checks the models with TLC on small instances and proves with
TLAPS, for all instances, the main results about the web server, the chat, the
priority queue, the merge sort, BrushWork's strokes and panel, and GLUI's forms, fields,
spinners, command line, listboxes, scrollbars, file browser and text box.

Run, in this directory, `tlc -config X.cfg M` for each configuration below and
`tlapm M_proofs.tla` for each module of proofs.

## 1. The system

Paths of the first part are below `src/csci4061` and `src/csci1933`, those of the
second below `src/csci3081W/iteration1`.

| component | source | state | operations | modelled by |
|---|---|---|---|---|
| request ring | `cache/server.c` `dispatch`, `worker` | `buffer`, `in`, `out`, `count`, `queue_length`, mutex `buffer_access`, conditions `buffer_empty`, `buffer_not_empty` | enqueue, dequeue, wait, signal | `RequestBuffer` (promise: `RequestQueue`) |
| file cache | `cache/server.c` `find_in_cache`, `add_to_cache` | `cache_array`, `cache_count`, `cache_size` | find (and restamp), add (or replace the oldest) | `FileCache` (promise: `LruCache`) |
| the web server as a whole | `cache/server.c` `worker`, `handler`, `main` | sockets, files, log, the two above | one request from `accept` to log line; joins; ^C | `WebServer` |
| connection library | `cache/util.h`, `util.o` (no source) | open sockets | `accept_connection`, `get_request`, `return_result`, `return_error` | external, in `WebServer` |
| chat server | `server/server.c` | `users[]` slots, `server_ctrl`, pipes | poll a pipe; add, kick, list, exit, p2p, broadcast; cleanup | `ChatServer` |
| chat shells and readers | `server/shell.c`, `util.c` | a pipe each way | type a line, report the reader's pid, print, end | `ChatServer` |
| priority queue | `PriorityQueue.java` | two parallel lists, `maxPriority`, `nextPriority` | `addWithPriority`, `remove` | `PriorityQueue` |
| merge sort | `Project0.java` | none | `merge`, `mergeSort` | `MergeSort` |
| BrushWork canvas and tools | `PixelBuffer`, `ColorData`, `ToolBuffer`, `Tool` and its six subclasses | pixels, background, masks | get, set, fill, `createMask`, apply a mask | `Canvas` |
| BrushWork application | `BrushWorkApp`, `BaseGfxApp` | current and active tool, colours, previous mouse position | mouse and GLUI callbacks | `BrushWork`, `BrushPanel`, `Float32` |
| GLUI windows, focus, callbacks | `glui.cpp`, `glui_control.cpp`, `glui_button`, `_checkbox`, `_radio`, `_rollout.cpp` | tree of controls, active control, pressed button, values and live variables | mouse, Tab, keys, enable, hide, open, sync | `GluiForm` |
| GLUI layout | `glui_control.cpp`, `glui_node.cpp`, `glui_panel`, `_column`, `_rollout.cpp` | sizes and places | add, pack, align, find | `GluiLayout` |
| GLUI edit text | `glui_edittext.cpp` | text, insertion point, selection, shown part, value | keys, mouse, activate, deactivate, set | `EditText` |
| GLUI command line | `glui_commandline.cpp` | history and the four numbers on it | enter, recall, reset | `CommandLine` |
| GLUI spinner, scrollbar | `glui_spinner.cpp`, `glui_scrollbar.cpp` | value, limits, arrow or box that is pressed, growth | press, hold, drag, keys, set | `Spinner`, `Scrollbar` |
| GLUI text box | `glui_textbox.cpp` | text, insertion point, selection, lines shown, scrollbar | keys, mouse, draw, scroll | `TextBox` |
| GLUI algebra | `algebra3.cpp`, `quaternion.cpp` | none | products, inverse, transformations | `Algebra`, `Transform` |
| GLUI rotation ball | `arcball.cpp`, `glui_rotation.cpp` | matrix, quaternions, where the mouse was pressed | press, drag, release, idle, reset | `Rotation` |
| GLUI listbox | `glui_listbox.cpp` | items, selected number, its text, menu | add, delete, set, mouse over and out, choose, keys | `Listbox` |
| GLUI list, file browser | `glui_list.cpp`, `glui_filebrowser.cpp` | items, lines shown, last click, file, working directory | click, keys, scroll, draw, read a directory | `FileBrowser` |
| GLUI translation, view model, tree, drawing | the other files of `glui` | - | - | not modelled (section 6) |

**How they interact.**  In the web server, dispatcher threads take a connection,
read its request and put it into the ring; worker threads take a request out and,
still holding the mutex, look it up in the cache, read the file on a miss, answer,
insert the file and log.  Ring, cache and log are shared memory under one mutex;
the sockets, the files and the ^C handler (which runs in one of the threads while
the others go on) are not.  In the chat, the server polls, in turn, the pipe of
its own shell and one pipe per user, without blocking, and writes to the readers'
pipes, blocking when one is full; a user's shell and reader are processes in an
xterm that may end at any moment.  The Java programs are sequential.  BrushWork is
driven by the callbacks of GLUT and GLUI, one at a time, those of its two windows
in any order; they meet in the live variables `m_curTool` and `m_curColor`.  In
GLUI a window hands each event of GLUT's to the control under the mouse or to the
active one; a control that is activated deactivates another, which takes its value
from its text then; the program's calls come between any two events, also between
the press of a button and its release.  A spinner holds an edit text, a text box
holds a scrollbar, and each pair keeps one value in two places.

**What is hard, and what makes each part correct.**

* *Ring.*  Several threads of both kinds share one mutex and two conditions.
  The loops re-test after every wait; `buffer_empty` is signalled only by a
  worker that leaves the buffer empty; each signal wakes one sleeper at most.
  Correct means: no two threads in the critical section, the indices and the
  count agree, requests leave once and in order, no wakeup is lost, and blocked
  threads resume.
* *Cache.*  Slots are found by a scan, also of unused ones, and replaced by the
  smallest stamp, of which many are equal because stamps are seconds.  Correct
  means: the slots in use are a prefix, no file has two, and what is replaced is
  the least recently used.
* *Server.*  A socket number is reused as soon as it is closed; the file may
  change between two requests; a lookup and the insertion it decides are far
  apart.  Correct means: one owner for each open connection, each client gets its
  own file, no file is cached twice, and each queued request is answered.
* *Chat.*  A pipe does not keep messages apart; a user may vanish between any two
  steps; a slot is reused with what its last user left in it; one of a user's
  descriptor numbers is closed twice, and may be another user's the second time.
  Correct means: a window has exactly one slot, no descriptor leaks, texts carry
  their author's name and reach the addressee, slots are reclaimed, and a cleanup
  leaves the others' pipes alone (it does not).
* *Priority queue, merge sort.*  Two fields cache what the lists hold; the base case
  looks at one of two halves.  Correct means: `remove` takes the oldest element of
  the highest priority, and sorting loses nothing.
* *BrushWork.*  A fast drag is filled in with stamps at places computed in floats,
  spaced by the tool applied last; the colour may change in the middle of a stroke.
  Correct means: a drag leaves no gap, and a stroke has one colour, which the
  panel showed when it began.
* *GLUI.*  Almost every handler reads what an earlier event left behind: the value
  that was last reported, the line that was last drawn, the bounds of what was
  last shown, the control that was pressed.  Correct means: Tab visits everything
  once, callbacks are executed only for what is enabled, values, live variables
  and what is shown agree, insertion points lie in their texts and in view, what
  is clicked is what is shown there, a history keeps what was entered.
* *Algebra and ball.*  Two representations of one rotation, an inverse with row
  exchanges.  Correct means: the inverse undoes, a drag depends on its ends only,
  and both representations are the same rotation (they are not).

The full list of hazards, each at its line, with the properties aimed at it, is
under `hazards` in `PROJECT.json`.

## 2. The modules

### The web server

**RequestBuffer** (`BufferInit`, `BufferNext`, `BufferSpec`) is `dispatch` and `worker` as loops
over POSIX calls.  `pc[t]` is the place of a thread: `lock` wants the mutex (at the top of the
loop or on its way out of `pthread_cond_wait`), `check` holds it at the `while` test, `wait`
sleeps on the condition of its kind, `signal` is between a dispatcher's enqueue and its unlock,
and `serve` is a worker between dequeue and unlock.  `Sleep` gives the mutex up and sleeps in one
step, as POSIX says; `SignalAndGoto` wakes any one of the sleepers; `Spurious` is a wait that
returns without a signal.  What happens between lock and unlock is one step where no other thread
can see the difference. `request[t]` is the thread's local request from the moment it has one to
the moment it is of no use any more.

**RequestQueue** is what the ring promises: a bounded FIFO queue from which at most one
request at a time is being served.  `RequestBuffer!ImplementsQueue` is the
refinement, with the slots from `out` on as the queue.

**FileCache** (`CacheInit`, `CacheNext`, `CacheSpec`) has the array, the count and a clock in
seconds; contents, length and type of a file are one value.  `Hit` is a successful
`find_in_cache`, `AddToCache` is `add_to_cache`, and `Load` is the way a worker calls it.  The
code fills a free slot or scans for the oldest one; `Candidates` is `{0}` and the rest because
the scan starts from slot 0 whatever the size.  **LruCache** is the promise: a set of entries
from which only one with the earliest stamp is dropped.

**WebServer** composes both (`INSTANCE`) and takes `serve` apart: `Hit`, or `ReadFile` or
`FileNotFound` with the reply, then `Store`, `Log` and `Finish`.  `fd` and `open`
follow the sockets, `asked` what the client behind a socket wants, `sent` the last
reply.  `ChangeFile`, `Tick`, `HandlerCloses` and `HandlerExits` run in between.
`UsesBuffer` and `UsesCache` say that the composition uses both as their modules
describe: that the cache, written as if it had one user at a time, has.

### The chat

**ChatServer** is the server's loop (`turn` is the pipe to be read next), the shells and the
readers.  A pipe is the sequence of the messages in it; a read takes some of them,
handles the first and may stop inside the last (`Leftovers`), because the server
reads `MSG_SIZE` bytes and parses one message.  The rest of a message that was cut
matches no command, so it is a `say`.  A broadcast writes one pipe after another
(`outbox` has the writes that are left) and nothing else happens in the server until it is
done, though the shells go on.  `users[i].pid` names a window: a server that kills an xterm never
waits for it, so its pid is not reused.  `child_pid` is whatever `malloc` left
(`Unset`) until the shell has reported it and the server has read that.

*Descriptors.*  The server knows a user's pipes by four numbers, `ptoc0`, `ptoc1`, `ctop0` and
`ctop1` in `users[i]`, and `fds` says what each number refers to.  `MakePipes` takes the lowest
closed numbers, as `pipe` does, and closes the last of the four again after the fork
(`server.c:433`), but the slot keeps it.  `CleanupUser` closes all four (`server.c:180`),
whatever they are by then: the fourth may be a descriptor of a user added later.  What this does
to that user follows from `fds` and from `inherited`, the ends that the processes of each window
got by the fork (the code closes two of them and the rest is not closed on `exec`):

* its `ptoc[1]` closed: `Write` fails, the code reports it and goes on, and the user hears
  nothing more; if the number is given out again, the texts go to another window's pipe;
* its `ptoc[0]` closed: once no process has the read end, a write to that pipe is the end of the
  server by SIGPIPE (`running` becomes false);
* its `ctop[0]` closed: the server no longer reads its shell (`ReadFails`), neither lines nor
  the end of file, unless the number is given out again, and then it reads another's pipe
  (`Reads(fds[users[i].ctop0])`), even the texts on their way to a window; a shell that
  writes when nobody has the read end ends by SIGPIPE (`Open`, `ShellEnds`).  `unheard` is
  a history variable with the windows this has happened to.

A kill of `child_pid` is a kill of a reader only; the shell of a window whose reader was killed goes
on as `silent`.

### The course work

**PriorityQueue** is `addWithPriority` and `remove` on two sequences, with the exception
that `remove` throws when neither field names a priority that is in the list.
**MergeSort** has `merge` as the function of positions that its loop fills an array by, and
`mergeSort` as a recursive function of the array.

**Canvas** is what one application of a tool does: `createMask` of each tool, with three
intensities (nothing, all, some), the bounds test with the offsets as the code computes
them, and a pixel as the set of pure colours mixed in it.  **BrushPanel** is the window
of controls: a typed number counts only when its field is deactivated.  **BrushWork** joins
both with the mouse.  `Painted` is the canvas after several stamps, one after the other;
`Stamps(q)` are the places a drag to `q` is filled in at, in C's
`float` arithmetic, which **Float32** has (24 bits, rounding to even), because whether a gap
is left depends on truncation.  The third channel of a colour is left out: the code
treats the three alike.

**Algebra** is `algebra3.cpp` and `quaternion.cpp` with fractions for floats, so that what is
computed can be told from how it is rounded.  `quat_product` has C++'s precedence, in
which `^` binds weaker than `+`.  **Transform** builds matrices of the plane and of space up
factor by factor, **Rotation** is the rotation ball: handlers, idle calls, resets.  The
mouse is at points where the ball's equation has fractional roots.

### GLUI

**GluiForm** is a window as `GLUI_Main` sees it: the tree of controls, the active one,
the one that the mouse is held on, Tab, Shift-Tab and space, and what the program does
between two events (enable, disable, hide, open and close, set a live variable,
`sync_live`).  `ctl` has the fields of all controls.  An event of the mouse comes with the
control that `find_control` returns; where that is on the screen is **GluiLayout**'s
matter, which adds controls, parts panels by columns, opens and closes rollouts, renames
and resizes, and packs everything after each change as `pack` does.

**EditText** is a field with its text, insertion point, selection and the part that is shown, one
action for each kind of key and event of the mouse, and the value that `deactivate` takes from
the text.  `thrown` tells that the text was changed at position -1, where `std::string` throws.
**Spinner** extends it with the arrows: `Stepped`, `do_click` and `do_callbacks` change the same
field that can be typed in.  **Scrollbar** is the bar alone, and **TextBox** extends it with a
text of several lines.  `Drawn`, `CaretPlace` and `SeekLine` are the three loops of the code that
break lines, each with its own condition; a loop is a function of the number of its rounds.
**CommandLine** is the history; there a whole edit of the line is one action.

**Listbox** has its items, the menu that is built of them when the mouse comes over the box
(and is not rebuilt while it stays), and the live variable.  `lost` tells that a key was
pressed while the selected item was not in the list, where the code reads a null node.
**FileBrowser** extends `Scrollbar` with a `GLUI_List` and the browser around it.  `ListDown`
is a press on the list with all that it calls, down to `chdir`, the directory read anew and
the scrollbar's limits set item by item; `fresh` is whether the click before was less than
300 ms ago, and becomes false at any time.

### Model checking and proofs

The modules `MC*.tla` give the constants their values for TLC.  `MCGlui` and
`MCCourseWork` unite components that do not interact: their variable `part` chooses one
in the initial state and the variables of the others stay as they are, so that one run
explores each of them alone.  The modules `*_proofs.tla` hold the proofs: each about the
module it is named after, but `CourseWork_proofs` about `BrushWork` and `PriorityQueue`, and
`Glui_proofs` about `Listbox`, `Scrollbar`, `FileBrowser` and `TextBox`.  Definitions
with the comment `mistake:` are variants of the one that follows them, each with a bug of
the kind that code could have; with the variant in its place, the property listed for it
in `PROJECT.json` fails.  They are not part of any specification.

## 3. The runs

| run | question | instance |
|---|---|---|
| `RequestBufferExit` | Do the workers exit after the dispatchers? (They do not.) | 1 dispatcher, 2 workers |
| `WebServer` | Does each connection have one owner and get its own file? Are ring and cache used as their modules say? | 2 and 2 threads, 3 sockets, 2 files, ring of 1, cache of 0, 1 or 2 |
| `WebServerLive` | Is each queued request answered, and do blocked dispatchers resume? | 2 and 2 threads, 3 sockets, 1 file, ring of 1, cache of 0 or 1 |
| `ChatServer` | Do windows and slots, texts and names stay together? | 2 windows, 2 slots, names one of which begins the other, 2 messages per pipe, 2 lines besides `\add` |
| `ChatServerReuse` | Does a descriptor leak when numbers are closed twice and reused? | 4 windows, 3 slots, 1 message per pipe, 1 broadcast |
| `ChatServerLive` | Is the slot of a vanished user reclaimed? | 3 windows for 2 slots, 1 message per pipe, 1 line of any kind besides `\add` |
| `ChatServerClose` | Does a cleanup leave the other users' pipes alone? (It does not.) | 4 windows, 3 slots, only `\add` |
| `ChatServerPrivate` | Does a `\p2p` stay private? (It does not.) | 2 windows, 2 lines besides `\add` |
| `ChatServerChild` | Does cleanup kill that user's reader? (Not always.) | 2 windows, 1 line besides `\add` |
| `CourseWork` | Is the web server's cache an LRU set, with unused slots never found? Is its ring a FIFO queue under one lock; is a wakeup ever lost? Does `remove` take the right element while the fields know it, and which call makes them lose track? Does `mergeSort` sort? Does a drag leave gaps, has a stroke one colour, does the panel show it? Does an inverse undo, and does a drag of the ball depend on its ends only? | see Bounds |
| `CourseWorkBall` | Is the ball's quaternion the rotation that its matrix is? (Not after a drag.) | as `CourseWork` |
| `Glui` | Does Tab visit all; are callbacks, live variables and what is shown in agreement; do insertion points stay in text and view; are values reported; is a history kept; does a listbox show and tell what is selected; is a browser's file one of the directory that the program is in; does a layout settle with each control where a click finds it? | see Bounds |

**Bounds.**  `MaxTime` bounds the clock, `MaxLines` the lines typed in the chat other than the
operator's `\add`s, `PipeSize` the messages in a pipe (64 kB in reality), and the guard
`WindowsLeft` keeps the operator from opening more windows than the instance has.  The arrays'
sizes (100 in the web server, 10 in the chat, 100 lines of history) are constants.  Small values
are enough where the interesting event is full, empty, wrapping, tie or reuse: the ring wraps and
fills with 1 and 2 slots, and three dispatchers leave one asleep behind two others; in
`WebServerLive` a third socket lets two dispatchers sleep on the full ring of one, so that one
signal has two sleepers to choose from; four files overflow three slots, two of them with the
same stamp; three sockets are reused while two requests are in hand; a pipe of two messages
coalesces and cuts; two `\add`, a message and a kick reuse a slot.  In `ChatServer` the
operator's and users' lines are those that change the server's state; `ChatServerLive` has the
others too.  What the second close of a number hits depends on how many slots and windows there
are.  With two slots it is always another user's `ptoc[0]`, and the server may end by SIGPIPE
when that user's window is gone (`ChatServer`, `ChatServerLive`); with three slots and four
windows it is also a `ptoc[1]` (`ChatServerReuse`, `ChatServerClose`); four slots and six windows
are needed for a `ctop[0]`, and so for any window to be `unheard`, four and seven for a slot
whose `ptoc[1]` leads to another window, and four and nine for one whose `ctop[0]` does.  The
last three are out of TLC's reach with lines typed: the exceptions for `unheard` are never used
in these runs, and for the instances where they are the three theorems of section 5 stand in,
while `SlotReclaimed` is only known for the smaller ones.  Wherever section 5 has a theorem, the
proof replaces this argument.  Symmetry is
used only in `WebServer`, over sets of threads, sockets and files that no expression of the
specification tells apart.

In `CourseWork`, the web server's cache: 4 files, 3 slots, arguments -1, 1, 2 and 4, clock 0..2;
its ring: 3 dispatchers and 2 workers, lengths 1 and 2 from arguments 0, 1 and 3, both explored
whole; and `MaxQueue` elements (4, with priorities -1..3, so that there are ties and one below
the fields' initial value); every array of up to `MaxArray` (6) elements out of three values;
`MaxStrokes` (2) events that paint, between three points, on the canvas and off, as far apart as
many stamps and one near another, with masks of the same shapes as the code's at a smaller scale,
and memory that is 0 or 1 where the heart's mask is not set; `MaxFactors` (2) factors of a
matrix, of which every one of the code's kinds occurs; `MaxEvents` (5) events of the ball, enough
for a drag of two moves with an idle call and a reset in it (it was also run with 6).

In `Glui`,
whose `VIEW` (`MCView`) identifies states of the form that differ only in what a press that is
over left in `orig_value`, `initially_inside` and `currently_inside`, which no handler reads
before the next press sets them: a form of eight controls with a radio group two panels deep, a
checkbox and a button in a rollout, and `MaxProgram` (2) steps of the program between the user's;
fields of up to `MaxLen` (2) characters in a box for one, so that text is out of view on either
side; a bar of 130 pixels pressed at its arrows, track and box, with limits in order, reversed
and equal; a text box with lines of two letters, two of them on view, and texts of up to
`MaxText` (4) with newlines, and `MaxInputs` (3, also run with 4 and 5) uses of keys and mouse; a
listbox of two items (also run with three); a browser with two lines on view, two directories,
one of them longer than that and the other shorter than what was scrolled past, and `MaxClicks`
(4), which are two double clicks; a history of 3 lines and `MaxEntered` (4) commands, so that it
shifts twice (for every size it is proved); up to `MaxParts` (4) controls of five kinds, and
`MaxChanges` (1) change after them (it was also run with 5 and 1, and with 4 and 2).

**Deadlock** is not checked where the program really can stop: all dispatchers have
left, ^C, `\exit`, nothing more is typed, BrushWork is quit, a field whose insertion point
is lost has thrown.  A sorted array and a bound reached stop a part as well, so no run of
the united modules checks it; the ring's worst case, everyone asleep, is a property
(`WorkerNotForgotten`, `DispatcherNotForgotten`).

**Fairness.**  Weak fairness of each thread that is not waiting for anything outside
the process: a thread in its critical section leaves it, and a free mutex is given to
*some* thread that wants it (POSIX does not say which, and nothing stronger is
assumed).  Nobody has to connect, and spurious wakeups are assumed not to go on
forever.  In the chat the server polls, a reader whose terminal is there reads, and
an xterm ends after its shell; nobody has to type and nobody has to end.  Under this
fairness a queued request is taken, although a worker may lose the mutex to
dispatchers again and again: they fill the ring and sleep.  A single blocked
*dispatcher* may starve, which is why `DispatchersResume` speaks of all of them.
`SlotReclaimed` excepts a server blocked in a write to a full pipe whose reader is
gone (it holds the read end itself, so it is never told), which the model can reach, and a
window that another user's cleanup has made `unheard`, whose end the server cannot see.
The graphical and Java programs only answer calls: nothing of theirs has to happen, so
they have safety properties only.

## 4. What the runs found

* **Workers never exit** (`RequestBufferExit`).  `util.h:24-27` wants them to exit when
  the dispatchers have and the queue is empty.  `worker` has no way out, so main hangs
  in its second join loop and the `fclose` at `server.c:348` is never reached.
* **A private message may become public** (`ChatServerPrivate`).  A read that stops inside
  a second message makes its tail a message without a command, which is broadcast.
* **A cleanup closes another user's pipe** (`ChatServerClose`).  `server.c:173` says "Close all
  pipes for this user", but `ctop[1]` was closed after the fork (`server.c:433`) and is closed again
  at `server.c:180`.  With three slots: a and b are added, and b's `ctop[1]` had the number
  6; a leaves, c and d are added, and d's `ptoc[1]` gets 6; b leaves, 6 is closed, and the server
  can write to d no more.
* **Cleanup may kill the wrong process** (`ChatServerChild`).  `add_user` does not reset
  `child_pid`: until the new shell's report is read it is the last user's, or garbage.
* **The ball's quaternion is not its rotation** (`CourseWorkBall`).  `quaternion.cpp:114`
  writes the cross product as `^`, which binds weaker than `+`; and `mouse_up` multiplies
  by the last move of a drag only.  `arcball.h:50` says that `q_now` is the rotation.

Smaller divergences, seen while reading; the models have them, and the properties are
stated around them.

*Web server and chat.*  The ^C handler closes the log without the mutex while the workers
run, so it may be written to after that (`HandlerCloses`, then `Log`); the log line for a
missing file has request number 1 instead of `num` (`server.c:229`); the time in the log
is the difference of `tv_usec` alone; `cache/README` has dispatchers "wait while the
queue is not empty", the code waits while it is full (`server.c:139`); of several
messages that one read returns, all but the first are dropped, in the server and in the
readers, although `server/README.txt:29` says that a text "will be sent to other users";
users of one name are told apart by slot, not by the order of registration
(`README.txt:36`), and a name that begins another may select it (`server.c:244`).

*Priority queue.*  It loses track of its highest priority when `addWithPriority` raises it
past an element that is not the next, or gets a negative one, and `remove` may then throw.

*BrushWork.*  Truncation makes the pen skip pixels in a fast drag although `BrushWorkApp.cpp:56`
says "Apply brush to gaps", which is why `DragIsFilledIn` excepts the pen (and the heart, whose
mask is whatever memory held); stamps are spaced by the tool last applied; a number that was
typed and not left is not used; the masks that are not square are off centre; the heart's
constructor reads and writes entries outside its mask.

*GLUI, forms.*  Tab in one window while a control of another is active leaves two active; closing
a rollout by the program does not deactivate a control in it; showing a hidden panel also shows
what is in a closed rollout inside; a checkbox that is disabled while pressed keeps the value
that was not reported; the space bar pressed while the mouse holds the same checkbox or radio
button makes the value shown the one to go back to, and a release inside then reports nothing if
it is what was last noted (`orig_value` and `currently_inside` stay as they were after a release,
`glui_checkbox.cpp:70-83`, `glui_radio.cpp:205-233`; `ShowsLive` excepts these with `torn`, until
the control next tells its variable); `refresh` passes height and width to `glutReshapeWindow` in
the wrong order (`glui.cpp:1963`).

*GLUI, fields.*  A field whose text is set while it is active has insertion point -1, and
the next key throws; BACKSPACE leaves a stale end of its selection behind, and where that covers the
first character a second `-` can be typed (`glui_edittext.cpp:339`).  An integer spinner
adds 1 and the growth for a click up, and takes .9 and the growth for one down; a value
that was typed is not noted as the last reported.

*GLUI, scrollbars and text boxes.*  Equal limits give 0/0 and a box at the smallest integer;
the key DOWN of a vertical bar presses at a place that is not its lower arrow; HOME and END
do nothing; grabbing the box may change the value.  The keys UP and DOWN of a text box use
the caret's height without the box's own place; scrolling away from the caret is undone by
the next draw; a text is drawn differently from how it is searched when a line just fits.

*GLUI, command line and layout.*  The callback is said to be called if and only if a line
was committed, but an empty one has none; a panel with nothing but columns gets no or
negative height; `GLUI_Control::set_name` does not lay out again.

*GLUI, lists.*  A listbox whose selected item was deleted keeps its text, also when another item
comes with the same number, and the keys UP and DOWN read a null node then, as they do in an
empty one; its menu is not made when the mouse comes in over the name, stays when the box is
disabled, and may offer items that were deleted.  The first entry of a directory never
opens (`glui_filebrowser.cpp:66`); a third click soon after a double click opens what the new
directory has on that line; `delete_all` leaves `start_line`, so that a shorter directory
may be shown from below its end; a click on the strip under the last line selects a line
that is not drawn; DOWN goes one past the last line.

*GLUI, ball.*  ALT and CONTROL are passed in the wrong order (`glui_rotation.cpp:85`,
`arcball.h:46`); an idle call during a drag of a ball that can spin turns it once more.

## 5. The proofs

All for any number of threads, sockets, files, windows, slots, names, elements, items and
controls, under the named assumptions of the modules. Most of those say that sets of threads
are not empty and disjoint, that null values are not values, and that array sizes are
positive. The others are about what the code is given: integers, because `argv` goes through
`atoi` and GLUT passes `int`s (`PointsAreWhole`, `ScrollAssumption`, `ListboxAssumption`,
`GrowthAssumption`); a directory that is a list of entries (`BrowserAssumption`); a line of a
text box with room for more than a character and a box of the height that is taken off before
its lines are counted, which hold for GLUI's sizes (`GLUI_TEXTBOX_MIN_TEXT_WIDTH` and
`GLUI_TEXTBOX_HEIGHT`, `BoxAssumption`); preset colours within a channel's limits
(`PanelAssumption`); a box for one character at least, a lower limit that is not above the
higher one (`set_int_limits` does not put them in order, and nothing can be within limits that
are not), and live variables of a field's own type (`EditAssumption`); and a finite tree of
controls (`TreeAssumption`): a `GLUI_Node` has one parent pointer, the main panel is the root,
a radio button is made with a `GLUI_RadioGroup` for its parent, and `set_selected` casts every
child of a group to a radio button. The tree's nodes are also linked one at a time, each
behind the last child of a parent (`link_this_to_parent_last`, `NodesAssumption`): no control
comes twice below one parent, the root comes below none, and the way up from any control ends
at the root.

### The web server

* `FileCache_proofs`: `CacheInv == CacheTypeOK /\ FilledPrefix /\ CachedOnce` is inductive.  The
  type alone is not enough for "no duplicates": an insertion follows a miss, and the
  miss scanned only the slots below `cache_size`, so one needs to know that those beyond
  `cache_count` hold no name.  With it, `CacheIsLru`: a hit is `Use`, an insertion is
  `Insert` or `Replace`; `EntriesCardinality` counts the slots in use by a bijection.
* `RequestBuffer_proofs`: `BufferInv == BufferTypeOK /\ MutualExclusion /\ RingShape` is inductive.
  The ring is shown in shape with lemmas on `%` (the solver has none), mutual exclusion is
  needed because the enqueuing thread relies on its test of `count` still holding, and
  `SignalEffect` says once what a signal does to `pc`.  On top of it: no wakeup is lost in
  either direction (`NoWorkerForgotten`, `NoDispatcherForgotten`), and the refinement
  `BufferIsQueue`, where dequeuing shifts the sequence and enqueuing appends to it.
* `WebServer_proofs`: `ServerInv` adds to both that a dispatcher about to read has a socket,
  that a worker works exactly while it is in `serve`, and that a file about to be stored has
  been read and is still not cached (`StoreInv`: true because only one worker works at a time).
  So every step of the server is a step of `RequestBuffer` and of `FileCache` or leaves
  them alone (`ServerUsesBuffer`, `ServerUsesCache`), the theorems about them carry over,
  and `ServerCachesOnce` follows.  `ServerOwnsOnce` and `ServerRepliesRight` need where a
  connection can be: at a dispatcher before or after it has read the request, in a slot of
  the ring, or at a worker that has not answered.  `ConnInv` says that these places never
  share a socket, that every open socket is in one of them and every socket in one of them
  is open, and that the file its client asked for travels along.  That a socket is closed by
  its only holder, and so can be given out again, is what makes the ring's slots beyond
  `count` harmless, which still hold the sockets of requests long answered.

### The chat

* `ChatServer_proofs`: `ChatInv` has four parts.  `TypeInv` is the shape of the state, with each
  shell's pipe holding commands of that shell only.  `SlotInv`: no two slots in use have one
  window, each has its window's title for a name, and while the server runs each window on the
  screen has a slot; this is `EveryWindowHasSlot`.  `TableInv` is about the descriptors: each
  that is open is known, under the right one of its three numbers, to the slot of the window whose
  pipe it is an end of (`DescriptorsAreKnown`); and a slot's `ctop0` is its own window's end
  unless that window is `unheard`.  The first is inductive since a cleanup closes at least what
  its slot knows, and `pipe` gives out only numbers that are closed; the second is what a
  cleanup of another breaks.  `TextInv`: every text, in a pipe or in `outbox`, that carries a
  user's name was written in a window with that title, or read by the slot of one that is
  `unheard`.  It holds because a title is fixed when the window is opened, a pid never names
  another window, and a slot reads from its own window as `TableInv` says;
  `TextsAreTheirAuthors` follows.  The exception is real: with four slots and nine windows a
  slot can read another window's pipe.

### The course work

* `CourseWork_proofs`, priority queue: `QueueInv` has the two lists of one length and
  `nextPriority < maxPriority` unless `nextPriority` is 0.  The property `Known` does not say the
  latter, and without it `remove` could take the last element of both priorities.  Then
  `RemovesInOrder` and, because `LosesTrack` is exact about the adds to blame, `KeepsTrack`.
* `CourseWork_proofs`, BrushWork: `PanelIsRight` (every spinner, what it last knew of its
  variable and the variable itself agree, within the limits; a number that is being typed
  is none of the three until its field is left) and `StrokeIsOneColor`.  The latter is about
  the tool buffer's colour at the press and at every later stamp (`BrushInv`), and about the
  canvas: `PaintedAdds`, that stamps mix only the stroke's colour into pixels, for any number
  of stamps.  During a stroke some tool was applied last, so the stamps of a drag are as far
  apart as its mask says and finitely many.
* `CourseWork_proofs`, merge sort: `SortsEveryArray`, that `mergeSort` returns the sorted
  rearrangement of an array of any length.  First, that the recursion is defined at any length,
  by halves that are shorter; then that a merge of sorted arrays is sorted and has each
  number as often as the two together; both by sets of lengths and of positions that
  are closed under the next one (`CountUp`, `CountFromBelow`).

### GLUI

* `GluiField_proofs`, command line: `HistoryInv` adds to the history's types where its numbers
  are (`newest_hist` counts the commands, `curr_hist` is between the oldest and the newest) and
  two facts about the list: what is below `newest_hist` are the last commands, in order, and
  while an older line is recalled the line for the newest holds the draft.  The last is needed
  because leaving with RETURN adds the recalled line at the newest place.  `InUse` bounds the
  numbers that any action uses to the list, `AddKeeps` is the shift of a full list, and
  `HistoryIsKept` follows for a list of any size.
* `GluiField_proofs`, fields: `CursorIsInView` and `FieldShowsItsValue` share `FieldInv`, which
  is about the field's record alone, so that each operation has a lemma from records to records,
  and each event is one or two of them.  The properties are far from inductive.  What is shown is
  a part of the text also when nobody looks (`Shown`), since a field that is left and entered
  goes on from there; an inactive one shows its text from the beginning (`Idle`), which is why
  the insertion point that Tab puts at 0 is in view; the ends of a selection count only where
  they differ, because BACKSPACE leaves one behind (`Pointed`).  Of `num_periods` the proof needs
  only that it is not 0 while there is a period, which with the test of the selection is enough
  for `PeriodHasRoom`: a `.` that is let in finds no other, or one that it replaces.
  `BoundsUpdated` is about `update_substring_bounds` for bounds that may be those of an older
  text (`AlmostShown`), the state in which every key leaves them.
* `GluiField_proofs`, spinner: `ArrowsTellTheNumber` adds to `FieldInv` that the number is within
  the limits and in step with its float, and that `last_val` is none or the value last told while
  `typed` is not set; without that `do_callbacks` could keep quiet about a new value. A click
  changes the number only through `set_float_val`, and of the field's events only leaving it and
  `sync_live` change the number at all.
* `Glui_proofs`: the property `ListboxAgrees` speaks of the live variable only while it waits for
  nothing, so it does not survive the program's setting it; `ListboxInv` says that `last_live`
  has the selected number, always (`ListboxShowsSelection`).  `ScrollbarTells` needs that while
  an arrow is held the value `do_callbacks` compares with is the one last reported (`BarTold`):
  an integer's comes from the field `last_int_val` then.  It says that the last callback reported
  the value shown unless the program has set the value itself since (`given`: it knows the value
  then), and that `last_live`, what the live variable was last given or gave, is the value shown,
  without exception.  It is proved for numbers in any order of limits, equal ones too.  The
  browser's list sets limits once for every item it reads, and `BrowserBarTells` shows that
  however many such calls there are, only a value that the list gave its scrollbar is one that
  the bar has not told it; `BrowserFileIsHere` is that the selected name is one of the directory
  the program is in, over presses, keys, double clicks that change the directory, and lists
  longer and shorter than the one before.
* `Glui_proofs`, text box: `BoxInv` has a part for each of the two controls.  `Held`: the
  insertion point is in the text, or nowhere, and the selection begins in the text where its ends
  differ.  No more can be said of the ends, since erasing leaves them behind a text that got
  shorter.  `LinesBar`: the limits of the scrollbar and what it told of last are not negative, so
  that `start_line` is not either, whatever the program, the bar's arrows and a drag do.
  `CaretStaysInText` follows, with the loops of the mouse, of word breaks and of the keys UP and
  DOWN.  `CaretComesOnView` says that by the second draw the line of the insertion point is among
  those shown and the bar is at the first of them, or at its limit.
* `GluiForm_proofs`: `FormInv` relates the press to the live variables.  While the button is down
  the active control is the one pressed, unless the program has taken it away; the active control
  is enabled and of a kind that can be active; `orig_value`, which a release elsewhere restores,
  is what the live variable has, unless the program broke into the press; and a radio button that
  is on has its group's value.  `CallbacksAreOfEnabled` and `FormShowsLive` follow.
  `SyncLiveFollows` is about `sync_live` over all controls of the window, a fold, and the lemmas
  about the tree show that setting a group touches its own buttons only.
* `GluiForm_proofs`, Tab: `TabVisitsEveryControl`, for any tree, any controls that are enabled
  and any rollouts that are open.  `find_next_control` and `find_prev_control` walk through the
  tree in loops; the proof first shows that the functions that stand for them exist
  (`ContinuesExists`), because every walk ends.  The order of the tree is stated without a walk
  through it (`After`: what is below a control, or in the branch of a younger sibling of it or of
  a control above it) and is shown to be strict, transitive and total.  Then what a step of the
  walk reaches is the next in that order, and Tab stops at the next in it that takes part.

Where a proof goes over data of any size (`PaintedAdds`, the merge sort, the limits set item by
item, the fold of `sync_live`), it argues by a least counterexample: the sizes for which one
given fact fails have a least element, since `<` on the naturals is well founded, and that one
leads to a contradiction.  The induction theorems of the library, which are about any predicate,
cannot be used with the provers at hand.

Proving also corrected the models.  A `CASE` with guards that overlap leaves the choice open
in TLA+, though TLC takes the first: where the code is an if-chain, `Canvas`,
`Scrollbar`, `EditText`, `GluiForm`, `TextBox` and `GluiLayout` now have nested `IF`s.

`BufferTypeOK` of the ring and `CachedOnce` of the cache are proved only, no run checks them
(`WebServer` checks `CachedOnce` of the composition).

**Only model-checked.** The liveness properties and everything that speaks of ENABLED, which
are out of the prover's reach. `GluiLayout` (`FoundWhereShown`, `LayoutSettles`), whose loops
are RECURSIVE operators, with which the prover loses its arithmetic. That the scrollbar of a
text box tells what it shows: the theorem is about a scrollbar alone. `PathDoesNotMatter` and
`InverseUndoes`, identities of polynomials of high degree over fractions, and
`DragIsFilledIn`, which depends on the rounding of `float`s.

## 6. Not modelled

*Web server and chat.*  Errors on the command line, a failing `init`, `fopen` of the log,
`pthread_create`, `pipe`, `fcntl` or `fork`: the program ends at once or only prints.
Formatting, the wording of messages and the log, content types, lengths of names and
paths.  Files whose path has no dot: `strrchr` then returns null and the server stops.  In
the chat, end of input on a shell's terminal, ^C in the operator's terminal, and the last
moments of an exiting server: `cleanup_server` kills its own process and its reader, not
its shell.

*Course work.*  Null elements of the priority queue; printing; BrushWork's idle and keyboard
callbacks, which are empty or never called, and `copyPixelBuffer`, which nothing calls.

*GLUI.*  Lists outside a file browser, `delete_item` and `set_start_line` of lists, entries that
are renamed or removed while they are listed, and a program that calls `chdir` or `fbreaddir`
itself; numbers of a listbox that come twice or with another text; translation, the view model,
trees, bitmaps, static text and separators; subwindows of the program's window, menus and
callbacks that GLUT never makes here; everything that draws; tabs and different widths of
characters; how fast growth goes with time; `set_h`, and limits that change while a field is
edited; in the algebra rounding, slerp and `apply`; in the ball the keys that hold an axis still
and damping.  `GLUI_StdString` and the bitmap tables are data.

## 7. Plan

What is left, most important first.

1. Proofs: `FoundWhereShown` of `GluiLayout`, once its loops are functions instead of operators,
   and `ScrollbarTells` for the scrollbar in a text box, whose limits every draw sets.
2. `ChatRoom`: what the chat promises without slots and pipes (a set of users with names, texts
   delivered to members), with `ChatServer` implementing it where reads do not coalesce.
3. GLUI: `Translation`, lists outside a browser, limits that change under `EditText`, and
   `GluiForm` composed with `EditText`, so that a Tab out of a field runs its callback while
   the window changes its active control.
4. Subwindows and the layout of the program's window around them.
