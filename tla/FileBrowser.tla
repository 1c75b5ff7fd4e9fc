------------------------------ MODULE FileBrowser ------------------------------
(***************************************************************************)
(* A GLUI_FileBrowser, the GLUI_List in it and that list's scrollbar: a    *)
(* second click soon after the first one on a line opens what the line     *)
(* has, a directory to list or a file to report.  An entry of a directory  *)
(* is the file, or the directory that it leads to.                         *)
(***************************************************************************)
EXTENDS Scrollbar, Sequences

CONSTANTS
    Entries,        \* of each directory, in the order of readdir
    NoFile,
    ListHeight,     \* h of the list
    ClickRows,      \* where the list is pressed, from its top
    MaxClicks       \* bound: how many times mouse and keys are used

EntriesOf(dir) == {Entries[dir][i] : i \in DOMAIN Entries[dir]}

ASSUME BrowserAssumption ==
    /\ \A dir \in DOMAIN Entries : Entries[dir] \in Seq(EntriesOf(dir))
    /\ ListHeight \in Int /\ ClickRows \subseteq Int

VARIABLES
    fb,             \* the fields of browser and list; fresh: less than 300 ms since
                    \* last_click_time
    cwd,            \* the working directory of the process
    clicks          \* how many times mouse and keys have been used

browserVars == <<fb, cwd, clicks>>

ListLineHeight == 15
num_lines(f) == Len(f.items)
LinesBelow(n, visible) == IF n > visible THEN n - visible ELSE 0
find_line(f, y) == f.start_line + Quotient(y - 5, ListLineHeight)

delete_all(f) == [f EXCEPT !.items = <<>>, !.curr_line = 0]

(* The scrollbar gets new limits with every item that is added.            *)
LimitsAfter(b, n, visible) ==
    LET limited[k \in 0..n] ==
            IF k = 0 THEN b ELSE set_bar_limits(limited[k - 1], LinesBelow(k, visible), 0)
    IN  limited[n]

(* The working directory's entries, or none if it cannot be read.          *)
fbreaddir(f, dir) == {[delete_all(f) EXCEPT !.items = i] : i \in {Entries[dir], <<>>}}

KeepsFile(f, dir) == fbreaddir(f, dir)    \* mistake: the file of the last directory stays

ReadAgain(f, dir) == {[g EXCEPT !.file = NoFile] : g \in fbreaddir(f, dir)}

(* dir_list_callback: what the line has, for lines after the first.        *)
EntryOf(f) == f.items[f.curr_line + 1]
OpensFile(f) == f.curr_line > 0 /\ EntryOf(f) \notin DOMAIN Entries
OpensDirectory(f) == f.curr_line > 0 /\ EntryOf(f) \in DOMAIN Entries /\ f.allow_change_dir

list_key(f, key) ==
    CASE key = "down" /\ f.curr_line < num_lines(f) ->
            [f EXCEPT !.curr_line = @ + 1,
                      !.start_line = IF f.curr_line + 1 > @ + f.visible_lines THEN @ + 1 ELSE @]
      [] key = "up" /\ f.curr_line > 0 ->
            [f EXCEPT !.curr_line = @ - 1, !.start_line = IF f.curr_line - 1 < @ THEN @ - 1 ELSE @]
      [] OTHER -> f

-------------------------------------------------------------------------------
NewList ==
    [items |-> <<>>, start_line |-> 0, curr_line |-> 0, visible_lines |-> 0, last_line |-> -1,
     fresh |-> FALSE, file |-> NoFile, allow_change_dir |-> TRUE]

(* draw, which counts the lines that fit and gives the bar its limits.     *)
drawn(f) == [f EXCEPT !.visible_lines = Quotient(ListHeight - 20, ListLineHeight)]
drawn_bar(b, f) ==
    update_scroll_parameters(set_bar_limits(b, LinesBelow(num_lines(f), f.visible_lines), 0))

(* The browser when its window has been drawn for the first time.          *)
BrowserInit(dirs) ==
    /\ cwd \in dirs
    /\ \E f \in fbreaddir(NewList, cwd) :
        /\ fb = drawn(f)
        /\ bar = drawn_bar(LimitsAfter(NewBar("int", FALSE, <<0, 0>>), num_lines(f), 0), fb)
    /\ clicks = 0

(* One mouse: the list is not pressed while the bar is.                    *)
Click == bar.state = "none" /\ clicks < MaxClicks /\ clicks' = clicks + 1

SelectLine(line) ==
    /\ fb' = [fb EXCEPT !.curr_line = line, !.last_line = line, !.fresh = TRUE]
    /\ bar' = Given(bar_set_int_val(bar, line))
    /\ UNCHANGED cwd

(* chdir may fail, unnoticed.                                              *)
OpenLine(line) ==
    LET f == [fb EXCEPT !.curr_line = line]
        b == bar_set_int_val(bar, line)
    IN  IF OpensDirectory(f)
        THEN /\ cwd' \in {EntryOf(f), cwd}
             /\ fb' \in ReadAgain(f, cwd')
             /\ bar' = Given(LimitsAfter(b, num_lines(fb'), f.visible_lines))
        ELSE /\ fb' = IF OpensFile(f) THEN [f EXCEPT !.file = EntryOf(f)] ELSE f
             /\ bar' = Given(b)
             /\ UNCHANGED cwd

ListDown ==
    /\ Click
    /\ \E y \in ClickRows :
        LET line == find_line(fb, y)
        IN  IF line >= num_lines(fb) THEN UNCHANGED <<fb, cwd, bar>>
            ELSE IF fb.last_line = line /\ fb.fresh THEN OpenLine(line)
            ELSE SelectLine(line)

TimePasses == fb.fresh /\ fb' = [fb EXCEPT !.fresh = FALSE] /\ UNCHANGED <<cwd, clicks, bar>>

ListKey ==
    /\ Click
    /\ \E key \in {"up", "down", "other"} :
        /\ fb' = list_key(fb, key)
        /\ bar' = Given(bar_set_int_val(bar, fb'.curr_line))
    /\ UNCHANGED cwd

ListDraw ==
    /\ fb' = drawn(fb)
    /\ bar' = Given(drawn_bar(bar, fb'))
    /\ UNCHANGED <<cwd, clicks>>

(* The scrollbar's callback runs when it has told of a value.              *)
ListScroll ==
    /\ \/ (BarDown \/ BarKey) /\ Click
       \/ (BarHeld \/ BarIdle) /\ UNCHANGED clicks
    /\ fb' = IF bar'.told # bar.told \/ (bar.given /\ ~bar'.given)
             THEN [fb EXCEPT !.start_line = bar'.told] ELSE fb
    /\ UNCHANGED cwd

ListScrollEnd == BarUp /\ UNCHANGED browserVars

set_allow_change_dir ==
    /\ fb' = [fb EXCEPT !.allow_change_dir = ~@]
    /\ UNCHANGED <<cwd, clicks, bar>>

BrowserNext ==
    \/ ListDown \/ TimePasses \/ ListKey \/ ListDraw
    \/ ListScroll \/ ListScrollEnd \/ set_allow_change_dir

BrowserSpec == BrowserInit(DOMAIN Entries) /\ [][BrowserNext]_<<browserVars, bar>>

-------------------------------------------------------------------------------
(* The file that the browser has is one of the directory that the program  *)
(* is in, where a program that opens it by its name finds it, and what is  *)
(* listed is that directory's, whatever lines were clicked twice while the *)
(* list was scrolled, and though chdir and opendir may fail                *)
(* (glui_filebrowser.cpp:70).                                              *)
FileIsHere ==
    /\ fb.file # NoFile => fb.file \in EntriesOf(cwd) \ DOMAIN Entries
    /\ fb.items \in {Entries[cwd], <<>>}
===============================================================================
