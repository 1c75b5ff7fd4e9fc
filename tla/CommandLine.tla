------------------------------ MODULE CommandLine ------------------------------
(***************************************************************************)
(* The history of a GLUI_CommandLine: a list of HistSize lines of which    *)
(* the numbers oldest_hist to newest_hist are in use, the last of them for *)
(* the line that is being typed. What EditText models of keys and mouse is *)
(* one action here: the line becomes another one.                          *)
(***************************************************************************)
EXTENDS Integers, Sequences

CONSTANTS
    Lines,          \* what is typed
    EmptyLine,
    HistSize,       \* HIST_SIZE
    MaxEntered      \* bound: how many commands are entered in a row

ASSUME HistAssumption == HistSize \in Nat \ {0}

VARIABLES
    line,           \* text
    hist_list, oldest_hist, newest_hist, curr_hist,
    cl_active,      \* is the control the window's active one?
    entered,        \* the commands that were entered since the history was reset
    draft           \* the line that was left for an older one

histVars == <<hist_list, oldest_hist, newest_hist, curr_hist>>
lineVars == <<line, hist_list, oldest_hist, newest_hist, curr_hist, cl_active, entered, draft>>

HistAt(n) == n - oldest_hist + 1      \* get_history_str

CommandInit ==
    /\ line = EmptyLine /\ draft = EmptyLine
    /\ hist_list = [i \in 1..HistSize |-> EmptyLine]
    /\ oldest_hist = 0 /\ newest_hist = 0 /\ curr_hist = 0
    /\ cl_active = FALSE
    /\ entered = <<>>

Enter == ~cl_active /\ cl_active' = TRUE /\ UNCHANGED <<line, histVars, entered, draft>>

(* Left by Tab or the mouse: nothing is committed.                         *)
Leave == cl_active /\ cl_active' = FALSE /\ UNCHANGED <<line, histVars, entered, draft>>

EditLine ==
    /\ cl_active
    /\ \E l \in Lines \cup {EmptyLine} : line' = l
    /\ UNCHANGED <<histVars, cl_active, entered, draft>>

recall_history(n) ==
    /\ n \in (oldest_hist .. newest_hist) \ {curr_hist}
    /\ IF curr_hist = newest_hist
       THEN hist_list' = [hist_list EXCEPT ![HistAt(newest_hist)] = line] /\ draft' = line
       ELSE UNCHANGED <<hist_list, draft>>
    /\ curr_hist' = n
    /\ line' = hist_list'[HistAt(n)]
    /\ UNCHANGED <<oldest_hist, newest_hist, cl_active, entered>>

ScrollHistory == cl_active /\ \E direction \in {-1, 1} : recall_history(curr_hist + direction)

ProgramRecalls == \E n \in oldest_hist .. newest_hist : recall_history(n)

BumpsLate(n) == n > HistSize    \* mistake: the last line of the list is taken for a command
BumpsOldest(n) == n >= HistSize

add_to_history(cmd) ==
    LET added == [hist_list EXCEPT ![HistAt(newest_hist)] = cmd]
        bump == BumpsOldest(newest_hist + 1)
    IN  /\ newest_hist' = newest_hist + 1 /\ curr_hist' = newest_hist + 1
        /\ hist_list' = IF bump THEN Append(Tail(added), EmptyLine) ELSE added
        /\ oldest_hist' = IF bump THEN oldest_hist + 1 ELSE oldest_hist
        /\ entered' = Append(entered, cmd)

(* RETURN commits the line, recalled or typed, and begins an empty one.    *)
Return ==
    /\ cl_active /\ Len(entered) < MaxEntered
    /\ IF line # EmptyLine THEN add_to_history(line) ELSE UNCHANGED <<histVars, entered>>
    /\ line' = EmptyLine
    /\ UNCHANGED <<cl_active, draft>>

(* The lines stay in the list; they are no longer in use.                  *)
reset_history ==
    /\ oldest_hist' = 0 /\ newest_hist' = 0 /\ curr_hist' = 0
    /\ entered' = <<>>
    /\ UNCHANGED <<line, hist_list, cl_active, draft>>

CommandNext ==
    \/ Enter \/ Leave \/ EditLine \/ Return
    \/ ScrollHistory \/ ProgramRecalls \/ reset_history

CommandSpec == CommandInit /\ [][CommandNext]_lineVars

-------------------------------------------------------------------------------
(* However lines are recalled, edited and left, and however often the list *)
(* has been shifted (add_to_history, glui_commandline.cpp:159) or reset    *)
(* (180), the history holds the commands that were entered, unchanged, in  *)
(* their order, as many as there is room for, and after them the line that *)
(* was left to look at them.                                               *)
HistoryKept ==
    LET kept == newest_hist - oldest_hist
        n == Len(entered)
    IN  /\ kept = IF n < HistSize THEN n ELSE HistSize - 1
        /\ \A i \in 1..kept : hist_list[i] = entered[n - kept + i]
        /\ curr_hist # newest_hist => hist_list[kept + 1] = draft
===============================================================================
