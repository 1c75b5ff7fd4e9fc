----------------------------- MODULE MCChatServer -----------------------------
(***************************************************************************)
(* A small instance of ChatServer for TLC: more windows over time than     *)
(* slots, and a name that is the beginning of another.                     *)
(***************************************************************************)
EXTENDS ChatServer

CONSTANTS al, alice

MCNames == {al, alice}
MCNamePrefixes == {<<al, al>>, <<al, alice>>, <<alice, alice>>}

(* One line of each kind that does something of its own.                   *)
MCOperatorLines == {"add"} \X MCNames \cup {<<"kick", al>>, <<"say", NoName>>}
MCUserLines == {<<"p2p", alice>>, <<"say", NoName>>}

(* All the lines but the operator's broadcasts, for one name.              *)
MCAllOperatorLines == {"add", "kick"} \X {al, NoName}
                      \cup {"list", "exit", "p2p"} \X {NoName}
MCAllUserLines == {"list", "exit", "say", "kick"} \X {NoName}
                  \cup {"p2p"} \X {al, alice, NoName}

(* Just enough for one user to write to another.                           *)
MCAddLines == {"add"} \X MCNames
MCPrivateLines == {<<"p2p", alice>>, <<"say", NoName>>}

(* Just enough for descriptor numbers to be used again, and written to.    *)
MCAddLine == {<<"add", al>>}
MCSayLine == {<<"say", NoName>>}
MCNoLine == {}
===============================================================================
