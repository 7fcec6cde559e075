---------------------------- MODULE VirtualScreens ----------------------------
(***************************************************************************)
(* What drivers/display.h promises of virtual screens: each one keeps what *)
(* is drawn on it, whether it is shown or not, and one of them is shown.   *)
(* Without virtual screens there is one screen, and drawing ignores the    *)
(* screen number.                                                          *)
(***************************************************************************)
EXTENDS Integers

CONSTANTS
  Content,    \* what a screen can show, segments and blinking together
  Blank,
  MaxScreens  \* bound: screens a module creates

VARIABLES
  content,    \* of each screen
  active      \* the screen that is shown

vars == <<content, active>>

Init == content = [i \in {0} |-> Blank] /\ active = 0

\* The screens start as copies of what is shown, and the first one is active.
Create(nr) ==
  /\ content' = [i \in 0..nr - 1 |-> content[active]]
  /\ active' = 0

Destroy ==
  /\ content' = [i \in {0} |-> content[0]]
  /\ active' = 0

Activate(scr) ==
  /\ scr \in DOMAIN content
  /\ active' = scr
  /\ UNCHANGED content

Draw(scr, c) ==
  /\ content' = [content EXCEPT ![scr] = c]
  /\ UNCHANGED active

Next ==
  \/ \E nr \in 1..MaxScreens : Create(nr)
  \/ Destroy
  \/ \E scr \in 0..MaxScreens - 1 : Activate(scr)
  \/ \E scr \in DOMAIN content, c \in Content : Draw(scr, c)

Spec == Init /\ [][Next]_vars
=============================================================================
