-------------------------------- MODULE Apps --------------------------------
(***************************************************************************)
(* The menu of core/openchronos.c and the modules it drives (modules/).    *)
(*                                                                         *)
(* check_buttons runs one handler for the buttons of a loop pass: that of  *)
(* the edit mode, of the menu mode, or of the module that is shown.        *)
(* Modules share what outlives them on the screen: the message bus, the    *)
(* virtual screens, the RTC, the pressure sensor.  The model keeps of each *)
(* module what it does to those, and the state that decides it; times,     *)
(* laps and edited values are left out.                                    *)
(*                                                                         *)
(* All of it runs in the main thread, one step per handler.                *)
(***************************************************************************)
EXTENDS Integers, FiniteSets, Sequences

CONSTANTS
  App,         \* the modules compiled in
  Orders,      \* the orders mod_init may add them in (os.listdir's)
  NullActivate,\* modules that pass NULL for activate_fn (none of modules/;
               \* menu_add_entry would call it for the first of the menu)
  Switchable   \* modules configured to show two metrics

Known == {"ALARM", "ALTITUDE", "BATTERY", "CLOCK", "D_DAY", "RFBSL",
          "STOPWATCH", "TEMPERATURE"}

ASSUME AppsAssumption ==
  /\ App # {} /\ App \subseteq Known \cup NullActivate
  /\ NullActivate \cap Known = {}
  /\ Orders \subseteq Seq(App)
  /\ \A o \in Orders : /\ {o[i] : i \in 1..Len(o)} = App
                       /\ \A i, j \in 1..Len(o) : o[i] = o[j] => i = j
                       /\ Head(o) \notin NullActivate

VARIABLES
  todo,        \* what mod_init has still to add
  added,       \* entries of the menu
  menu_head,   \* the first of them
  next, prev,  \* their links (struct menu)
  item,        \* menumode.item
  menumode,    \* menumode.enabled
  editmode,    \* menu_editmode.enabled
  pos,         \* menu_editmode.pos
  editor,      \* the module menu_editmode.items and complete_fn belong to
  regs,        \* registrations of each module's listener on the bus
  up,          \* display_screens is not NULL
  scr,         \* display_activescr
  wild,        \* display_screens was used while it was NULL
  alarm,       \* alarm_state.state
  swatch,      \* sSwatch_conf.state
  unlocked,    \* g_state of modules/rfbsl.c is STATE_OPEN
  ps_ok,       \* the pressure sensor answered at power-up
  ps_on,       \* it is sampling, its interrupt is enabled
  rtc_on       \* the RTC counts (RTCHOLD is clear)

ring  == <<todo, added, menu_head, next, prev>>
menu  == <<item, menumode>>
edit  == <<editmode, pos, editor>>
lcd   == <<up, scr, wild>>
vars  == <<ring, menu, edit, regs, lcd, alarm, swatch, unlocked,
           ps_ok, ps_on, rtc_on>>

Button == {"LSTAR", "STAR", "LNUM", "NUM", "UP", "DOWN"}

\* Entries of the edit mode vector of each module.
Items(a) ==
  CASE a = "CLOCK" -> 5
    [] a = "D_DAY" -> 3
    [] a = "ALARM" -> 2
    [] a \in {"TEMPERATURE", "ALTITUDE"} -> IF a \in Switchable THEN 2 ELSE 1
    [] OTHER -> 0

Shown(a) == added # {} /\ item = a /\ ~menumode

Init ==
  /\ todo \in Orders /\ added = {}
  /\ next = [a \in App |-> a] /\ prev = [a \in App |-> a]
  /\ menu_head = Head(todo) /\ item = Head(todo) /\ editor = Head(todo)
  /\ menumode = FALSE /\ editmode = FALSE /\ pos = 0
  /\ regs = [a \in App |-> 0]
  /\ up = FALSE /\ scr = 0 /\ wild = FALSE
  /\ alarm = 0 /\ swatch = "OFF" /\ unlocked = FALSE
  /\ ps_ok \in BOOLEAN /\ ps_on = FALSE /\ rtc_on = TRUE

-----------------------------------------------------------------------------
(* What the modules call.                                                  *)

sys_messagebus_register(a)   == regs' = [regs EXCEPT ![a] = @ + 1]
sys_messagebus_unregister(a) == regs' = [regs EXCEPT ![a] = 0]

lcd_screens_create ==
  up' = TRUE /\ scr' = 0 /\ wild' = wild

lcd_screens_destroy ==
  up' = FALSE /\ scr' = 0 /\ wild' = (wild \/ ~up)

lcd_screen_activate(s) ==
  up' = up /\ scr' = s /\ wild' = (wild \/ ~up)

NoScreens == UNCHANGED lcd

-----------------------------------------------------------------------------
(* The callbacks of the modules.                                           *)

\* What most callbacks leave alone.
Others == UNCHANGED <<swatch, unlocked, ps_on>>

\* Fault: the second screen is not created.
ClockOneScreen ==
  sys_messagebus_register("CLOCK") /\ NoScreens /\ Others

clock_activated ==
  sys_messagebus_register("CLOCK") /\ lcd_screens_create /\ Others

clock_deactivated ==
  sys_messagebus_unregister("CLOCK") /\ lcd_screens_destroy /\ Others

temperature_activated ==
  sys_messagebus_register("TEMPERATURE") /\ lcd_screens_create /\ Others

battery_activate ==
  sys_messagebus_register("BATTERY") /\ NoScreens /\ Others

altitude_activate ==
  /\ lcd_screens_create
  /\ IF ps_ok THEN sys_messagebus_register("ALTITUDE") /\ ps_on' = TRUE
              ELSE UNCHANGED <<regs, ps_on>>
  /\ UNCHANGED <<swatch, unlocked>>

\* Fault: the sensor is left running.
AltitudeRunsOn ==
  /\ IF ps_ok THEN sys_messagebus_unregister("ALTITUDE") ELSE UNCHANGED regs
  /\ NoScreens /\ Others

altitude_deactivate ==
  /\ IF ps_ok THEN sys_messagebus_unregister("ALTITUDE") /\ ps_on' = FALSE
              ELSE UNCHANGED <<regs, ps_on>>
  /\ NoScreens /\ UNCHANGED <<swatch, unlocked>>

\* Fault: coming back to a running stop watch registers it again.
StopwatchRegisters ==
  /\ sys_messagebus_register("STOPWATCH")
  /\ swatch' = IF swatch = "BACKGROUND" THEN "ON" ELSE swatch
  /\ NoScreens /\ UNCHANGED <<unlocked, ps_on>>

stopwatch_activated ==
  /\ IF swatch = "BACKGROUND"
     THEN swatch' = "ON" /\ UNCHANGED regs
     ELSE sys_messagebus_register("STOPWATCH") /\ UNCHANGED swatch
  /\ NoScreens /\ UNCHANGED <<unlocked, ps_on>>

stopwatch_deactivated ==
  /\ IF swatch = "ON"
     THEN swatch' = "BACKGROUND" /\ UNCHANGED regs
     ELSE sys_messagebus_unregister("STOPWATCH") /\ UNCHANGED swatch
  /\ NoScreens /\ UNCHANGED <<unlocked, ps_on>>

\* Fault: the lock stays as it was left.
RfbslStays ==
  NoScreens /\ Others /\ UNCHANGED regs

rfbsl_activated ==
  unlocked' = FALSE /\ NoScreens /\ UNCHANGED <<regs, swatch, ps_on>>

\* activate_fn of a
Activated(a) ==
  \/ a = "CLOCK" /\ clock_activated
  \/ a = "TEMPERATURE" /\ temperature_activated
  \/ a = "ALTITUDE" /\ altitude_activate
  \/ a = "BATTERY" /\ battery_activate
  \/ a = "STOPWATCH" /\ stopwatch_activated
  \/ a = "RFBSL" /\ rfbsl_activated
  \/ a \in {"ALARM", "D_DAY"} /\ NoScreens /\ Others /\ UNCHANGED regs

\* deactivate_fn of a, when it has one
Deactivated(a) ==
  \/ a = "CLOCK" /\ clock_deactivated
  \/ /\ a \in {"TEMPERATURE", "BATTERY"}
     /\ sys_messagebus_unregister(a) /\ NoScreens /\ Others
  \/ a = "ALTITUDE" /\ altitude_deactivate
  \/ a = "STOPWATCH" /\ stopwatch_deactivated
  \/ /\ a \in {"ALARM", "D_DAY", "RFBSL"} \cup NullActivate
     /\ NoScreens /\ Others /\ UNCHANGED regs

\* The select callback of item p of the edit vector: the year of the clock
\* is on its second screen.
Select(a, p) ==
  IF a = "CLOCK" THEN lcd_screen_activate(IF p = 0 THEN 1 ELSE 0)
                 ELSE NoScreens

\* Faults: the RTC is not started again; the edit screen stays.
RtcStaysHeld(a) ==
  /\ IF a \in {"CLOCK", "TEMPERATURE", "ALTITUDE"}
     THEN lcd_screen_activate(0) ELSE NoScreens
  /\ ps_on' = (ps_on \/ a = "ALTITUDE") /\ UNCHANGED rtc_on
StaysOnScreen(a) ==
  /\ NoScreens
  /\ ps_on' = (ps_on \/ a = "ALTITUDE") /\ rtc_on' = (rtc_on \/ a = "CLOCK")

\* complete_fn
Complete(a) ==
  /\ IF a \in {"CLOCK", "TEMPERATURE", "ALTITUDE"}
     THEN lcd_screen_activate(0) ELSE NoScreens
  /\ ps_on' = (ps_on \/ a = "ALTITUDE")   \* altitude_reconfigure
  /\ rtc_on' = (rtc_on \/ a = "CLOCK")

-----------------------------------------------------------------------------
(* Start-up: mod_init calls menu_add_entry for each module.                *)

\* Faults: one link is forgotten, of the old last entry or of the head.
NotAfterLast(a) ==
  /\ next' = [next EXCEPT ![a] = menu_head]
  /\ prev' = [prev EXCEPT ![a] = prev[menu_head], ![menu_head] = a]
NotBeforeHead(a) ==
  /\ next' = [next EXCEPT ![a] = menu_head, ![prev[menu_head]] = a]
  /\ prev' = [prev EXCEPT ![a] = prev[menu_head]]

\* The last entry is the one before the head.
InsertAtEnd(a) ==
  LET last == prev[menu_head]
  IN /\ next' = [next EXCEPT ![a] = menu_head, ![last] = a]
     /\ prev' = [prev EXCEPT ![a] = last, ![menu_head] = a]

menu_add_entry ==
  LET a == Head(todo)
  IN /\ todo # <<>> /\ todo' = Tail(todo) /\ added' = added \cup {a}
     /\ \/ /\ added = {}
           /\ menu_head' = a /\ item' = a /\ UNCHANGED <<next, prev>>
           /\ Activated(a)
        \/ /\ added # {} /\ InsertAtEnd(a)
           /\ UNCHANGED <<menu_head, item, regs, lcd>> /\ Others
     /\ UNCHANGED <<menumode, edit, alarm, ps_ok, rtc_on>>

-----------------------------------------------------------------------------
(* check_buttons.  btns is ports_pressed_btns.                             *)

Running == todo = <<>>

\* The branch for b is taken: none of the buttons tested before it is set.
Takes(b, btns, before) == b \in btns /\ before \cap btns = {}

\* editmode_handler, STAR
EditDone(btns) ==
  /\ editmode /\ Takes("STAR", btns, {})
  /\ Complete(editor)
  /\ editmode' = FALSE /\ UNCHANGED <<pos, editor>>
  /\ UNCHANGED <<ring, menu, regs, alarm, swatch, unlocked, ps_ok>>

\* editmode_handler, NUM
EditNextItem(btns) ==
  /\ editmode /\ Takes("NUM", btns, {"STAR"})
  /\ pos' = IF pos + 1 = Items(editor) THEN 0 ELSE pos + 1
  /\ Select(editor, pos')
  /\ UNCHANGED <<ring, menu, editmode, editor, regs, alarm, swatch, unlocked,
                 ps_ok, ps_on, rtc_on>>

\* menumode_handler, STAR
MenuEnter(btns) ==
  /\ ~editmode /\ menumode /\ Takes("STAR", btns, {})
  /\ menumode' = FALSE /\ UNCHANGED item
  /\ \/ item \notin NullActivate /\ Activated(item)
     \/ item \in NullActivate /\ UNCHANGED regs /\ NoScreens /\ Others
  /\ UNCHANGED <<ring, edit, alarm, ps_ok, rtc_on>>

\* menumode_handler, UP and DOWN
MenuMove(btns) ==
  /\ ~editmode /\ menumode
  /\ \/ Takes("UP", btns, {"STAR"}) /\ item' = next[item]
     \/ Takes("DOWN", btns, {"STAR", "UP"}) /\ item' = prev[item]
  /\ UNCHANGED <<ring, menumode, edit, regs, lcd, alarm, swatch,
                 unlocked, ps_ok, ps_on, rtc_on>>

\* Fault: the buttons of the module work on in edit mode.
NotInMenu == ~menumode

InModule == ~editmode /\ ~menumode

\* lstar_btn_fn: the modules that have one start the edit mode.
StarLong(btns) ==
  /\ InModule /\ Takes("LSTAR", btns, {}) /\ Items(item) > 0
  /\ pos' = 0 /\ editor' = item /\ editmode' = TRUE
  /\ IF item \in {"CLOCK", "TEMPERATURE", "ALTITUDE"}
     THEN lcd_screen_activate(1) ELSE NoScreens
  /\ rtc_on' = (rtc_on /\ item # "CLOCK")
  /\ UNCHANGED <<ring, menu, regs, alarm, swatch, unlocked, ps_ok, ps_on>>

\* menumode_enable
MenuOpen(btns) ==
  /\ InModule /\ Takes("STAR", btns, {"LSTAR"})
  /\ Deactivated(item)
  /\ menumode' = TRUE /\ UNCHANGED item
  /\ UNCHANGED <<ring, edit, alarm, ps_ok, rtc_on>>

\* Fault: a wider field.
WideAlarm == alarm + 1

\* alarm_state.state is a field of two bits.
NextAlarm == (alarm + 1) % 4

\* num_btn_fn
NumShort(btns) ==
  /\ InModule /\ Takes("NUM", btns, {"LSTAR", "STAR", "LNUM"})
  /\ \/ /\ item = "CLOCK" /\ lcd_screen_activate(1 - scr)
        /\ UNCHANGED <<regs, alarm, swatch>>
     \/ /\ item = "ALARM" /\ alarm' = NextAlarm
        /\ IF alarm' # 0 THEN sys_messagebus_register(item)
                         ELSE sys_messagebus_unregister(item)
        /\ NoScreens /\ UNCHANGED swatch
     \/ /\ item = "STOPWATCH"
        /\ swatch' = IF swatch = "OFF" THEN "ON" ELSE "OFF"
        /\ NoScreens /\ UNCHANGED <<regs, alarm>>
  /\ UNCHANGED <<ring, menu, edit, unlocked, ps_ok, ps_on, rtc_on>>

\* down_btn_fn of modules/rfbsl.c
RfbslDown(btns) ==
  /\ InModule /\ item = "RFBSL"
  /\ Takes("DOWN", btns, {"LSTAR", "STAR", "LNUM", "NUM", "UP"})
  /\ unlocked' = ~unlocked
  /\ UNCHANGED <<ring, menu, edit, regs, lcd, alarm, swatch,
                 ps_ok, ps_on, rtc_on>>

\* up_btn_fn of modules/rfbsl.c: the boot loader takes over, and when it is
\* done the watch starts anew, as in Init.
RfbslUp(btns) ==
  /\ InModule /\ item = "RFBSL" /\ unlocked
  /\ Takes("UP", btns, {"LSTAR", "STAR", "LNUM", "NUM", "DOWN"})
  /\ todo' \in Orders /\ added' = {}
  /\ next' = [a \in App |-> a] /\ prev' = [a \in App |-> a]
  /\ menu_head' = Head(todo') /\ item' = Head(todo') /\ editor' = Head(todo')
  /\ menumode' = FALSE /\ editmode' = FALSE /\ pos' = 0
  /\ regs' = [a \in App |-> 0]
  /\ up' = FALSE /\ scr' = 0 /\ wild' = FALSE
  /\ alarm' = 0 /\ swatch' = "OFF" /\ unlocked' = FALSE
  /\ ps_ok' \in BOOLEAN /\ ps_on' = FALSE /\ rtc_on' = TRUE

check_buttons(btns) ==
  /\ Running
  /\ \/ EditDone(btns) \/ EditNextItem(btns)
     \/ MenuEnter(btns) \/ MenuMove(btns)
     \/ StarLong(btns) \/ MenuOpen(btns) \/ NumShort(btns)
     \/ RfbslDown(btns) \/ RfbslUp(btns)

Next == menu_add_entry \/ \E btns \in SUBSET Button : check_buttons(btns)

Spec == Init /\ [][Next]_vars

-----------------------------------------------------------------------------
(* Properties.                                                             *)

TypeOK ==
  /\ todo \in Seq(App) /\ added \subseteq App
  /\ next \in [App -> App] /\ prev \in [App -> App]
  /\ menu_head \in App /\ item \in App /\ menumode \in BOOLEAN
  /\ editmode \in BOOLEAN /\ pos \in 0..4 /\ editor \in App
  /\ regs \in [App -> 0..3]
  /\ up \in BOOLEAN /\ scr \in {0, 1} /\ wild \in BOOLEAN
  /\ alarm \in 0..3 /\ unlocked \in BOOLEAN
  /\ swatch \in {"OFF", "ON", "BACKGROUND"}
  /\ ps_ok \in BOOLEAN /\ ps_on \in BOOLEAN /\ rtc_on \in BOOLEAN

(***************************************************************************)
(* The entries form a ring in both directions: DOWN undoes UP, and an      *)
(* entry that is not linked yet is reached from none.                      *)
(***************************************************************************)
MenuIsRing ==
  \A a \in added : /\ next[a] \in added /\ prev[a] \in added
                   /\ prev[next[a]] = a /\ next[prev[a]] = a

(***************************************************************************)
(* The ring is one, in the order of mod_init: from the head, UP leads to   *)
(* the entries in the order they were added, and from the last back to it. *)
(***************************************************************************)
InOrder(o) ==
  LET n == Len(o) - Len(todo)
  IN /\ n >= 0 /\ added = {o[i] : i \in 1..n}
     /\ \A i \in 1..Len(todo) : todo[i] = o[n + i]
     /\ n > 0 => menu_head = o[1]
     /\ \A i \in 1..n : next[o[i]] = o[IF i = n THEN 1 ELSE i + 1]

MenuIsWhole == MenuIsRing /\ \E o \in Orders : InOrder(o)

\* The modules that listen to the bus at this moment.
Listens(a) ==
  \/ a \in {"CLOCK", "TEMPERATURE", "BATTERY"} /\ Shown(a)
  \/ a = "ALTITUDE" /\ Shown(a) /\ ps_ok
  \/ a = "STOPWATCH" /\ (Shown(a) \/ swatch = "BACKGROUND")

(***************************************************************************)
(* A module draws from its listener, so it listens once while it is shown  *)
(* and not at all when it is hidden; the stop watch goes on while it is    *)
(* counting.  However the user goes in and out of modules, none of these   *)
(* registrations is doubled or forgotten.  The alarm listens while it is   *)
(* set, once for each press of NUM that set it.                            *)
(***************************************************************************)
ListenersMatch ==
  \A a \in App : regs[a] = IF a = "ALARM" THEN alarm
                           ELSE IF Listens(a) THEN 1 ELSE 0

(***************************************************************************)
(* Edit mode belongs to the module that is shown, never to one behind the  *)
(* menu, and pos stays before the end mark of its vector.                  *)
(***************************************************************************)
EditIsOfShown ==
  editmode => Shown(item) /\ editor = item /\ pos \in 0..Items(editor) - 1

\* The RTC stands still while the clock is edited, and at no other time.
RtcStopsForEdit == rtc_on <=> ~(editmode /\ editor = "CLOCK")

(***************************************************************************)
(* A sensor that works samples exactly while the altimeter is shown, also  *)
(* across the restarts of altitude_reconfigure.                            *)
(***************************************************************************)
SensorMatches == ps_ok => (ps_on <=> "ALTITUDE" \in App /\ Shown("ALTITUDE"))

(***************************************************************************)
(* The menu, and every module but the clock and those in edit mode, draw   *)
(* on screen 0; that screen is then the one shown.                         *)
(***************************************************************************)
DrawnIsShown == scr # 0 => up /\ (Shown("CLOCK") \/ editmode)

(***************************************************************************)
(* The boot loader cannot be entered by the UP button of someone who only  *)
(* walked through the menu: its lock is closed whenever RFBSL comes up.    *)
(***************************************************************************)
BslRelocked == [][~Shown("RFBSL") /\ Shown("RFBSL")' => ~unlocked']_vars

\* No module shows or destroys a virtual screen when there is none.
NothingWild == ~wild

(***************************************************************************)
(* What the menu shows is what runs: edit mode, the RTC, the pressure      *)
(* sensor and the virtual screens are as the module that is shown needs    *)
(* them, whatever the buttons that led there and whatever was pressed with *)
(* them.                                                                   *)
(***************************************************************************)
ShownMatches ==
  EditIsOfShown /\ RtcStopsForEdit /\ SensorMatches /\ DrawnIsShown /\ NothingWild
=============================================================================
