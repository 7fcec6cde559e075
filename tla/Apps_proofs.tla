---------------------------- MODULE Apps_proofs ----------------------------
(***************************************************************************)
(* Theorems about Apps, for every set of modules compiled in and every     *)
(* order mod_init adds them in.                                            *)
(***************************************************************************)
EXTENDS Apps, TLAPS

\* Before the first entry is added nothing has been done yet.
AtStart ==
  added = {} => /\ todo # <<>>
                /\ next = [a \in App |-> a] /\ prev = [a \in App |-> a]
                /\ regs = [a \in App |-> 0] /\ ~up /\ scr = 0
                /\ swatch = "OFF" /\ ~ps_on /\ ~unlocked

\* No button is read before mod_init is done.
ModInitFirst == todo # <<>> => ~menumode /\ ~editmode /\ alarm = 0

\* The entry of the menu mode is linked once there is one.
ItemAdded == added # {} => item \in added

\* A stop watch that is shown is not in the background.
StopwatchInFront == Shown("STOPWATCH") => swatch # "BACKGROUND"

\* The modules that switch between screens have them, and only they do.
ScreensExist ==
  /\ (\E a \in {"CLOCK", "TEMPERATURE", "ALTITUDE"} : Shown(a)) => up
  /\ scr # 0 => \E a \in {"CLOCK", "TEMPERATURE", "ALTITUDE"} : Shown(a)

\* The inductive invariant.
Match == ListenersMatch /\ ShownMatches /\ StopwatchInFront /\ ScreensExist

Inv ==
  TypeOK /\ MenuIsWhole /\ AtStart /\ ModInitFirst /\ ItemAdded /\ Match

-----------------------------------------------------------------------------
(* The orders of mod_init, and the ring.                                   *)

\* An order has each module once.
LEMMA OrderFacts ==
  ASSUME NEW o \in Orders
  PROVE  /\ o \in Seq(App) /\ Len(o) \in Nat \ {0}
         /\ \A i \in 1..Len(o) : o[i] \in App
         /\ App = {o[i] : i \in 1..Len(o)}
         /\ \A i, j \in 1..Len(o) : o[i] = o[j] => i = j
         /\ Head(o) = o[1] /\ o[1] \in App \ NullActivate
<1>1. /\ o \in Seq(App) /\ App = {o[i] : i \in 1..Len(o)} /\ App # {}
      /\ \A i, j \in 1..Len(o) : o[i] = o[j] => i = j
      /\ Head(o) \notin NullActivate
  BY AppsAssumption
<1>2. Len(o) \in Nat \ {0}
  BY <1>1
<1>3. Head(o) = o[1] /\ o[1] \in App
  BY <1>1, <1>2
<1>4. QED
  BY <1>1, <1>2, <1>3

\* Strings of the modules that have an activate_fn.
LEMMA KnownOrNull ==
  ASSUME NEW a \in App \ NullActivate
  PROVE  a \in Known
BY AppsAssumption

\* When mod_init is done the menu has every module.
LEMMA AllAdded ==
  ASSUME Inv, todo = <<>>
  PROVE  added = App /\ added # {} /\ item \in added
<1>1. PICK o \in Orders : InOrder(o)
  BY DEF Inv, MenuIsWhole
<1>2. added = {o[i] : i \in 1..Len(o)}
  BY <1>1, OrderFacts DEF InOrder
<1>3. QED
  BY <1>2, OrderFacts, AppsAssumption DEF Inv, ItemAdded

\* What leaves the links alone leaves the ring whole.
LEMMA RingKept ==
  ASSUME MenuIsWhole, UNCHANGED ring
  PROVE  MenuIsWhole'
<1>1. PICK o \in Orders : InOrder(o)
  BY DEF MenuIsWhole
<1>2. InOrder(o)'
  BY <1>1 DEF InOrder, ring
<1>3. QED
  BY <1>2 DEF MenuIsWhole, MenuIsRing, ring

\* A start, at power-up or from the boot loader: the menu is empty.
LEMMA RingStarts ==
  ASSUME NEW o \in Orders, todo = o, added = {}
  PROVE  MenuIsWhole
<1>1. Len(o) - Len(todo) = 0
  BY OrderFacts
<1>2. InOrder(o)
  BY <1>1 DEF InOrder
<1>3. QED
  BY <1>2 DEF MenuIsWhole, MenuIsRing

\* menu_add_entry links the first entry to itself and every other one
\* between the last and the head.
LEMMA RingGrows ==
  ASSUME TypeOK, MenuIsWhole, AtStart, menu_add_entry
  PROVE  MenuIsWhole' /\ Head(todo) \in App \ added
<1> DEFINE a == Head(todo)
<1>1. PICK o \in Orders : InOrder(o)
  BY DEF MenuIsWhole
<1> DEFINE n == Len(o) - Len(todo)
<1>2. /\ todo \in Seq(App) /\ Len(todo) \in Nat \ {0}
      /\ todo' = Tail(todo) /\ added' = added \cup {a}
  BY DEF TypeOK, menu_add_entry
<1>3. /\ n \in Nat /\ n + 1 \in 1..Len(o) /\ n < Len(o)
      /\ added = {o[i] : i \in 1..n}
      /\ a = o[n + 1]
  <2>1. /\ n >= 0 /\ added = {o[i] : i \in 1..n}
        /\ \A i \in 1..Len(todo) : todo[i] = o[n + i]
    BY <1>1 DEF InOrder
  <2>2. n \in Nat /\ n + 1 \in 1..Len(o) /\ n < Len(o)
    <3>1. Len(o) \in Nat
      BY OrderFacts
    <3>2. QED
      BY <1>2, <2>1, <3>1
  <2>3. a = todo[1] /\ 1 \in 1..Len(todo)
    BY <1>2
  <2>4. a = o[n + 1]
    BY <2>1, <2>3
  <2>5. QED
    BY <2>1, <2>2, <2>4
<1>10. /\ n > 0 => menu_head = o[1]
       /\ \A i \in 1..n : next[o[i]] = o[IF i = n THEN 1 ELSE i + 1]
  BY <1>1 DEF InOrder
<1>11. IF added = {} THEN menu_head' = a /\ UNCHANGED <<next, prev>>
                     ELSE InsertAtEnd(a) /\ UNCHANGED menu_head
  BY DEF menu_add_entry
<1> HIDE DEF a, n
<1>12. ASSUME /\ n + 1 > 0 => menu_head' = o[1]
              /\ \A i \in 1..(n + 1) :
                   next'[o[i]] = o[IF i = n + 1 THEN 1 ELSE i + 1],
              Len(o) - Len(todo') = n + 1,
              \A i \in 1..Len(todo') : todo'[i] = o[n + 1 + i],
              added' = {o[i] : i \in 1..(n + 1)}
       PROVE  InOrder(o)'
  <2> DEFINE m == Len(o) - Len(todo')
  <2>1. m = n + 1 /\ m >= 0
    BY <1>3, <1>12
  <2> HIDE DEF m
  <2>2. /\ added' = {o[i] : i \in 1..m}
        /\ \A i \in 1..Len(todo') : todo'[i] = o[m + i]
        /\ m > 0 => menu_head' = o[1]
        /\ \A i \in 1..m : next'[o[i]] = o[IF i = m THEN 1 ELSE i + 1]
    BY <1>12, <2>1
  <2>3. QED
    BY <2>1, <2>2 DEF InOrder, m
<1>4. a \in App \ added
  <2>1. a \in App
    BY <1>3, OrderFacts
  <2>2. ASSUME NEW i \in 1..n PROVE o[i] # o[n + 1]
    BY <1>3, OrderFacts
  <2>3. QED
    BY <2>1, <2>2, <1>3
<1>5. /\ Len(o) - Len(todo') = n + 1
      /\ \A i \in 1..Len(todo') : todo'[i] = o[n + 1 + i]
  <2> USE DEF n
  <2>1. Len(todo') = Len(todo) - 1
    BY <1>2
  <2>2. \A i \in 1..Len(todo') : todo'[i] = todo[i + 1] /\ i + 1 \in 1..Len(todo)
    BY <1>2, <2>1
  <2>3. \A i \in 1..Len(todo) : todo[i] = o[n + i]
    BY <1>1 DEF InOrder
  <2>4. Len(o) - Len(todo') = n + 1
    BY <2>1, <1>2, OrderFacts
  <2>5. ASSUME NEW i \in 1..Len(todo') PROVE todo'[i] = o[n + 1 + i]
    <3>1. todo'[i] = o[n + (i + 1)]
      BY <2>2, <2>3
    <3>2. n + (i + 1) = n + 1 + i
      BY <1>3
    <3>3. QED
      BY <3>1, <3>2
  <2>6. QED
    BY <2>4, <2>5
<1>6. added' = {o[i] : i \in 1..(n + 1)}
  BY <1>2, <1>3
<1>7. CASE added = {}
  <2>1. n = 0 /\ a = o[1]
    BY <1>3, <1>7
  <2>2. next' = next /\ prev' = prev /\ menu_head' = a
    BY <1>7, <1>11
  <2>3. next'[a] = a /\ prev'[a] = a
    BY <2>2, <1>4, <1>7 DEF AtStart
  <2>4. InOrder(o)'
    BY <1>3, <1>5, <1>6, <1>12, <2>1, <2>2, <2>3
  <2>5. MenuIsRing'
    BY <1>2, <1>7, <2>3 DEF MenuIsRing
  <2>6. QED
    BY <1>4, <2>4, <2>5 DEF MenuIsWhole, a
<1>8. CASE added # {}
  <2> DEFINE last == prev[menu_head]
  <2>1. /\ InsertAtEnd(a) /\ menu_head' = menu_head
    BY <1>8, <1>11
  <2>2. n > 0 /\ menu_head = o[1] /\ menu_head \in added
    BY <1>3, <1>8, <1>10
  <2>3. next[o[n]] = o[1] /\ o[n] \in added
    BY <1>3, <1>10, <2>2
  <2>4. last = o[n]
    BY <2>2, <2>3 DEF MenuIsWhole, MenuIsRing
  <2>5. /\ next' = [next EXCEPT ![a] = o[1], ![o[n]] = a]
        /\ prev' = [prev EXCEPT ![a] = o[n], ![o[1]] = a]
    BY <2>1, <2>2, <2>4 DEF InsertAtEnd
  <2>6. /\ next \in [App -> App] /\ prev \in [App -> App] /\ added \subseteq App
        /\ a # o[1] /\ a # o[n]
    BY <1>4, <2>2, <2>3 DEF TypeOK
  <2>7. /\ next'[a] = o[1] /\ next'[o[n]] = a
        /\ \A b \in added : b # o[n] => next'[b] = next[b]
        /\ prev'[a] = o[n] /\ prev'[o[1]] = a
        /\ \A b \in added : b # o[1] => prev'[b] = prev[b]
    BY <1>4, <2>2, <2>3, <2>5, <2>6
  <2>8. InOrder(o)'
    <3>1. ASSUME NEW i \in 1..(n + 1)
          PROVE  next'[o[i]] = o[IF i = n + 1 THEN 1 ELSE i + 1]
      <4>1. CASE i = n + 1
        BY <4>1, <1>3, <2>7
      <4>2. CASE i = n
        BY <4>2, <1>3, <2>7
      <4>3. CASE i < n
        <5>1. i \in 1..n /\ i \in 1..Len(o) /\ n \in 1..Len(o) /\ i # n
          BY <4>3, <1>3
        <5>2. o[i] # o[n] /\ o[i] \in added
          BY <5>1, <1>3, OrderFacts
        <5>3. next[o[i]] = o[i + 1]
          BY <5>1, <1>10
        <5>4. QED
          BY <5>1, <5>2, <5>3, <4>3, <1>3, <2>7
      <4>4. QED
        BY <4>1, <4>2, <4>3, <1>3
    <3>2. QED
      BY <3>1, <1>3, <1>5, <1>6, <1>12, <2>1, <2>2
  <2>9. MenuIsRing'
    <3>1. ASSUME NEW b \in added'
          PROVE  /\ next'[b] \in added' /\ prev'[b] \in added'
                 /\ prev'[next'[b]] = b /\ next'[prev'[b]] = b
      <4>1. b = a \/ b \in added
        BY <1>2
      <4>2. /\ o[n] \in added /\ o[1] \in added
            /\ next[o[n]] = o[1] /\ prev[o[1]] = o[n]
        BY <2>2, <2>3, <2>4
      <4>3. /\ \A c \in added : next[c] \in added /\ prev[c] \in added
            /\ \A c \in added : prev[next[c]] = c /\ next[prev[c]] = c
        BY DEF MenuIsWhole, MenuIsRing
      <4>4. CASE b = a
        BY <4>4, <4>2, <2>7, <1>2
      <4>5. CASE b \in added
        <5>1. next'[b] \in added' /\ prev'[next'[b]] = b
          <6>1. CASE b = o[n]
            BY <6>1, <2>7, <1>2
          <6>2. CASE b # o[n]
            BY <6>2, <4>5, <4>2, <4>3, <2>7, <1>2
          <6>3. QED
            BY <6>1, <6>2
        <5>2. prev'[b] \in added' /\ next'[prev'[b]] = b
          <6>1. CASE b = o[1]
            BY <6>1, <2>7, <1>2
          <6>2. CASE b # o[1]
            BY <6>2, <4>5, <4>2, <4>3, <2>7, <1>2
          <6>3. QED
            BY <6>1, <6>2
        <5>3. QED
          BY <5>1, <5>2
      <4>6. QED
        BY <4>1, <4>4, <4>5
    <3>2. QED
      BY <3>1 DEF MenuIsRing
  <2>10. QED
    BY <1>4, <2>8, <2>9 DEF MenuIsWhole, a
<1>9. QED
  BY <1>7, <1>8

-----------------------------------------------------------------------------
(* What the callbacks do to the bus, the screens and the sensor.           *)

\* The registrations, the screens and the sensor while no module is shown.
Hidden ==
  /\ \A a \in App :
       regs[a] = IF a = "ALARM" THEN alarm
                 ELSE IF a = "STOPWATCH" /\ swatch = "BACKGROUND" THEN 1 ELSE 0
  /\ scr = 0 /\ ~wild /\ (ps_ok => ~ps_on)

\* The same while s is shown, outside of the edit mode of s.
ShowsUp(s) ==
  /\ \A a \in App :
       regs[a] = IF a = "ALARM" THEN alarm
                 ELSE IF \/ a = s /\ a \in {"CLOCK", "TEMPERATURE", "BATTERY"}
                         \/ a = s /\ a = "ALTITUDE" /\ ps_ok
                         \/ a = "STOPWATCH" /\ (a = s \/ swatch = "BACKGROUND")
                      THEN 1 ELSE 0
  /\ (scr # 0 => up /\ s = "CLOCK") /\ ~wild
  /\ (ps_ok => (ps_on <=> s = "ALTITUDE"))
  /\ (s = "STOPWATCH" => swatch # "BACKGROUND")
  /\ (s \in {"CLOCK", "TEMPERATURE", "ALTITUDE"} => up)

\* The types of what a callback changes.
CallbackTypes ==
  /\ regs \in [App -> 0..3] /\ up \in BOOLEAN /\ scr \in {0, 1}
  /\ wild \in BOOLEAN /\ swatch \in {"OFF", "ON", "BACKGROUND"}
  /\ unlocked \in BOOLEAN /\ ps_on \in BOOLEAN

\* activate_fn brings what the module needs, and only that.
LEMMA ActivatedShows ==
  ASSUME TypeOK, Hidden, NEW s \in App \ NullActivate, Activated(s),
         alarm' = alarm, ps_ok' = ps_ok
  PROVE  /\ CallbackTypes' /\ ShowsUp(s)' /\ scr' = 0
         /\ (s = "RFBSL" => ~unlocked')
<1> USE DEF TypeOK, Hidden, ShowsUp, CallbackTypes, Others, NoScreens, lcd,
            lcd_screens_create, sys_messagebus_register
<1>1. CASE s = "CLOCK" /\ clock_activated
  BY <1>1 DEF clock_activated
<1>2. CASE s = "TEMPERATURE" /\ temperature_activated
  BY <1>2 DEF temperature_activated
<1>3. CASE s = "ALTITUDE" /\ altitude_activate
  <2>1. CASE ps_ok
    <3>1. /\ regs' = [regs EXCEPT !["ALTITUDE"] = @ + 1] /\ ps_on' = TRUE
          /\ up' = TRUE /\ scr' = 0 /\ wild' = wild /\ UNCHANGED <<swatch, unlocked>>
      BY <1>3, <2>1 DEF altitude_activate
    <3>2. regs["ALTITUDE"] = 0
      BY <1>3
    <3>3. QED
      BY <1>3, <2>1, <3>1, <3>2
  <2>2. CASE ~ps_ok
    BY <1>3, <2>2 DEF altitude_activate
  <2>3. QED
    BY <2>1, <2>2
<1>4. CASE s = "BATTERY" /\ battery_activate
  BY <1>4 DEF battery_activate
<1>5. CASE s = "STOPWATCH" /\ stopwatch_activated
  <2>1. CASE swatch = "BACKGROUND"
    BY <1>5, <2>1 DEF stopwatch_activated
  <2>2. CASE swatch # "BACKGROUND"
    <3>1. /\ regs' = [regs EXCEPT !["STOPWATCH"] = @ + 1]
          /\ UNCHANGED <<lcd, swatch, unlocked, ps_on>>
      BY <1>5, <2>2 DEF stopwatch_activated
    <3>2. regs["STOPWATCH"] = 0
      BY <1>5, <2>2
    <3>3. QED
      BY <1>5, <2>2, <3>1, <3>2
  <2>3. QED
    BY <2>1, <2>2
<1>6. CASE s = "RFBSL" /\ rfbsl_activated
  BY <1>6 DEF rfbsl_activated
<1>7. CASE s \in {"ALARM", "D_DAY"} /\ NoScreens /\ Others /\ UNCHANGED regs
  BY <1>7
<1>8. QED
  BY <1>1, <1>2, <1>3, <1>4, <1>5, <1>6, <1>7 DEF Activated

\* deactivate_fn takes it away again.
LEMMA DeactivatedHides ==
  ASSUME TypeOK, NEW s \in App, ShowsUp(s), Deactivated(s),
         alarm' = alarm, ps_ok' = ps_ok
  PROVE  CallbackTypes' /\ Hidden'
<1> USE DEF TypeOK, Hidden, ShowsUp, CallbackTypes, Others, NoScreens, lcd,
            lcd_screens_destroy, sys_messagebus_unregister
<1>1. CASE s = "CLOCK" /\ clock_deactivated
  <2>1. up /\ ~wild
    BY <1>1
  <2>2. /\ regs' = [regs EXCEPT !["CLOCK"] = 0] /\ up' = FALSE /\ scr' = 0
        /\ ~wild' /\ wild' \in BOOLEAN /\ UNCHANGED <<swatch, unlocked, ps_on>>
    BY <1>1, <2>1 DEF clock_deactivated
  <2>3. ps_ok' => ~ps_on'
    BY <1>1, <2>2
  <2>4. /\ regs' \in [App -> 0..3]
        /\ \A a \in App : regs'[a] = IF a = "CLOCK" THEN 0 ELSE regs[a]
    BY <1>1, <2>2
  <2>5. CallbackTypes'
    BY <2>2, <2>4
  <2>6. QED
    BY <1>1, <2>2, <2>3, <2>4, <2>5
<1>2. CASE /\ s \in {"TEMPERATURE", "BATTERY"}
           /\ sys_messagebus_unregister(s) /\ NoScreens /\ Others
  BY <1>2
<1>3. CASE s = "ALTITUDE" /\ altitude_deactivate
  <2>1. CASE ps_ok
    <3>1. /\ regs' = [regs EXCEPT !["ALTITUDE"] = 0] /\ ps_on' = FALSE
          /\ UNCHANGED <<lcd, swatch, unlocked>>
      BY <1>3, <2>1 DEF altitude_deactivate
    <3>2. /\ regs' \in [App -> 0..3]
          /\ \A a \in App : regs'[a] = IF a = "ALTITUDE" THEN 0 ELSE regs[a]
      BY <1>3, <3>1
    <3>3. QED
      BY <1>3, <2>1, <3>1, <3>2
  <2>2. CASE ~ps_ok
    BY <1>3, <2>2 DEF altitude_deactivate
  <2>3. QED
    BY <2>1, <2>2
<1>4. CASE s = "STOPWATCH" /\ stopwatch_deactivated
  BY <1>4 DEF stopwatch_deactivated
<1>5. CASE /\ s \in {"ALARM", "D_DAY", "RFBSL"} \cup NullActivate
           /\ NoScreens /\ Others /\ UNCHANGED regs
  <2>1. s \notin {"CLOCK", "TEMPERATURE", "BATTERY", "ALTITUDE", "STOPWATCH"}
    BY <1>5, AppsAssumption DEF Known
  <2>2. QED
    BY <1>5, <2>1
<1>6. QED
  BY <1>1, <1>2, <1>3, <1>4, <1>5 DEF Deactivated

\* The watch with the menu open, and with a module shown.
MenuState ==
  /\ CallbackTypes /\ Hidden /\ alarm \in 0..3
  /\ menumode /\ ~editmode /\ rtc_on

ModuleState ==
  /\ CallbackTypes /\ item \in App /\ ShowsUp(item) /\ added # {} /\ alarm \in 0..3
  /\ ~menumode /\ ~editmode /\ rtc_on

LEMMA ShownInModule == ModuleState => \A a : Shown(a) <=> a = item
BY DEF ModuleState, Shown

LEMMA MenuMatches == MenuState => Match
<1> SUFFICES ASSUME MenuState PROVE Match
  OBVIOUS
<1>1. \A a : ~Shown(a)
  BY DEF MenuState, Shown
<1>2. ListenersMatch
  BY <1>1 DEF MenuState, Hidden, ListenersMatch, Listens
<1>3. ShownMatches
  BY <1>1 DEF MenuState, Hidden, ShownMatches, EditIsOfShown, RtcStopsForEdit,
              SensorMatches, DrawnIsShown, NothingWild
<1>4. QED
  BY <1>1, <1>2, <1>3 DEF Match, StopwatchInFront, ScreensExist, MenuState, Hidden

LEMMA ModuleMatches == ModuleState => Match
<1> SUFFICES ASSUME ModuleState PROVE Match
  OBVIOUS
<1>1. \A a : Shown(a) <=> a = item
  BY ShownInModule
<1>2. ListenersMatch
  BY <1>1 DEF ModuleState, ShowsUp, ListenersMatch, Listens
<1>3. ShownMatches
  BY <1>1 DEF ModuleState, ShowsUp, ShownMatches, EditIsOfShown, RtcStopsForEdit,
              SensorMatches, DrawnIsShown, NothingWild
<1>4. QED
  BY <1>1, <1>2, <1>3 DEF Match, StopwatchInFront, ScreensExist, ModuleState, ShowsUp

LEMMA HiddenInMenu ==
  ASSUME TypeOK, Match, menumode, ~editmode
  PROVE  Hidden /\ rtc_on
BY DEF Match, ListenersMatch, ShownMatches, RtcStopsForEdit, SensorMatches,
       DrawnIsShown, NothingWild, Listens, Hidden, Shown, TypeOK

LEMMA ShowsUpInModule ==
  ASSUME TypeOK, Match, added # {}, ~menumode, ~editmode
  PROVE  item \in App /\ ShowsUp(item) /\ rtc_on
<1>1. \A a : Shown(a) <=> item = a
  BY DEF Shown
<1>2. item \in App
  BY DEF TypeOK
<1>3. QED
  BY <1>1, <1>2 DEF TypeOK, Match, ListenersMatch, ShownMatches, RtcStopsForEdit,
       SensorMatches, DrawnIsShown, NothingWild, Listens, StopwatchInFront,
       ScreensExist, ShowsUp

-----------------------------------------------------------------------------
(* Each step keeps the invariant.                                          *)

\* A button is read after mod_init: what it leaves of the menu stays as it is.
LEMMA ButtonKeepsMenu ==
  ASSUME Inv, Running, UNCHANGED ring, item' = item \/ item' \in added
  PROVE  /\ MenuIsWhole' /\ AtStart' /\ ModInitFirst' /\ ItemAdded'
         /\ added # {} /\ added' = added
<1>1. added # {} /\ item \in added
  BY AllAdded DEF Running
<1>2. MenuIsWhole'
  BY RingKept DEF Inv
<1>3. QED
  BY <1>1, <1>2 DEF ring, Running, AtStart, ModInitFirst, ItemAdded

LEMMA InitInv == Init => Inv
<1> SUFFICES ASSUME Init PROVE Inv
  OBVIOUS
<1>1. todo \in Orders /\ added = {} /\ todo \in Seq(App) /\ todo # <<>> /\ Head(todo) \in App
  BY OrderFacts DEF Init
<1>2. MenuIsWhole
  BY <1>1, RingStarts
<1>3. TypeOK
  <2>1. /\ todo \in Seq(App) /\ added \subseteq App
        /\ menu_head \in App /\ item \in App /\ editor \in App
    BY <1>1 DEF Init
  <2>2. /\ next \in [App -> App] /\ prev \in [App -> App]
        /\ regs \in [App -> 0..3]
    BY DEF Init
  <2>3. /\ pos \in 0..4 /\ scr \in {0, 1} /\ alarm \in 0..3
        /\ swatch \in {"OFF", "ON", "BACKGROUND"}
    BY DEF Init
  <2>4. /\ menumode \in BOOLEAN /\ editmode \in BOOLEAN /\ up \in BOOLEAN
        /\ wild \in BOOLEAN /\ unlocked \in BOOLEAN
        /\ ps_ok \in BOOLEAN /\ ps_on \in BOOLEAN /\ rtc_on \in BOOLEAN
    BY DEF Init
  <2>5. QED
    BY <2>1, <2>2, <2>3, <2>4 DEF TypeOK
<1>4. \A a : ~Shown(a)
  BY <1>1 DEF Shown
<1>5. Match
  BY <1>4 DEF Init, Match, ListenersMatch, ShownMatches, EditIsOfShown,
     RtcStopsForEdit, SensorMatches, DrawnIsShown, NothingWild, Listens,
     StopwatchInFront, ScreensExist
<1>6. QED
  BY <1>1, <1>2, <1>3, <1>5 DEF Init, Inv, AtStart, ModInitFirst, ItemAdded

LEMMA AddEntryInv == Inv /\ menu_add_entry => Inv'
<1> SUFFICES ASSUME Inv, menu_add_entry PROVE Inv'
  OBVIOUS
<1>0. PICK a : a = Head(todo)
  OBVIOUS
<1>1. MenuIsWhole' /\ a \in App \ added
  BY <1>0, RingGrows DEF Inv
<1>2. /\ added' = added \cup {a} /\ todo' = Tail(todo)
      /\ todo' \in Seq(App) /\ added' # {} /\ added' \subseteq App
      /\ todo # <<>> /\ ~menumode /\ ~editmode /\ alarm = 0
      /\ UNCHANGED <<menumode, edit, alarm, ps_ok, rtc_on>>
  BY <1>0, <1>1 DEF Inv, TypeOK, ModInitFirst, menu_add_entry
<1>3. AtStart' /\ ModInitFirst'
  BY <1>2 DEF AtStart, ModInitFirst, edit
<1>4. CASE added = {}
  <2>1. /\ menu_head' = a /\ item' = a /\ UNCHANGED <<next, prev>> /\ Activated(a)
    BY <1>0, <1>4 DEF menu_add_entry
  <2>2. Hidden /\ rtc_on
    BY <1>2, <1>4 DEF Inv, AtStart, Hidden, Match, ShownMatches, NothingWild,
                      RtcStopsForEdit
  <2>3. a \in App \ NullActivate
    <3>1. PICK o \in Orders : InOrder(o)
      BY DEF Inv, MenuIsWhole
    <3>2. Len(o) \in Nat \ {0} /\ Len(todo) \in Nat \ {0}
      BY <1>2, OrderFacts DEF Inv, TypeOK
    <3>3. ~(1 \in 1..(Len(o) - Len(todo))) /\ Len(o) - Len(todo) >= 0
      BY <3>1, <1>4 DEF InOrder
    <3>4. Len(o) - Len(todo) = 0
      BY <3>2, <3>3
    <3>5. todo[1] = o[0 + 1] /\ a = todo[1]
      BY <3>1, <3>2, <3>4, <1>0, <1>2 DEF InOrder, Inv, TypeOK
    <3>6. QED
      BY <3>5, OrderFacts
  <2>4. CallbackTypes' /\ ShowsUp(a)'
    BY <1>2, <2>1, <2>2, <2>3, ActivatedShows DEF Inv
  <2>5. ModuleState'
    BY <1>1, <1>2, <2>1, <2>2, <2>4 DEF ModuleState, edit
  <2>6. Match'
    BY <2>5, ModuleMatches, PTL
  <2>7. TypeOK'
    BY <1>1, <1>2, <2>1, <2>4 DEF Inv, TypeOK, CallbackTypes, edit
  <2>8. QED
    BY <1>1, <1>2, <1>3, <2>1, <2>6, <2>7 DEF Inv, ItemAdded
<1>5. CASE added # {}
  <2>1. /\ InsertAtEnd(a)
        /\ UNCHANGED <<menu_head, item, regs, lcd, swatch, unlocked, ps_on>>
    BY <1>0, <1>5 DEF menu_add_entry, Others
  <2>2. TypeOK'
    <3>1. prev[menu_head] \in App
      BY DEF Inv, TypeOK
    <3>2. next' \in [App -> App] /\ prev' \in [App -> App]
      BY <1>1, <2>1, <3>1 DEF InsertAtEnd, Inv, TypeOK
    <3>3. QED
      BY <1>1, <1>2, <2>1, <3>2 DEF Inv, TypeOK, edit, lcd
  <2>3. \A b : Shown(b)' <=> Shown(b)
    BY <1>2, <1>5, <2>1 DEF Shown
  <2>4. Match'
    BY <1>2, <2>1, <2>3 DEF Inv, Match, ListenersMatch, ShownMatches,
       EditIsOfShown, RtcStopsForEdit, SensorMatches, DrawnIsShown, NothingWild,
       Listens, StopwatchInFront, ScreensExist, edit, lcd
  <2>5. QED
    BY <1>1, <1>2, <1>3, <1>5, <2>1, <2>2, <2>4 DEF Inv, ItemAdded
<1>6. QED
  BY <1>4, <1>5

\* What the edit mode callbacks leave alone.
LEMMA EditDoneInv ==
  ASSUME Inv, Running, NEW btns, EditDone(btns)
  PROVE  Inv'
<1>1. /\ editmode /\ editmode' = FALSE /\ UNCHANGED <<pos, editor, item, menumode>>
      /\ UNCHANGED <<ring, regs, alarm, swatch, unlocked, ps_ok>>
      /\ Complete(editor)
  BY DEF EditDone, menu
<1>2. /\ editor = item /\ item \in App /\ ~menumode
      /\ \A a : Shown(a) <=> a = item
  BY <1>1, AllAdded DEF Inv, Match, ShownMatches, EditIsOfShown, Running, Shown, TypeOK
<1>3. /\ MenuIsWhole' /\ AtStart' /\ ModInitFirst' /\ ItemAdded'
      /\ added # {} /\ added' = added
  BY <1>1, ButtonKeepsMenu
<1>4. /\ rtc_on' /\ (ps_on' <=> ps_on \/ item = "ALTITUDE") /\ ps_on' \in BOOLEAN
  BY <1>1, <1>2 DEF Complete, Inv, TypeOK, Match, ShownMatches, RtcStopsForEdit
<1>5. up' = up /\ up \in BOOLEAN /\ wild = FALSE /\ scr \in {0, 1}
  BY <1>1 DEF Complete, lcd_screen_activate, NoScreens, lcd, Inv, TypeOK, Match,
              ShownMatches, NothingWild
<1>6. scr' \in {0, 1} /\ ~wild' /\ wild' \in BOOLEAN /\ (scr' # 0 => up' /\ item = "CLOCK")
  <2>1. CASE item \in {"CLOCK", "TEMPERATURE", "ALTITUDE"}
    <3>1. up
      BY <1>2, <2>1 DEF Inv, Match, ScreensExist
    <3>2. scr' = 0 /\ wild' = (wild \/ ~up)
      BY <1>1, <1>2, <2>1 DEF Complete, lcd_screen_activate
    <3>3. QED
      BY <1>5, <3>1, <3>2
  <2>2. CASE item \notin {"CLOCK", "TEMPERATURE", "ALTITUDE"}
    <3>1. UNCHANGED <<scr, wild>>
      BY <1>1, <1>2, <2>2 DEF Complete, NoScreens, lcd
    <3>2. scr = 0
      BY <1>2, <2>2 DEF Inv, Match, ScreensExist
    <3>3. QED
      BY <1>5, <3>1, <3>2
  <2>3. QED
    BY <2>1, <2>2
<1>7. CallbackTypes' /\ alarm' \in 0..3
  BY <1>1, <1>4, <1>5, <1>6 DEF CallbackTypes, Inv, TypeOK
<1>8. ShowsUp(item)'
  <2>1. \A a \in App : regs[a] = IF a = "ALARM" THEN alarm
                                 ELSE IF Listens(a) THEN 1 ELSE 0
    BY DEF Inv, Match, ListenersMatch
  <2>2. ps_ok => (ps_on <=> item = "ALTITUDE")
    BY <1>2 DEF Inv, Match, ShownMatches, SensorMatches
  <2>3. QED
    BY <1>1, <1>2, <1>4, <1>5, <1>6, <2>1, <2>2
       DEF ShowsUp, Listens, Inv, Match, StopwatchInFront, ScreensExist
<1>9. ModuleState'
  BY <1>1, <1>2, <1>3, <1>4, <1>7, <1>8 DEF ModuleState
<1>10. Match'
  BY <1>9, ModuleMatches, PTL
<1>11. TypeOK'
  BY <1>1, <1>4, <1>7 DEF Inv, TypeOK, ring, CallbackTypes
<1>12. QED
  BY <1>3, <1>10, <1>11 DEF Inv

\* The year of the clock and its other items are on two screens, both there.
LEMMA EditNextItemInv ==
  ASSUME Inv, Running, NEW btns, EditNextItem(btns)
  PROVE  Inv'
<1>1. /\ editmode /\ pos' = (IF pos + 1 = Items(editor) THEN 0 ELSE pos + 1)
      /\ Select(editor, pos')
      /\ UNCHANGED <<ring, item, menumode, editmode, editor, regs, alarm, swatch,
                     unlocked, ps_ok, ps_on, rtc_on>>
  BY DEF EditNextItem, menu
<1>2. /\ editor = item /\ item \in App /\ ~menumode /\ pos \in 0..Items(item) - 1
      /\ \A a : Shown(a) <=> a = item
  BY <1>1, AllAdded DEF Inv, Match, ShownMatches, EditIsOfShown, Running, Shown, TypeOK
<1>3. /\ MenuIsWhole' /\ AtStart' /\ ModInitFirst' /\ ItemAdded'
      /\ added # {} /\ added' = added
  BY <1>1, ButtonKeepsMenu
<1>4. pos' \in 0..Items(item) - 1 /\ pos' \in 0..4
  <2>1. Items(item) \in 0..5
    BY DEF Items
  <2>2. QED
    BY <1>1, <1>2, <2>1
<1>5. /\ UNCHANGED <<up, wild>> /\ scr' \in {0, 1} /\ (scr' # 0 => up)
      /\ scr' # 0 => item \in {"CLOCK", "TEMPERATURE", "ALTITUDE"}
  <2>1. CASE item = "CLOCK"
    <3>1. up /\ wild \in BOOLEAN
      BY <1>2, <2>1 DEF Inv, TypeOK, Match, ScreensExist
    <3>2. QED
      BY <1>1, <1>2, <2>1, <3>1 DEF Select, lcd_screen_activate
  <2>2. CASE item # "CLOCK"
    BY <1>1, <1>2, <2>2 DEF Select, NoScreens, lcd, Inv, TypeOK, Match,
       ShownMatches, DrawnIsShown, ScreensExist
  <2>3. QED
    BY <2>1, <2>2
<1>6. TypeOK'
  BY <1>1, <1>4, <1>5 DEF Inv, TypeOK, ring
<1>7. \A a : Shown(a)' <=> Shown(a)
  BY <1>1, <1>3 DEF Shown
<1>8. Match'
  <2>1. ListenersMatch' /\ StopwatchInFront'
    BY <1>1, <1>7 DEF Inv, Match, ListenersMatch, Listens, StopwatchInFront
  <2>6. ScreensExist'
    BY <1>2, <1>5, <1>7 DEF Inv, Match, ScreensExist
  <2>2. EditIsOfShown'
    BY <1>1, <1>2, <1>4, <1>7 DEF EditIsOfShown
  <2>3. RtcStopsForEdit' /\ SensorMatches' /\ NothingWild'
    BY <1>1, <1>5, <1>7 DEF Inv, Match, ShownMatches, RtcStopsForEdit,
       SensorMatches, NothingWild
  <2>4. DrawnIsShown'
    BY <1>1, <1>5 DEF DrawnIsShown
  <2>5. QED
    BY <2>1, <2>2, <2>3, <2>4, <2>6 DEF Match, ShownMatches
<1>9. QED
  BY <1>3, <1>6, <1>8 DEF Inv

LEMMA MenuEnterInv ==
  ASSUME Inv, Running, NEW btns, MenuEnter(btns)
  PROVE  Inv'
<1>1. /\ ~editmode /\ menumode /\ menumode' = FALSE
      /\ UNCHANGED <<item, ring, editmode, pos, editor, alarm, ps_ok, rtc_on>>
      /\ \/ item \notin NullActivate /\ Activated(item)
         \/ /\ item \in NullActivate
            /\ UNCHANGED <<regs, up, scr, wild, swatch, unlocked, ps_on>>
  BY DEF MenuEnter, edit, NoScreens, lcd, Others
<1>2. PICK s \in App : s = item
  BY DEF Inv, TypeOK
<1>3. Hidden /\ rtc_on
  BY <1>1, HiddenInMenu DEF Inv
<1>4. /\ MenuIsWhole' /\ AtStart' /\ ModInitFirst' /\ ItemAdded'
      /\ added # {} /\ added' = added
  BY <1>1, ButtonKeepsMenu
<1>5. CallbackTypes' /\ ShowsUp(s)'
  <2>1. CASE s \notin NullActivate
    BY <1>1, <1>2, <1>3, <2>1, ActivatedShows DEF Inv
  <2>2. CASE s \in NullActivate
    <3>1. s \notin {"CLOCK", "TEMPERATURE", "BATTERY", "ALTITUDE", "STOPWATCH"}
      BY <2>2, AppsAssumption DEF Known
    <3>2. UNCHANGED <<regs, up, scr, wild, swatch, unlocked, ps_on, alarm, ps_ok>>
      BY <1>1, <1>2, <2>2
    <3>3. CallbackTypes'
      BY <3>2 DEF CallbackTypes, Inv, TypeOK
    <3>4. ShowsUp(s)'
      BY <1>3, <3>1, <3>2 DEF Hidden, ShowsUp
    <3>5. QED
      BY <3>3, <3>4
  <2>3. QED
    BY <2>1, <2>2
<1>6. ModuleState'
  <2>1. ShowsUp(item)'
    BY <1>1, <1>2, <1>5 DEF ShowsUp
  <2>2. alarm' \in 0..3 /\ item' \in App /\ rtc_on' /\ ~editmode'
    BY <1>1, <1>2, <1>3 DEF Inv, TypeOK
  <2>3. QED
    BY <1>1, <1>4, <1>5, <2>1, <2>2 DEF ModuleState
<1>7. Match'
  BY <1>6, ModuleMatches, PTL
<1>8. TypeOK'
  BY <1>1, <1>5 DEF Inv, TypeOK, CallbackTypes, ring
<1>9. QED
  BY <1>4, <1>7, <1>8 DEF Inv

LEMMA MenuMoveInv ==
  ASSUME Inv, Running, NEW btns, MenuMove(btns)
  PROVE  Inv'
<1>1. /\ ~editmode /\ menumode /\ item' \in {next[item], prev[item]}
      /\ UNCHANGED <<ring, menumode, editmode, pos, editor, regs, up, scr, wild,
                     alarm, swatch, unlocked, ps_ok, ps_on, rtc_on>>
  BY DEF MenuMove, edit, lcd
<1>2. item \in added
  BY AllAdded DEF Running
<1>3. item' \in added /\ item' \in App
  BY <1>1, <1>2 DEF Inv, MenuIsWhole, MenuIsRing, TypeOK
<1>4. MenuIsWhole' /\ AtStart' /\ ModInitFirst' /\ ItemAdded'
  <2>1. added' = added
    BY <1>1 DEF ring
  <2>2. QED
    BY <1>1, <1>3, <2>1, ButtonKeepsMenu
<1>5. Hidden /\ rtc_on
  BY <1>1, HiddenInMenu DEF Inv
<1>6. MenuState'
  BY <1>1, <1>5 DEF Inv, TypeOK, MenuState, CallbackTypes, Hidden
<1>7. Match'
  BY <1>6, MenuMatches, PTL
<1>8. TypeOK'
  BY <1>1, <1>3 DEF Inv, TypeOK, ring
<1>9. QED
  BY <1>4, <1>7, <1>8 DEF Inv

LEMMA StarLongInv ==
  ASSUME Inv, Running, NEW btns, StarLong(btns)
  PROVE  Inv'
<1>1. /\ ~editmode /\ ~menumode /\ Items(item) > 0
      /\ pos' = 0 /\ editor' = item /\ editmode' = TRUE
      /\ rtc_on' = (rtc_on /\ item # "CLOCK")
      /\ IF item \in {"CLOCK", "TEMPERATURE", "ALTITUDE"}
         THEN lcd_screen_activate(1) ELSE UNCHANGED <<up, scr, wild>>
      /\ UNCHANGED <<ring, item, menumode, regs, alarm, swatch, unlocked,
                     ps_ok, ps_on>>
  BY DEF StarLong, InModule, menu, NoScreens, lcd
<1>2. added # {} /\ item \in App
  BY AllAdded DEF Running, Inv, TypeOK
<1>3. ShowsUp(item) /\ rtc_on
  BY <1>1, <1>2, ShowsUpInModule DEF Inv
<1>4. /\ MenuIsWhole' /\ AtStart' /\ ModInitFirst' /\ ItemAdded' /\ added' = added
  BY <1>1, ButtonKeepsMenu
<1>5. /\ UNCHANGED <<up, wild>> /\ scr' \in {0, 1} /\ (scr' # 0 => up)
      /\ scr' # 0 => item \in {"CLOCK", "TEMPERATURE", "ALTITUDE"}
  <2>1. CASE item \in {"CLOCK", "TEMPERATURE", "ALTITUDE"}
    <3>1. up /\ wild \in BOOLEAN
      BY <1>3, <2>1 DEF ShowsUp, Inv, TypeOK
    <3>2. QED
      BY <1>1, <2>1, <3>1 DEF lcd_screen_activate
  <2>2. CASE item \notin {"CLOCK", "TEMPERATURE", "ALTITUDE"}
    BY <1>1, <1>3, <2>2 DEF ShowsUp, Inv, TypeOK
  <2>3. QED
    BY <2>1, <2>2
<1>6. rtc_on' \in BOOLEAN /\ (rtc_on' <=> item # "CLOCK")
  BY <1>1, <1>3
<1>7. TypeOK'
  BY <1>1, <1>2, <1>5, <1>6 DEF Inv, TypeOK, ring
<1>8. \A a : Shown(a)' <=> Shown(a)
  BY <1>1, <1>4 DEF Shown
<1>9. Match'
  <2>1. ListenersMatch' /\ StopwatchInFront'
    BY <1>1, <1>8 DEF Inv, Match, ListenersMatch, Listens, StopwatchInFront
  <2>7. ScreensExist'
    <3>1. Shown(item)
      BY <1>1, <1>2 DEF Shown
    <3>2. QED
      BY <1>5, <1>8, <3>1 DEF Inv, Match, ScreensExist
  <2>2. EditIsOfShown'
    <3>1. Items(item) \in 0..5
      BY DEF Items
    <3>2. QED
      BY <1>1, <1>2, <1>8, <3>1 DEF EditIsOfShown, Shown
  <2>3. RtcStopsForEdit'
    BY <1>1, <1>6 DEF RtcStopsForEdit
  <2>4. SensorMatches' /\ NothingWild'
    BY <1>1, <1>5, <1>8 DEF Inv, Match, ShownMatches, SensorMatches, NothingWild
  <2>5. DrawnIsShown'
    BY <1>1, <1>5 DEF DrawnIsShown
  <2>6. QED
    BY <2>1, <2>2, <2>3, <2>4, <2>5, <2>7 DEF Match, ShownMatches
<1>10. QED
  BY <1>4, <1>7, <1>9 DEF Inv

LEMMA MenuOpenInv ==
  ASSUME Inv, Running, NEW btns, MenuOpen(btns)
  PROVE  Inv'
<1>1. /\ ~editmode /\ ~menumode /\ menumode' = TRUE /\ Deactivated(item)
      /\ UNCHANGED <<item, ring, editmode, pos, editor, alarm, ps_ok, rtc_on>>
  BY DEF MenuOpen, InModule, edit
<1>2. PICK s \in App : s = item
  BY DEF Inv, TypeOK
<1>3. added # {}
  BY AllAdded DEF Running
<1>4. ShowsUp(s) /\ rtc_on
  BY <1>1, <1>2, <1>3, ShowsUpInModule DEF Inv
<1>5. CallbackTypes' /\ Hidden'
  BY <1>1, <1>2, <1>4, DeactivatedHides DEF Inv
<1>6. MenuIsWhole' /\ AtStart' /\ ModInitFirst' /\ ItemAdded'
  BY <1>1, ButtonKeepsMenu
<1>7. MenuState'
  BY <1>1, <1>4, <1>5 DEF MenuState, Inv, TypeOK
<1>8. Match'
  BY <1>7, MenuMatches, PTL
<1>9. TypeOK'
  BY <1>1, <1>5 DEF Inv, TypeOK, CallbackTypes, ring
<1>10. QED
  BY <1>6, <1>8, <1>9 DEF Inv

\* NUM: the other screen of the clock, the next alarm, the stop watch.
LEMMA NumShortInv ==
  ASSUME Inv, Running, NEW btns, NumShort(btns)
  PROVE  Inv'
<1>1. /\ ~editmode /\ ~menumode
      /\ \/ /\ item = "CLOCK" /\ lcd_screen_activate(1 - scr)
            /\ UNCHANGED <<regs, alarm, swatch>>
         \/ /\ item = "ALARM" /\ alarm' = NextAlarm
            /\ IF alarm' # 0 THEN sys_messagebus_register(item)
                             ELSE sys_messagebus_unregister(item)
            /\ UNCHANGED <<up, scr, wild, swatch>>
         \/ /\ item = "STOPWATCH"
            /\ swatch' = IF swatch = "OFF" THEN "ON" ELSE "OFF"
            /\ UNCHANGED <<up, scr, wild, regs, alarm>>
      /\ UNCHANGED <<ring, item, menumode, editmode, pos, editor, unlocked,
                     ps_ok, ps_on, rtc_on>>
  BY DEF NumShort, InModule, menu, edit, NoScreens, lcd
<1>2. added # {} /\ item \in App
  BY AllAdded DEF Running, Inv, TypeOK
<1>3. ShowsUp(item) /\ rtc_on
  BY <1>1, <1>2, ShowsUpInModule DEF Inv
<1>4. /\ MenuIsWhole' /\ AtStart' /\ ModInitFirst' /\ ItemAdded' /\ added' = added
  BY <1>1, ButtonKeepsMenu
<1>5. /\ alarm' \in 0..3 /\ regs' \in [App -> 0..3]
      /\ swatch' \in {"OFF", "ON", "BACKGROUND"}
      /\ scr' \in {0, 1} /\ UNCHANGED <<up, wild>>
      /\ ShowsUp(item)'
  <2>1. CASE item = "CLOCK"
    <3>1. up /\ wild = FALSE
      BY <1>3, <2>1 DEF ShowsUp, Inv, TypeOK
    <3>2. /\ UNCHANGED <<regs, alarm, swatch, up, wild>> /\ scr' = 1 - scr
          /\ scr' \in {0, 1}
      BY <1>1, <2>1, <3>1 DEF lcd_screen_activate, Inv, TypeOK
    <3>3. ShowsUp(item)'
      BY <1>1, <1>3, <2>1, <3>1, <3>2 DEF ShowsUp
    <3>4. QED
      BY <3>2, <3>3 DEF Inv, TypeOK
  <2>2. CASE item = "ALARM"
    <3>1. /\ alarm' = (alarm + 1) % 4 /\ alarm \in 0..3 /\ regs["ALARM"] = alarm
          /\ IF alarm' # 0 THEN regs' = [regs EXCEPT !["ALARM"] = @ + 1]
                           ELSE regs' = [regs EXCEPT !["ALARM"] = 0]
          /\ regs \in [App -> 0..3] /\ "ALARM" \in App
          /\ UNCHANGED <<up, scr, wild, swatch>>
      BY <1>1, <1>2, <1>3, <2>2 DEF NextAlarm, ShowsUp, Inv, TypeOK,
         sys_messagebus_register, sys_messagebus_unregister
    <3>2. alarm' \in 0..3 /\ (alarm' # 0 => alarm' = alarm + 1)
      BY <3>1
    <3>3. /\ regs' \in [App -> 0..3] /\ regs'["ALARM"] = alarm'
          /\ \A a \in App : a # "ALARM" => regs'[a] = regs[a]
      BY <3>1, <3>2
    <3>4. ShowsUp(item)'
      BY <1>1, <1>3, <2>2, <3>1, <3>3 DEF ShowsUp
    <3>5. QED
      BY <3>1, <3>2, <3>3, <3>4 DEF Inv, TypeOK
  <2>3. CASE item = "STOPWATCH"
    <3>1. /\ swatch' \in {"OFF", "ON"} /\ UNCHANGED <<up, scr, wild, regs, alarm>>
      BY <1>1, <2>3
    <3>2. ShowsUp(item)'
      BY <1>1, <1>3, <2>3, <3>1 DEF ShowsUp
    <3>3. QED
      BY <3>1, <3>2 DEF Inv, TypeOK
  <2>4. QED
    BY <1>1, <2>1, <2>2, <2>3
<1>6. TypeOK'
  BY <1>1, <1>5 DEF Inv, TypeOK, ring
<1>7. ModuleState'
  BY <1>1, <1>2, <1>3, <1>4, <1>5, <1>6 DEF ModuleState, CallbackTypes, TypeOK
<1>8. Match'
  BY <1>7, ModuleMatches, PTL
<1>9. QED
  BY <1>4, <1>6, <1>8 DEF Inv

LEMMA RfbslDownInv ==
  ASSUME Inv, Running, NEW btns, RfbslDown(btns)
  PROVE  Inv'
<1>1. /\ unlocked' = ~unlocked
      /\ UNCHANGED <<ring, item, menumode, editmode, pos, editor, regs, up, scr,
                     wild, alarm, swatch, ps_ok, ps_on, rtc_on>>
  BY DEF RfbslDown, menu, edit, lcd
<1>2. /\ MenuIsWhole' /\ AtStart' /\ ModInitFirst' /\ ItemAdded' /\ added' = added
  BY <1>1, ButtonKeepsMenu
<1>3. TypeOK'
  <2>1. unlocked' \in BOOLEAN
    BY <1>1
  <2>2. QED
    BY <1>1, <2>1 DEF Inv, TypeOK, ring
<1>4. Match'
  BY <1>1, <1>2 DEF Inv, Match, ListenersMatch, ShownMatches, EditIsOfShown,
     RtcStopsForEdit, SensorMatches, DrawnIsShown, NothingWild, Listens,
     StopwatchInFront, ScreensExist, Shown
<1>5. QED
  BY <1>2, <1>3, <1>4 DEF Inv

\* The boot loader starts the watch anew.
LEMMA RfbslUpInv ==
  ASSUME NEW btns, RfbslUp(btns)
  PROVE  Inv'
<1>1. Init'
  BY DEF RfbslUp, Init
<1>2. QED
  BY <1>1, InitInv, PTL

LEMMA StutterInv == Inv /\ UNCHANGED vars => Inv'
<1> SUFFICES ASSUME Inv, UNCHANGED vars PROVE Inv'
  OBVIOUS
<1> USE DEF vars, ring, menu, edit, lcd
<1>1. MenuIsWhole'
  BY RingKept DEF Inv
<1>2. TypeOK' /\ AtStart' /\ ModInitFirst' /\ ItemAdded'
  BY DEF Inv, TypeOK, AtStart, ModInitFirst, ItemAdded
<1>3. Match'
  BY DEF Inv, Match, ListenersMatch, ShownMatches, EditIsOfShown,
     RtcStopsForEdit, SensorMatches, DrawnIsShown, NothingWild, Listens,
     StopwatchInFront, ScreensExist, Shown
<1>4. QED
  BY <1>1, <1>2, <1>3 DEF Inv

LEMMA NextInv == Inv /\ [Next]_vars => Inv'
<1> SUFFICES ASSUME Inv, [Next]_vars PROVE Inv'
  OBVIOUS
<1>1. CASE menu_add_entry
  BY <1>1, AddEntryInv
<1>2. ASSUME NEW btns \in SUBSET Button, check_buttons(btns) PROVE Inv'
  BY <1>2, EditDoneInv, EditNextItemInv, MenuEnterInv, MenuMoveInv, StarLongInv,
     MenuOpenInv, NumShortInv, RfbslDownInv, RfbslUpInv DEF check_buttons
<1>3. CASE UNCHANGED vars
  BY <1>3, StutterInv
<1>4. QED
  BY <1>1, <1>2, <1>3 DEF Next

-----------------------------------------------------------------------------
(* Theorems.                                                               *)

LEMMA InvAlways == Spec => []Inv
BY InitInv, NextInv, PTL DEF Spec

\* The menu, the modules and what they share always have their types.
THEOREM TypeCorrect == Spec => []TypeOK
<1>1. Inv => TypeOK
  BY DEF Inv
<1>2. QED
  BY <1>1, InvAlways, PTL

\* Whatever modules are compiled in, UP walks all of them in the order of
\* mod_init, and DOWN walks back.
THEOREM MenuIsAlwaysWhole == Spec => []MenuIsWhole
<1>1. Inv => MenuIsWhole
  BY DEF Inv
<1>2. QED
  BY <1>1, InvAlways, PTL

\* No way in and out of the modules doubles or loses a registration on the
\* message bus.
THEOREM ListenersAlwaysMatch == Spec => []ListenersMatch
<1>1. Inv => ListenersMatch
  BY DEF Inv, Match
<1>2. QED
  BY <1>1, InvAlways, PTL

\* The edit mode, the RTC, the pressure sensor and the virtual screens are
\* always as the module that is shown needs them.
THEOREM ShownAlwaysMatches == Spec => []ShownMatches
<1>1. Inv => ShownMatches
  BY DEF Inv, Match
<1>2. QED
  BY <1>1, InvAlways, PTL

\* The lock of the boot loader is closed by every step that brings RFBSL up.
THEOREM BslAlwaysRelocked == Spec => BslRelocked
<1>1. ASSUME [Next]_vars, ~Shown("RFBSL"), Shown("RFBSL")'
      PROVE  ~unlocked'
  <2> USE DEF ring, menu, edit, Shown
  <2>1. CASE menu_add_entry
    <3>1. added = {} \/ (added # {} /\ UNCHANGED item)
      BY <2>1 DEF menu_add_entry
    <3>2. added = {}
      BY <1>1, <2>1, <3>1 DEF menu_add_entry
    <3>3. Activated(Head(todo)) /\ item' = Head(todo)
      BY <2>1, <3>2 DEF menu_add_entry
    <3>4. Head(todo) = "RFBSL"
      BY <1>1, <3>3
    <3>5. rfbsl_activated
      BY <3>3, <3>4 DEF Activated
    <3>6. QED
      BY <3>5 DEF rfbsl_activated
  <2>2. ASSUME NEW btns, MenuEnter(btns) PROVE ~unlocked'
    <3>1. item = "RFBSL"
      BY <1>1, <2>2 DEF MenuEnter
    <3>2. item \notin NullActivate
      BY <3>1, AppsAssumption DEF Known
    <3>3. rfbsl_activated
      BY <2>2, <3>1, <3>2 DEF MenuEnter, Activated
    <3>4. QED
      BY <3>3 DEF rfbsl_activated
  <2>3. ASSUME NEW btns, MenuMove(btns) \/ MenuOpen(btns) PROVE FALSE
    BY <1>1, <2>3 DEF MenuMove, MenuOpen
  <2>4. ASSUME NEW btns, \/ EditDone(btns) \/ EditNextItem(btns) \/ StarLong(btns)
                         \/ NumShort(btns) \/ RfbslDown(btns)
        PROVE  FALSE
    BY <1>1, <2>4 DEF EditDone, EditNextItem, StarLong, NumShort, RfbslDown
  <2>5. ASSUME NEW btns, RfbslUp(btns) PROVE FALSE
    BY <1>1, <2>5 DEF RfbslUp
  <2>6. CASE UNCHANGED vars
    BY <1>1, <2>6 DEF vars
  <2>7. QED
    BY <1>1, <2>1, <2>2, <2>3, <2>4, <2>5, <2>6 DEF Next, check_buttons
<1>2. [Next]_vars => [~Shown("RFBSL") /\ Shown("RFBSL")' => ~unlocked']_vars
  BY <1>1
<1>3. QED
  BY <1>2, PTL DEF Spec, BslRelocked
=============================================================================
