---------------------------- MODULE Modules_proofs ----------------------------
(***************************************************************************)
(* Theorems about Modules, for any heap, registrations, dates, times and   *)
(* lengths of the fields.  Each part has an inductive invariant of its     *)
(* own; the theorems at the end put them together.                         *)
(***************************************************************************)
EXTENDS Modules, FiniteSetTheorems, SequenceTheorems, WellFoundedInduction, TLAPS

-----------------------------------------------------------------------------
(* The virtual screens, for any contents, any number of screens and any    *)
(* heap: types, places and blocks, which need each other.                  *)

\* What the definitions of the constants give.
LEMMA ScreensFacts ==
  /\ BlankScreen \in Content /\ MaxScreens \in Nat \ {0} /\ LCD \notin Block
  /\ \A nr \in S!Nr : \A s \in [0..nr - 1 -> S!Place] : s # NoScreens /\ DOMAIN s = 0..nr - 1
BY ModulesAssumption DEF S!ScreensAssumption, S!Nr, S!Place

\* The screens there are, and where.
LEMMA ScreensUp ==
  ASSUME S!TypeOK, S!Up
  PROVE  \E nr \in S!Nr : /\ display_screens \in [0..nr - 1 -> S!Place] /\ S!Scr = 0..nr - 1
                        /\ 0 \in S!Scr /\ display_activescr \in S!Scr
                        /\ S!Scr \subseteq 0..MaxScreens - 1
<1>1. PICK nr \in S!Nr : display_screens \in [0..nr - 1 -> S!Place]
  BY DEF S!TypeOK, S!Up
<1>2. S!Scr = 0..nr - 1 /\ display_activescr \in S!Scr
  BY <1>1 DEF S!Scr, S!TypeOK
<1>3. nr \in 1..MaxScreens /\ MaxScreens \in Nat
  BY ScreensFacts DEF S!Nr
<1> QED
  BY <1>1, <1>2, <1>3

ScreensInv == S!TypeOK /\ S!ScreensApart /\ S!NoLeak

LEMMA ScreensInit ==
  ASSUME S!Init
  PROVE  ScreensInv
BY ScreensFacts DEF S!Init, ScreensInv, S!TypeOK, S!ScreensApart, S!NoLeak, S!Up

LEMMA CreateInv ==
  ASSUME ScreensInv, NEW nr \in S!Nr, S!lcd_screens_create(nr)
  PROVE  ScreensInv'
<1>1. PICK new \in [1..nr - 1 -> Block \ screens_live] :
        /\ \A i, j \in 1..nr - 1 : new[i] = new[j] => i = j
        /\ display_screens' = [i \in 0..nr - 1 |-> IF i = 0 THEN LCD ELSE new[i]]
        /\ mem' = S!CopiedTo({new[i] : i \in 1..nr - 1})
        /\ screens_live' = screens_live \cup {new[i] : i \in 1..nr - 1}
  BY DEF S!lcd_screens_create
<1>2. nr \in Nat \ {0}
  BY ScreensFacts DEF S!Nr
<1>3. \A i \in 0..nr - 1 : i # 0 => i \in 1..nr - 1 /\ new[i] \in Block /\ new[i] \notin screens_live
  BY <1>1, <1>2
<1>4. display_screens' \in [0..nr - 1 -> S!Place]
  BY <1>1, <1>3 DEF S!Place
<1>5. S!Up' /\ S!Scr' = 0..nr - 1 /\ 0 \in 0..nr - 1
  BY <1>2, <1>4, ScreensFacts DEF S!Up, S!Scr
<1>6. display_activescr' = 0 /\ lcd' = lcd /\ untidy' = (untidy \/ S!Up)
  BY DEF S!lcd_screens_create
<1>7. screens_live' \subseteq Block /\ mem' \in [Block -> Content]
  BY <1>1 DEF ScreensInv, S!TypeOK, S!CopiedTo
<1>8. S!TypeOK'
  <2>1. untidy' \in BOOLEAN
    BY <1>6 DEF ScreensInv, S!TypeOK
  <2> QED
    BY <1>4, <1>5, <1>6, <1>7, <2>1 DEF ScreensInv, S!TypeOK
<1>9. S!ScreensApart'
  <2>1. \A i \in 0..nr - 1 : display_screens'[i] = IF i = 0 THEN LCD ELSE new[i]
    BY <1>1
  <2>2. \A i \in 0..nr - 1 : display_screens'[i] = LCD <=> i = 0
    BY <1>3, <2>1, ScreensFacts
  <2>3. \A i \in 0..nr - 1 : i # 0 => display_screens'[i] \in screens_live'
    BY <1>1, <1>3, <2>1
  <2>4. \A i, j \in 0..nr - 1 : display_screens'[i] = display_screens'[j] => i = j
    BY <1>1, <1>3, <2>1, <2>2
  <2> QED
    BY <1>5, <1>6, <2>2, <2>3, <2>4 DEF S!ScreensApart
<1>10. S!NoLeak'
  <2> SUFFICES ASSUME ~untidy'
               PROVE  screens_live' = {display_screens'[i] : i \in 0..nr - 1} \ {LCD}
    BY <1>5 DEF S!NoLeak
  <2>1. screens_live = {}
    BY <1>6 DEF ScreensInv, S!NoLeak
  <2>2. \A i \in 0..nr - 1 : display_screens'[i] = IF i = 0 THEN LCD ELSE new[i]
    BY <1>1
  <2>3. screens_live' = {new[i] : i \in 1..nr - 1} /\ LCD \notin screens_live'
    BY <1>1, <1>7, <2>1, ScreensFacts
  <2>4. 1..nr - 1 \subseteq 0..nr - 1 /\ \A i \in 1..nr - 1 : i # 0
    BY <1>2
  <2> QED
    BY <1>3, <2>2, <2>3, <2>4
<1> QED
  BY <1>8, <1>9, <1>10 DEF ScreensInv

\* Showing another screen, or the same again.
LEMMA SwapInv ==
  ASSUME ScreensInv, S!Up, NEW scr \in S!Scr, NEW b \in Block \ screens_live, S!SwapIn(scr, b)
  PROVE  ScreensInv'
<1> DEFINE a == display_activescr
           scr1 == [display_screens EXCEPT ![a] = b]
           mem1 == [mem EXCEPT ![b] = lcd]
<1>1. PICK nr \in S!Nr : /\ display_screens \in [0..nr - 1 -> S!Place] /\ S!Scr = 0..nr - 1
                       /\ 0 \in S!Scr /\ a \in S!Scr
  BY ScreensUp DEF ScreensInv
<1>2. /\ mem' = mem1 /\ lcd' = mem1[scr1[scr]]
      /\ screens_live' = (screens_live \cup {b}) \ {scr1[scr]}
      /\ display_screens' = [scr1 EXCEPT ![scr] = LCD]
      /\ display_activescr' = scr /\ untidy' = untidy
  BY DEF S!SwapIn
<1>3. /\ \A i \in S!Scr : (display_screens[i] = LCD) <=> (i = a)
      /\ \A i \in S!Scr : i # a => display_screens[i] \in screens_live
      /\ \A i, j \in S!Scr : display_screens[i] = display_screens[j] => i = j
      /\ screens_live \subseteq Block /\ mem \in [Block -> Content] /\ lcd \in Content
  BY DEF ScreensInv, S!ScreensApart, S!TypeOK
<1>4. scr1[scr] = IF scr = a THEN b ELSE display_screens[scr]
  BY <1>1
<1>5. display_screens' \in [0..nr - 1 -> S!Place] /\ S!Up' /\ S!Scr' = S!Scr
  <2>1. display_screens' \in [0..nr - 1 -> S!Place]
    BY <1>1, <1>2 DEF S!Place
  <2> QED
    BY <1>1, <2>1, ScreensFacts DEF S!Up, S!Scr
<1>6. \A i \in S!Scr : display_screens'[i] = IF i = scr THEN LCD
                                          ELSE IF i = a THEN b ELSE display_screens[i]
  BY <1>1, <1>2
<1>7. scr1[scr] \in Block /\ lcd' \in Content /\ mem' \in [Block -> Content]
      /\ screens_live' \subseteq Block
  <2>1. scr1[scr] \in Block
    BY <1>3, <1>4
  <2> QED
    BY <1>2, <1>3, <2>1
<1>8. S!TypeOK'
  BY <1>1, <1>2, <1>5, <1>7 DEF ScreensInv, S!TypeOK
<1>9. S!ScreensApart'
  <2>1. \A i \in S!Scr : display_screens'[i] = LCD <=> i = scr
    BY <1>3, <1>6, ScreensFacts
  <2>2. ASSUME NEW i \in S!Scr, i # scr
        PROVE  display_screens'[i] \in screens_live'
    <3>1. display_screens'[i] = IF i = a THEN b ELSE display_screens[i]
      BY <1>6, <2>2
    <3>2. display_screens'[i] # scr1[scr]
      BY <1>3, <1>4, <2>2, <3>1
    <3>3. display_screens'[i] \in screens_live \cup {b}
      BY <1>3, <3>1
    <3> HIDE DEF scr1
    <3> QED
      BY <1>2, <3>2, <3>3
  <2>3. \A i, j \in S!Scr : display_screens'[i] = display_screens'[j] => i = j
    BY <1>3, <1>6, <2>1
  <2> QED
    BY <1>2, <1>5, <2>1, <2>2, <2>3 DEF S!ScreensApart
<1>10. S!NoLeak'
  <2> SUFFICES ASSUME ~untidy
               PROVE  screens_live' = {display_screens'[i] : i \in S!Scr} \ {LCD}
    BY <1>2, <1>5 DEF S!NoLeak
  <2>1. screens_live = {display_screens[i] : i \in S!Scr} \ {LCD}
    BY DEF ScreensInv, S!NoLeak
  <2>2. ASSUME NEW p \in screens_live'
        PROVE  p \in {display_screens'[i] : i \in S!Scr} \ {LCD}
    <3>1. p # LCD
      BY <1>7, ScreensFacts
    <3>2. CASE p = b
      <4>1. scr # a
        BY <1>2, <1>4, <3>2
      <4> QED
        BY <1>1, <1>6, <3>1, <3>2, <4>1
    <3>3. CASE p # b
      <4>1. PICK i \in S!Scr : p = display_screens[i] /\ i # a
        BY <1>2, <1>3, <2>1, <3>1, <3>3
      <4>2. i # scr
        BY <1>2, <1>4, <4>1
      <4> QED
        BY <1>6, <3>1, <4>1, <4>2
    <3> QED
      BY <3>2, <3>3
  <2>3. ASSUME NEW i \in S!Scr, display_screens'[i] # LCD
        PROVE  display_screens'[i] \in screens_live'
    BY <1>9, <1>2, <1>5, <2>3 DEF S!ScreensApart
  <2> QED
    BY <2>2, <2>3
<1> QED
  BY <1>8, <1>9, <1>10 DEF ScreensInv

LEMMA DestroyInv ==
  ASSUME ScreensInv, S!lcd_screens_destroy
  PROVE  ScreensInv'
<1> DEFINE a == display_activescr
           freed == {display_screens[i] : i \in S!Scr \ {0, a}}
<1>1. S!Up
  BY DEF S!lcd_screens_destroy
<1>2. PICK nr \in S!Nr : /\ display_screens \in [0..nr - 1 -> S!Place] /\ S!Scr = 0..nr - 1
                       /\ 0 \in S!Scr /\ a \in S!Scr
  BY <1>1, ScreensUp DEF ScreensInv
<1>3. PICK b \in Block \ screens_live :
        /\ mem' = [mem EXCEPT ![b] = lcd]
        /\ screens_live' = screens_live \ (IF a = 0 THEN freed ELSE freed \cup {display_screens[0]})
  BY DEF S!lcd_screens_destroy
<1>4. /\ lcd' = IF a = 0 THEN lcd ELSE mem[display_screens[0]]
      /\ display_screens' = NoScreens /\ display_activescr' = 0 /\ untidy' = untidy
  BY DEF S!lcd_screens_destroy
<1>5. /\ \A i \in S!Scr : (display_screens[i] = LCD) <=> (i = a)
      /\ \A i \in S!Scr : i # a => display_screens[i] \in screens_live
      /\ screens_live \subseteq Block /\ mem \in [Block -> Content] /\ lcd \in Content
  BY <1>1 DEF ScreensInv, S!ScreensApart, S!TypeOK
<1>6. lcd' \in Content
  BY <1>2, <1>4, <1>5
<1>7. S!TypeOK' /\ S!ScreensApart'
  BY <1>3, <1>4, <1>5, <1>6 DEF ScreensInv, S!TypeOK, S!ScreensApart, S!Up
<1>8. S!NoLeak'
  <2> SUFFICES ASSUME ~untidy, NEW p \in screens_live'
               PROVE  FALSE
    BY <1>4 DEF S!NoLeak, S!Up
  <2>1. p \in screens_live /\ p \in {display_screens[i] : i \in S!Scr} \ {LCD}
    BY <1>1, <1>3 DEF ScreensInv, S!NoLeak
  <2>2. PICK i \in S!Scr : p = display_screens[i] /\ i # a
    BY <1>5, <2>1
  <2>3. i # 0
    BY <1>3, <2>2
  <2> QED
    BY <1>3, <2>2, <2>3
<1> QED
  BY <1>7, <1>8 DEF ScreensInv

LEMMA DrawInv ==
  ASSUME ScreensInv, NEW scr \in 0..MaxScreens - 1, NEW c \in Content, S!Draw(scr, c)
  PROVE  ScreensInv'
<1>1. /\ screens_live' = screens_live /\ display_screens' = display_screens /\ untidy' = untidy
      /\ display_activescr' = display_activescr
  BY DEF S!Draw
<1>2. lcd' \in Content /\ mem' \in [Block -> Content]
  BY DEF S!Draw, ScreensInv, S!TypeOK
<1> QED
  BY <1>1, <1>2 DEF ScreensInv, S!TypeOK, S!ScreensApart, S!NoLeak, S!Up, S!Scr

\* A screen that is shown by number or by helpers_loop is a swap.
LEMMA ActivateSwaps ==
  ASSUME S!TypeOK,
         S!ActivateNext \/ \E scr \in 0..MaxScreens - 1 : S!lcd_screen_activate(scr)
  PROVE  S!Up /\ \E scr \in S!Scr : scr \in 0..MaxScreens - 1
                 /\ \E b \in Block \ screens_live : S!SwapIn(scr, b)
<1>1. S!Up
  BY DEF S!ActivateNext, S!lcd_screen_activate
<1>2. S!Scr \subseteq 0..MaxScreens - 1
  BY <1>1, ScreensUp
<1>3. PICK scr : S!lcd_screen_activate(scr)
  BY DEF S!ActivateNext
<1> QED
  BY <1>1, <1>2, <1>3 DEF S!lcd_screen_activate

LEMMA ScreensStep ==
  ASSUME ScreensInv, [S!Next]_(S!vars)
  PROVE  ScreensInv'
<1>1. ASSUME NEW nr \in S!Nr, S!lcd_screens_create(nr) PROVE ScreensInv'
  BY <1>1, CreateInv
<1>2. CASE S!lcd_screens_destroy
  BY <1>2, DestroyInv
<1>3. CASE S!ActivateNext \/ \E scr \in 0..MaxScreens - 1 : S!lcd_screen_activate(scr)
  BY <1>3, ActivateSwaps, SwapInv DEF ScreensInv
<1>4. ASSUME NEW scr \in 0..MaxScreens - 1, NEW c \in Content, S!Draw(scr, c) PROVE ScreensInv'
  BY <1>4, DrawInv
<1>5. CASE UNCHANGED S!vars
  BY <1>5 DEF S!vars, ScreensInv, S!TypeOK, S!ScreensApart, S!NoLeak, S!Up, S!Scr
<1> QED
  BY <1>1, <1>2, <1>3, <1>4, <1>5 DEF S!Next

Contents ==
  IF S!Up THEN [i \in S!Scr |-> S!At(display_screens[i])] ELSE [i \in {0} |-> lcd]

\* What the LCD shows is the active screen.
LEMMA LcdIsActive ==
  ASSUME ScreensInv
  PROVE  display_activescr \in DOMAIN Contents /\ Contents[display_activescr] = lcd
<1>1. CASE S!Up
  BY <1>1, ScreensUp DEF Contents, ScreensInv, S!ScreensApart, S!At
<1>2. CASE ~S!Up
  BY <1>2 DEF Contents, ScreensInv, S!TypeOK
<1> QED
  BY <1>1, <1>2

LEMMA CreateIsCreate ==
  ASSUME ScreensInv, NEW nr \in S!Nr, S!lcd_screens_create(nr)
  PROVE  Contents' = [i \in 0..nr - 1 |-> Contents[display_activescr]] /\ display_activescr' = 0
<1>1. PICK new \in [1..nr - 1 -> Block \ screens_live] :
        /\ display_screens' = [i \in 0..nr - 1 |-> IF i = 0 THEN LCD ELSE new[i]]
        /\ mem' = S!CopiedTo({new[i] : i \in 1..nr - 1})
  BY DEF S!lcd_screens_create
<1>2. nr \in Nat \ {0}
  BY ScreensFacts DEF S!Nr
<1>3. \A i \in 0..nr - 1 : i # 0 => i \in 1..nr - 1 /\ new[i] \in Block
  BY <1>1, <1>2
<1>4. display_screens' \in [0..nr - 1 -> S!Place]
  BY <1>1, <1>3 DEF S!Place
<1>5. S!Up' /\ S!Scr' = 0..nr - 1
  BY <1>4, ScreensFacts DEF S!Up, S!Scr
<1>6. lcd' = lcd /\ display_activescr' = 0
  BY DEF S!lcd_screens_create
<1>7. ASSUME NEW i \in 0..nr - 1
      PROVE  S!At(display_screens[i])' = lcd
  <2>1. CASE i = 0
    BY <1>1, <1>6, <2>1 DEF S!At
  <2>2. CASE i # 0
    <3>1. display_screens'[i] = new[i] /\ new[i] \in Block /\ new[i] # LCD
      BY <1>1, <1>3, <2>2, ScreensFacts
    <3>2. mem'[new[i]] = lcd
      BY <1>1, <1>3, <2>2 DEF S!CopiedTo
    <3> QED
      BY <3>1, <3>2 DEF S!At
  <2> QED
    BY <2>1, <2>2
<1>8. Contents[display_activescr] = lcd
  BY LcdIsActive
<1> QED
  BY <1>5, <1>6, <1>7, <1>8 DEF Contents

LEMMA SwapIsActivate ==
  ASSUME ScreensInv, S!Up, NEW scr \in S!Scr, NEW b \in Block \ screens_live, S!SwapIn(scr, b)
  PROVE  Contents' = Contents /\ display_activescr' = scr /\ scr \in DOMAIN Contents
<1> DEFINE a == display_activescr
           scr1 == [display_screens EXCEPT ![a] = b]
           mem1 == [mem EXCEPT ![b] = lcd]
<1>1. PICK nr \in S!Nr : /\ display_screens \in [0..nr - 1 -> S!Place] /\ S!Scr = 0..nr - 1
                       /\ a \in S!Scr
  BY ScreensUp DEF ScreensInv
<1>2. /\ mem' = mem1 /\ lcd' = mem1[scr1[scr]]
      /\ display_screens' = [scr1 EXCEPT ![scr] = LCD]
      /\ display_activescr' = scr
  BY DEF S!SwapIn
<1>3. /\ \A i \in S!Scr : (display_screens[i] = LCD) <=> (i = a)
      /\ \A i \in S!Scr : i # a => display_screens[i] \in screens_live
      /\ screens_live \subseteq Block /\ mem \in [Block -> Content]
  BY DEF ScreensInv, S!ScreensApart, S!TypeOK
<1>4. \A i \in S!Scr : display_screens'[i] = IF i = scr THEN LCD
                                          ELSE IF i = a THEN b ELSE display_screens[i]
  BY <1>1, <1>2
<1>5. mem1[b] = lcd /\ \A p \in screens_live : mem1[p] = mem[p]
  BY <1>3
<1>6. scr1[scr] = IF scr = a THEN b ELSE display_screens[scr]
  BY <1>1
<1>7. S!Up' /\ S!Scr' = S!Scr
  <2>1. display_screens' \in [0..nr - 1 -> S!Place]
    BY <1>1, <1>2 DEF S!Place
  <2> QED
    BY <1>1, <2>1, ScreensFacts DEF S!Up, S!Scr
<1> HIDE DEF scr1, mem1
<1>8. ASSUME NEW i \in S!Scr
      PROVE  S!At(display_screens[i])' = S!At(display_screens[i])
  <2>1. CASE i = scr
    BY <1>1, <1>2, <1>3, <1>4, <1>5, <1>6, <2>1, ScreensFacts DEF S!At
  <2>2. CASE i # scr /\ i = a
    BY <1>2, <1>3, <1>4, <1>5, <2>2, ScreensFacts DEF S!At
  <2>3. CASE i # scr /\ i # a
    BY <1>2, <1>3, <1>4, <1>5, <2>3, ScreensFacts DEF S!At
  <2> QED
    BY <2>1, <2>2, <2>3
<1> QED
  BY <1>2, <1>7, <1>8 DEF Contents

LEMMA DestroyIsDestroy ==
  ASSUME ScreensInv, S!lcd_screens_destroy
  PROVE  Contents' = [i \in {0} |-> Contents[0]] /\ display_activescr' = 0
<1>1. S!Up
  BY DEF S!lcd_screens_destroy
<1>2. 0 \in S!Scr
  BY <1>1, ScreensUp DEF ScreensInv
<1>3. /\ lcd' = IF display_activescr = 0 THEN lcd ELSE mem[display_screens[0]]
      /\ ~S!Up' /\ display_activescr' = 0
  BY DEF S!lcd_screens_destroy, S!Up
<1>4. S!At(display_screens[0]) = lcd'
  BY <1>1, <1>2, <1>3 DEF ScreensInv, S!ScreensApart, S!At
<1> QED
  BY <1>1, <1>2, <1>3, <1>4 DEF Contents

LEMMA DrawIsDraw ==
  ASSUME ScreensInv, NEW scr, NEW c \in Content, S!Draw(scr, c)
  PROVE  \E s \in DOMAIN Contents :
           Contents' = [Contents EXCEPT ![s] = c] /\ display_activescr' = display_activescr
<1>1. /\ display_screens' = display_screens /\ S!Up' = S!Up /\ S!Scr' = S!Scr
      /\ display_activescr' = display_activescr
  BY DEF S!Draw, S!Up, S!Scr
<1>2. CASE S!Up
  <2> DEFINE p == display_screens[scr]
  <2>1. scr \in S!Scr /\ lcd' = (IF p = LCD THEN c ELSE lcd)
        /\ mem' = (IF p = LCD THEN mem ELSE [mem EXCEPT ![p] = c])
    BY <1>2 DEF S!Draw
  <2>2. p # LCD => p \in Block
    BY <1>2, <2>1 DEF ScreensInv, S!ScreensApart, S!TypeOK
  <2>3. \A i \in S!Scr : display_screens[i] = p => i = scr
    BY <1>2, <2>1 DEF ScreensInv, S!ScreensApart
  <2>4. mem \in [Block -> Content]
    BY DEF ScreensInv, S!TypeOK
  <2>5. ASSUME NEW i \in S!Scr
        PROVE  S!At(display_screens[i])' = IF i = scr THEN c ELSE S!At(display_screens[i])
    <3> HIDE DEF p
    <3>1. CASE i = scr
      BY <1>1, <2>1, <2>2, <2>4, <3>1 DEF S!At, p
    <3>2. CASE i # scr
      BY <1>1, <2>1, <2>2, <2>3, <2>4, <3>2 DEF S!At
    <3> QED
      BY <3>1, <3>2
  <2>6. Contents' = [Contents EXCEPT ![scr] = c]
    BY <1>1, <1>2, <2>1, <2>5 DEF Contents
  <2> QED
    BY <1>1, <1>2, <2>1, <2>6 DEF Contents
<1>3. CASE ~S!Up
  <2>1. lcd' = c
    BY <1>3 DEF S!Draw
  <2> QED
    BY <1>1, <1>3, <2>1 DEF Contents
<1> QED
  BY <1>2, <1>3


-----------------------------------------------------------------------------
(* The stopwatch, for any number of laps and any limits of the fields.     *)

\* A digit d below M, with prefix P below N, counts on together with it.
LEMMA DigitGoesOn ==
  ASSUME NEW N \in Nat \ {0}, NEW M \in Nat \ {0}, NEW P \in 0..N - 1, NEW d \in 0..M - 1
  PROVE  /\ N * M \in Nat \ {0} /\ P * M + d \in 0..N * M - 1
         /\ (P * M + d + 1) % (N * M) = IF d + 1 < M THEN P * M + (d + 1)
                                                   ELSE ((P + 1) % N) * M + 0
<1>1. P * M + M = (P + 1) * M /\ P * M \in Nat /\ N * M \in Nat
  OBVIOUS
<1>2. \A n \in Nat : n < N => n * M + M <= N * M
  <2> TAKE n \in Nat
  <2> HAVE n < N
  <2>1. PICK k \in Nat : N = n + 1 + k
    <3>1. N = n + 1 + (N - n - 1) /\ N - n - 1 \in Nat
      OBVIOUS
    <3> QED
      BY <3>1
  <2>2. N * M = n * M + M + k * M /\ k * M \in Nat /\ n * M \in Nat
    BY <2>1
  <2> QED
    BY <2>2
<1>3. P * M + M <= N * M
  BY <1>2
<1>4. \A m \in Nat : m < N * M => m % (N * M) = m
  BY <1>1
<1>5. N * M > 0 => (N * M) % (N * M) = 0
  BY <1>1
<1>6. P + 1 < N => (P + 1) * M < N * M
  <2> HAVE P + 1 < N
  <2>1. (P + 1) * M + M <= N * M
    BY <1>2
  <2> QED
    BY <1>1, <2>1
<1> DEFINE Q == P * M
           R == N * M
           T1 == (P + 1) * M
<1>7. Q \in Nat /\ R \in Nat /\ T1 = Q + M /\ Q + M <= R
  BY <1>1, <1>3
<1>8. P + 1 = N => T1 = R
  OBVIOUS
<1> HIDE DEF Q, R, T1
<1>9. Q + d \in 0..R - 1
  BY <1>7
<1>10. d + 1 < M => (Q + d + 1) % R = Q + d + 1
  BY <1>7
<1>11. d + 1 = M /\ P + 1 < N => (Q + d + 1) % R = T1 /\ (P + 1) % N = P + 1
  BY <1>6, <1>7 DEF R, T1
<1>12. d + 1 = M /\ P + 1 = N => (Q + d + 1) % R = 0 /\ (P + 1) % N = 0
  BY <1>7, <1>8
<1>13. T1 \in Nat /\ 0 * M = 0
  BY <1>7
<1>14. R # 0
  BY <1>7
<1> QED
  BY <1>7, <1>9, <1>10, <1>11, <1>12, <1>13, <1>14 DEF Q, R, T1

LEMMA StopwatchFacts ==
  /\ MAX_LAPS \in Nat \ {0} /\ Seconds \in Nat \ {0} /\ Minutes \in Nat \ {0}
  /\ Hours \in Nat \ {0} /\ Cents \in Nat
  /\ Cents \div 5 \in Nat \ {0} /\ Cents = 5 * (Cents \div 5)
<1>1. /\ MAX_LAPS \in Nat \ {0} /\ Seconds \in Nat \ {0} /\ Minutes \in Nat \ {0}
      /\ Hours \in Nat \ {0} /\ Cents \in Nat \ {0} /\ Cents % 5 = 0
  BY ModulesAssumption DEF W!StopwatchAssumption
<1> QED
  BY <1>1

\* A time the stopwatch can have: of whole ticks.
Whole(t) == t \in W!Time /\ t.cents % 5 = 0

\* Its ticks, without a division.
TicksOf(t) ==
  ((t.hours * Minutes + t.minutes) * Seconds + t.seconds) * (Cents \div 5) + (t.cents \div 5)

LEMMA WholeTicks ==
  ASSUME NEW t, Whole(t)
  PROVE  W!Ticks(t) = TicksOf(t) /\ TicksOf(t) \in Nat
<1> DEFINE U == Cents \div 5
           X == (t.hours * Minutes + t.minutes) * Seconds + t.seconds
           u == t.cents \div 5
<1>1. /\ t.hours \in Nat /\ t.minutes \in Nat /\ t.seconds \in Nat
      /\ t.cents \in Nat /\ t.cents = 5 * u /\ u \in Nat
  BY StopwatchFacts DEF Whole, W!Time
<1>2. t.hours * Minutes + t.minutes \in Nat
  BY <1>1, StopwatchFacts
<1>3. X \in Nat
  BY <1>1, <1>2, StopwatchFacts
<1>4. U \in Nat /\ Cents = 5 * U
  BY StopwatchFacts
<1>5. W!Ticks(t) = (X * Cents + t.cents) \div 5
  BY DEF W!Ticks
<1> HIDE DEF U, X, u
<1>6. X * Cents + t.cents = 5 * (X * U + u) /\ X * U + u \in Nat
  BY <1>1, <1>3, <1>4
<1>7. \A n \in Nat : (5 * n) \div 5 = n
  OBVIOUS
<1> QED
  BY <1>5, <1>6, <1>7 DEF TicksOf, U, X, u

\* A message of 20 Hz counts one tick on.
LEMMA LaterCounts ==
  ASSUME NEW t, Whole(t)
  PROVE  /\ Whole(W!Later(t))
         /\ W!Ticks(W!Later(t)) = (W!Ticks(t) + 1) % W!TotalTicks
<1> DEFINE U == Cents \div 5
           u == t.cents \div 5
           h == t.hours
           m == t.minutes
           s == t.seconds
           N2 == Hours * Minutes
           N1 == N2 * Seconds
           X2 == h * Minutes + m
           X1 == X2 * Seconds + s
           L == W!Later(t)
           c1 == u + 1 = U
           c2 == c1 /\ s + 1 = Seconds
           c3 == c2 /\ m + 1 = Minutes
           h1 == IF c3 THEN (h + 1) % Hours ELSE h
           m1 == IF c2 THEN IF c3 THEN 0 ELSE m + 1 ELSE m
           s1 == IF c1 THEN IF c2 THEN 0 ELSE s + 1 ELSE s
           u1 == IF c1 THEN 0 ELSE u + 1
<1>1. /\ h \in 0..Hours - 1 /\ m \in 0..Minutes - 1 /\ s \in 0..Seconds - 1
      /\ t.cents = 5 * u /\ u \in 0..U - 1 /\ U \in Nat \ {0} /\ Cents = 5 * U
  BY StopwatchFacts DEF Whole, W!Time
<1>2. /\ h1 \in 0..Hours - 1 /\ m1 \in 0..Minutes - 1 /\ s1 \in 0..Seconds - 1
      /\ u1 \in 0..U - 1
  BY <1>1, StopwatchFacts
<1>3. L = [hours |-> h1, minutes |-> m1, seconds |-> s1, cents |-> 5 * u1]
  <2> HIDE DEF U, u, h, m, s
  <2>1. (h + 1) % Hours = IF h + 1 >= Hours THEN 0 ELSE h + 1
    BY <1>1, StopwatchFacts
  <2>2. W!Carry(t.cents + 5, Cents) = 5 * u1
    BY <1>1 DEF W!Carry
  <2>3. (5 * u1 = 0) = c1
    BY <1>1
  <2> QED
    BY <1>1, <2>1, <2>2, <2>3, StopwatchFacts DEF W!Later, W!Carry, h, m, s
<1>4. Whole(L) /\ L.cents \div 5 = u1
  <2> HIDE DEF L, U, u, h1, m1, s1, u1
  <2>1. 5 * u1 \in 0..Cents - 1 /\ (5 * u1) % 5 = 0 /\ (5 * u1) \div 5 = u1
    BY <1>1, <1>2
  <2> QED
    BY <1>2, <1>3, <2>1 DEF Whole, W!Time
<1>5. /\ N2 \in Nat \ {0} /\ X2 \in 0..N2 - 1
      /\ (X2 + 1) % N2 = IF m + 1 < Minutes THEN h * Minutes + (m + 1)
                                            ELSE ((h + 1) % Hours) * Minutes + 0
  <2> HIDE DEF h, m
  <2> QED
    BY <1>1, StopwatchFacts, DigitGoesOn
<1>6. /\ N1 \in Nat \ {0} /\ X1 \in 0..N1 - 1
      /\ (X1 + 1) % N1 = IF s + 1 < Seconds THEN X2 * Seconds + (s + 1)
                                            ELSE ((X2 + 1) % N2) * Seconds + 0
  <2> HIDE DEF s, N2, X2
  <2>1. /\ N2 \in Nat \ {0} /\ Seconds \in Nat \ {0}
        /\ X2 \in 0..N2 - 1 /\ s \in 0..Seconds - 1
    BY <1>1, <1>5, StopwatchFacts
  <2> QED
    BY <2>1, DigitGoesOn
<1>7. (X1 * U + u + 1) % (N1 * U) = IF u + 1 < U THEN X1 * U + (u + 1)
                                                 ELSE ((X1 + 1) % N1) * U + 0
  <2> HIDE DEF U, u, N1, X1
  <2>1. N1 \in Nat \ {0} /\ U \in Nat \ {0} /\ X1 \in 0..N1 - 1 /\ u \in 0..U - 1
    BY <1>1, <1>6
  <2> QED
    BY <2>1, DigitGoesOn
<1>8. TicksOf(L) = ((h1 * Minutes + m1) * Seconds + s1) * U + u1
  BY <1>3, <1>4 DEF TicksOf
<1>9. TicksOf(L) = (X1 * U + u + 1) % (N1 * U)
  <2> HIDE DEF U, u, h, m, s, N2, N1, X2
  <2>1. /\ ~c1 <=> u + 1 < U
        /\ c1 => (~c2 <=> s + 1 < Seconds)
        /\ c2 => (~c3 <=> m + 1 < Minutes)
    BY <1>1, StopwatchFacts
  <2>2. CASE ~c1
    BY <1>7, <1>8, <2>1, <2>2 DEF X2
  <2>3. CASE c1 /\ ~c2
    BY <1>6, <1>7, <1>8, <2>1, <2>3 DEF X2
  <2>4. CASE c2 /\ ~c3
    BY <1>5, <1>6, <1>7, <1>8, <2>1, <2>4
  <2>5. CASE c3
    BY <1>5, <1>6, <1>7, <1>8, <2>1, <2>5
  <2> QED
    BY <2>2, <2>3, <2>4, <2>5
<1>10. W!TotalTicks = N1 * U
  <2>1. \A a, b, c, d \in Nat : ((a * b) * c) * d = ((d * c) * b) * a
    OBVIOUS
  <2> QED
    BY <1>1, <2>1, StopwatchFacts DEF W!TotalTicks
<1>11. W!Ticks(L) = TicksOf(L) /\ W!Ticks(t) = X1 * U + u
  BY <1>4, WholeTicks DEF TicksOf
<1> QED
  BY <1>4, <1>9, <1>10, <1>11

\* Who is registered and what is displayed when, and the types of the rest.
StopwatchInv ==
  /\ W!TypeOK /\ W!CountsTicks /\ W!LapsAreKept
  /\ Whole(sSwatch_time[MAX_LAPS]) /\ marks \in Seq(W!Time)
  /\ listeners = IF stopwatch_visible \/ state = "background" THEN 1 ELSE 0
  /\ stopwatch_visible => state # "background"
  /\ ~stopwatch_visible => state # "on" /\ displayed = W!Blank

LEMMA ZeroIsWhole ==
  Whole(W!Zero) /\ W!Ticks(W!Zero) = 0 /\ W!Blank \in W!Time
<1>1. /\ 0 \in 0..Hours - 1 /\ 0 \in 0..Minutes - 1 /\ 0 \in 0..Seconds - 1
      /\ 0 \in 0..Cents - 1 /\ 1 \in 0..Cents - 1 /\ 0 % 5 = 0 /\ 0 \div 5 = 0
  BY StopwatchFacts
<1>2. Whole(W!Zero) /\ W!Blank \in W!Time
  BY <1>1 DEF Whole, W!Zero, W!Blank, W!Time
<1>3. TicksOf(W!Zero) = 0
  <2>1. Cents \div 5 \in Nat
    BY StopwatchFacts
  <2> QED
    BY <1>1, <2>1, StopwatchFacts DEF TicksOf, W!Zero
<1> QED
  BY <1>2, <1>3, WholeTicks

LEMMA StopwatchInit ==
  ASSUME W!Init
  PROVE  StopwatchInv
<1>1. W!SW_COUNTING = MAX_LAPS /\ MAX_LAPS \in 0..MAX_LAPS /\ 0 \in 0..MAX_LAPS - 1
  BY StopwatchFacts DEF W!SW_COUNTING
<1>2. sSwatch_time[MAX_LAPS] = W!Zero /\ sSwatch_time \in [0..MAX_LAPS -> W!Time]
  BY <1>1, ZeroIsWhole DEF W!Init, Whole
<1>3. W!TypeOK
  <2>1. /\ state = "off" /\ laps = 0 /\ lap_act = MAX_LAPS /\ displayed = W!Blank
        /\ stopwatch_visible = FALSE /\ listeners = 0
    BY <1>1 DEF W!Init
  <2>2. W!Blank \in W!Time /\ FALSE \in BOOLEAN /\ 0 \in 0..1
    BY ZeroIsWhole
  <2> QED
    BY <1>1, <1>2, <2>1, <2>2 DEF W!TypeOK
<1>4. W!CountsTicks /\ W!LapsAreKept
  BY <1>1, <1>2, ZeroIsWhole DEF W!Init, W!CountsTicks, W!LapsAreKept
<1> QED
  BY <1>2, <1>3, <1>4, ZeroIsWhole DEF W!Init, StopwatchInv

LEMMA TwentyHzInv ==
  ASSUME StopwatchInv, W!TwentyHz
  PROVE  StopwatchInv'
<1> DEFINE t == sSwatch_time[MAX_LAPS]
<1>1. /\ W!SW_COUNTING = MAX_LAPS /\ MAX_LAPS \in 0..MAX_LAPS
      /\ sSwatch_time \in [0..MAX_LAPS -> W!Time] /\ Whole(t) /\ W!Ticks(t) = ran
      /\ listeners > 0 <=> stopwatch_visible \/ state = "background"
      /\ state # "off" => listeners > 0
  BY StopwatchFacts DEF W!SW_COUNTING, StopwatchInv, W!TypeOK, W!CountsTicks
<1>2. /\ UNCHANGED <<state, laps, lap_act, stopwatch_visible, listeners, marks>>
      /\ ran' = IF state = "off" THEN ran ELSE (ran + 1) % W!TotalTicks
  BY DEF W!TwentyHz, W!conf, W!menu
<1>3. CASE state = "off"
  BY <1>2, <1>3 DEF W!TwentyHz, StopwatchInv, W!TypeOK, W!CountsTicks, W!LapsAreKept
<1>4. CASE state # "off"
  <2>1. /\ sSwatch_time' = [sSwatch_time EXCEPT ![MAX_LAPS] = W!Later(t)]
        /\ displayed' = IF state = "background" THEN displayed ELSE sSwatch_time'[lap_act]
    BY <1>1, <1>4 DEF W!TwentyHz, W!Draw
  <2>2. /\ Whole(W!Later(t)) /\ W!Ticks(W!Later(t)) = ran'
    BY <1>1, <1>2, <1>4, LaterCounts
  <2>3. /\ sSwatch_time' \in [0..MAX_LAPS -> W!Time] /\ sSwatch_time'[MAX_LAPS] = W!Later(t)
        /\ \A i \in 0..MAX_LAPS - 1 : sSwatch_time'[i] = sSwatch_time[i]
    BY <1>1, <2>1, <2>2, StopwatchFacts DEF Whole
  <2>4. displayed' \in W!Time
    BY <2>1, <2>3 DEF StopwatchInv, W!TypeOK
  <2>5. W!TypeOK'
    BY <1>2, <2>3, <2>4 DEF StopwatchInv, W!TypeOK
  <2>6. W!CountsTicks'
    BY <1>1, <2>2, <2>3 DEF W!CountsTicks, W!SW_COUNTING
  <2>7. W!LapsAreKept'
    <3>1. laps <= MAX_LAPS - 1 /\ laps \in Nat
      BY StopwatchFacts DEF StopwatchInv, W!TypeOK
    <3>2. \A i \in 1..laps : sSwatch_time'[i - 1] = marks[i]
      BY <2>3, <3>1, StopwatchFacts DEF StopwatchInv, W!LapsAreKept
    <3>3. displayed' \in {W!Blank, sSwatch_time'[lap_act]}
      BY <2>1 DEF StopwatchInv
    <3> QED
      BY <1>2, <3>2, <3>3 DEF StopwatchInv, W!LapsAreKept, W!SW_COUNTING
  <2> QED
    BY <1>2, <1>4, <2>1, <2>2, <2>3, <2>5, <2>6, <2>7 DEF StopwatchInv
<1> QED
  BY <1>3, <1>4

LEMMA StopwatchMenuInv ==
  ASSUME StopwatchInv, W!stopwatch_activated \/ W!stopwatch_deactivated
  PROVE  StopwatchInv'
<1>1. UNCHANGED <<laps, lap_act, sSwatch_time, ran, marks>>
  BY DEF W!stopwatch_activated, W!stopwatch_deactivated, W!history
<1>2. lap_act \in 0..MAX_LAPS /\ sSwatch_time[lap_act] \in W!Time
  BY DEF StopwatchInv, W!TypeOK
<1>3. /\ state' \in {"off", "on", "background"} /\ stopwatch_visible' \in BOOLEAN
      /\ listeners' = (IF stopwatch_visible' \/ state' = "background" THEN 1 ELSE 0)
      /\ stopwatch_visible' => state' # "background"
      /\ ~stopwatch_visible' => state' # "on" /\ displayed' = W!Blank
      /\ displayed' \in {W!Blank, sSwatch_time[lap_act]}
  <2>1. /\ listeners = IF stopwatch_visible \/ state = "background" THEN 1 ELSE 0
        /\ stopwatch_visible => state # "background"
        /\ ~stopwatch_visible => state # "on" /\ displayed = W!Blank
        /\ displayed \in {W!Blank, sSwatch_time[lap_act]}
        /\ state \in {"off", "on", "background"}
    BY DEF StopwatchInv, W!TypeOK, W!LapsAreKept
  <2>2. CASE W!stopwatch_activated
    BY <2>1, <2>2 DEF W!stopwatch_activated, W!Draw
  <2>3. CASE W!stopwatch_deactivated
    BY <2>1, <2>3 DEF W!stopwatch_deactivated
  <2> QED
    BY <2>2, <2>3
<1>4. displayed' \in W!Time /\ listeners' \in 0..1
  BY <1>2, <1>3, ZeroIsWhole
<1> QED
  BY <1>1, <1>3, <1>4
  DEF StopwatchInv, W!TypeOK, W!CountsTicks, W!LapsAreKept, W!SW_COUNTING

LEMMA LapInv ==
  ASSUME StopwatchInv, W!Lap
  PROVE  StopwatchInv'
<1> DEFINE t == sSwatch_time[MAX_LAPS]
<1>1. /\ laps \in 0..MAX_LAPS - 1 /\ MAX_LAPS \in Nat \ {0} /\ laps = Len(marks)
      /\ sSwatch_time \in [0..MAX_LAPS -> W!Time] /\ marks \in Seq(W!Time) /\ t \in W!Time
      /\ lap_act \in 0..MAX_LAPS /\ (lap_act = MAX_LAPS \/ lap_act < laps)
      /\ \A i \in 1..laps : sSwatch_time[i - 1] = marks[i]
  BY StopwatchFacts DEF StopwatchInv, W!TypeOK, W!LapsAreKept, W!SW_COUNTING
<1>2. UNCHANGED <<state, lap_act, displayed, stopwatch_visible, listeners, ran>>
  BY DEF W!Lap, W!menu
<1>3. /\ sSwatch_time' = [sSwatch_time EXCEPT ![laps] = t]
      /\ IF laps < MAX_LAPS - 1 THEN laps' = laps + 1 /\ marks' = Append(marks, t)
                                ELSE UNCHANGED <<laps, marks>>
  BY DEF W!Lap, W!increment_lap_stopwatch, W!SW_COUNTING
<1> HIDE DEF t
<1>4. /\ sSwatch_time' \in [0..MAX_LAPS -> W!Time] /\ sSwatch_time'[laps] = t
      /\ \A i \in 0..MAX_LAPS : i # laps => sSwatch_time'[i] = sSwatch_time[i]
  BY <1>1, <1>3
<1>5. laps' \in 0..MAX_LAPS - 1 /\ marks' \in Seq(W!Time) /\ laps' = Len(marks') /\ laps <= laps'
  <2>1. Append(marks, t) \in Seq(W!Time) /\ Len(Append(marks, t)) = Len(marks) + 1
    BY <1>1, AppendProperties DEF t
  <2>2. CASE laps < MAX_LAPS - 1
    <3>1. laps' = laps + 1 /\ marks' = Append(marks, t)
      BY <1>3, <2>2
    <3>2. Len(marks') = laps + 1 /\ marks' \in Seq(W!Time)
      BY <1>1, <2>1, <3>1, Zenon
    <3> QED
      BY <1>1, <2>2, <3>1, <3>2
  <2>3. CASE ~(laps < MAX_LAPS - 1)
    BY <1>1, <1>3, <2>3
  <2> QED
    BY <2>2, <2>3
<1>6. \A i \in 1..laps' : sSwatch_time'[i - 1] = marks'[i]
  <2> TAKE i \in 1..laps'
  <2>1. CASE i <= laps
    <3>1. marks'[i] = marks[i]
      <4>1. i \in 1..Len(marks)
        BY <1>1, <2>1
      <4>2. Append(marks, t)[i] = marks[i]
        BY <1>1, <4>1, AppendProperties
      <4>3. marks' = marks \/ marks' = Append(marks, t)
        BY <1>3
      <4> QED
        BY <4>2, <4>3
    <3>2. sSwatch_time'[i - 1] = sSwatch_time[i - 1] /\ i \in 1..laps
      BY <1>1, <1>4, <2>1
    <3> QED
      BY <1>1, <3>1, <3>2
  <2>2. CASE i > laps
    <3>1. i = laps + 1 /\ marks' = Append(marks, t) /\ i - 1 = laps
      BY <1>1, <1>3, <2>2
    <3>2. marks'[i] = t
      BY <1>1, <3>1, AppendProperties
    <3> QED
      BY <1>4, <3>1, <3>2
  <2> QED
    BY <1>1, <1>5, <2>1, <2>2
<1>7. sSwatch_time'[lap_act] = sSwatch_time[lap_act] /\ sSwatch_time'[MAX_LAPS] = t
  BY <1>1, <1>4 DEF t
<1>8. lap_act = MAX_LAPS \/ lap_act < laps'
  BY <1>1, <1>5
<1>9. W!TypeOK'
  BY <1>2, <1>4, <1>5 DEF StopwatchInv, W!TypeOK
<1>10. W!LapsAreKept'
  BY <1>2, <1>5, <1>6, <1>7, <1>8 DEF StopwatchInv, W!LapsAreKept, W!SW_COUNTING
<1>11. W!CountsTicks'
  BY <1>2, <1>7 DEF StopwatchInv, W!CountsTicks, W!SW_COUNTING, t
<1> QED
  BY <1>2, <1>5, <1>7, <1>9, <1>10, <1>11 DEF StopwatchInv, t

LEMMA StopwatchButtonsInv ==
  ASSUME StopwatchInv, W!Browse \/ W!num_press
  PROVE  StopwatchInv'
<1>1. UNCHANGED <<laps, sSwatch_time, stopwatch_visible, listeners, ran, marks>>
  BY DEF W!Browse, W!num_press, W!menu, W!history
<1>2. /\ laps \in 0..MAX_LAPS - 1 /\ lap_act \in 0..MAX_LAPS /\ MAX_LAPS \in Nat \ {0}
      /\ (lap_act = MAX_LAPS \/ lap_act < laps)
      /\ sSwatch_time \in [0..MAX_LAPS -> W!Time] /\ state \in {"off", "on", "background"}
  BY StopwatchFacts DEF StopwatchInv, W!TypeOK, W!LapsAreKept, W!SW_COUNTING
<1>3. /\ stopwatch_visible /\ state # "background"
  BY DEF StopwatchInv, W!Browse, W!num_press
<1>4. /\ state' \in {"off", "on"} /\ displayed' = sSwatch_time[lap_act']
      /\ lap_act' \in 0..MAX_LAPS /\ (lap_act' = MAX_LAPS \/ lap_act' < laps)
  <2>1. CASE W!Browse
    BY <1>2, <1>3, <2>1 DEF W!Browse, W!Below, W!Above, W!Draw
  <2>2. CASE W!num_press
    BY <1>2, <1>3, <2>2 DEF W!num_press, W!Draw, W!SW_COUNTING
  <2> QED
    BY <2>1, <2>2
<1>5. displayed' \in W!Time
  BY <1>2, <1>4
<1> QED
  BY <1>1, <1>3, <1>4, <1>5
  DEF StopwatchInv, W!TypeOK, W!CountsTicks, W!LapsAreKept, W!SW_COUNTING

LEMMA ClearInv ==
  ASSUME StopwatchInv, W!num_long_pressed
  PROVE  StopwatchInv'
<1>1. /\ sSwatch_time' = [sSwatch_time EXCEPT ![MAX_LAPS] = W!Zero]
      /\ laps' = 0 /\ lap_act' = MAX_LAPS /\ ran' = 0 /\ marks' = <<>>
      /\ displayed' = sSwatch_time'[MAX_LAPS]
      /\ UNCHANGED <<state, stopwatch_visible, listeners>>
      /\ stopwatch_visible
  BY DEF W!num_long_pressed, W!SW_COUNTING, W!Draw, W!menu
<1>2. sSwatch_time \in [0..MAX_LAPS -> W!Time] /\ MAX_LAPS \in Nat \ {0} /\ W!Zero \in W!Time
  BY StopwatchFacts, ZeroIsWhole DEF StopwatchInv, W!TypeOK, Whole
<1>3. sSwatch_time' \in [0..MAX_LAPS -> W!Time] /\ sSwatch_time'[MAX_LAPS] = W!Zero
  BY <1>1, <1>2
<1>4. /\ 0 \in 0..MAX_LAPS - 1 /\ MAX_LAPS \in 0..MAX_LAPS /\ 1..0 = {}
      /\ marks' \in Seq(W!Time) /\ Len(marks') = 0
  BY <1>1, <1>2
<1> QED
  BY <1>1, <1>2, <1>3, <1>4, ZeroIsWhole
  DEF StopwatchInv, W!TypeOK, W!CountsTicks, W!LapsAreKept, W!SW_COUNTING

LEMMA StopwatchStep ==
  ASSUME StopwatchInv, [W!Next]_(W!vars)
  PROVE  StopwatchInv'
<1>1. CASE UNCHANGED W!vars
  BY <1>1 DEF W!vars, W!conf, W!menu, W!history, StopwatchInv, W!TypeOK, W!CountsTicks,
     W!LapsAreKept, W!SW_COUNTING
<1> QED
  BY <1>1, TwentyHzInv, StopwatchMenuInv, LapInv, StopwatchButtonsInv, ClearInv DEF W!Next

-----------------------------------------------------------------------------
(* The tide clock, for any time of day it is switched on at or set to.     *)

Byte == {n \in Nat : n < 256}

LEMMA TideFacts ==
  /\ T!Day = 1440 /\ T!Full = 754 /\ T!None = -1
  /\ TideStarts \subseteq 0..T!Day - 1 /\ Entered \subseteq (0..23) \X (0..59)
<1>1. T!TideAssumption
  BY ModulesAssumption
<1>2. T!Day = 1440 /\ T!Full = 754 /\ T!None = -1
  BY DEF T!Day, T!Full, T!None
<1>3. TideStarts \subseteq 0..T!Day - 1 /\ Entered \subseteq (0..23) \X (0..59)
  BY <1>1, Zenon DEF T!TideAssumption
<1> QED
  BY <1>2, <1>3

LEMMA InMinutes ==
  ASSUME NEW h \in Byte, NEW m \in Byte
  PROVE  T!timeInMinutes(h, m) = m + 60 * h
BY DEF T!timeInMinutes, T!Uint16, Byte

LEMMA FromMinutes ==
  ASSUME NEW n \in Nat, n < 65536
  PROVE  LET t == T!timeFromMinutes(n)
         IN /\ t.hours \in Byte /\ t.minutes \in Byte
            /\ n < 1440 => /\ t.hours \in 0..23 /\ t.minutes \in 0..59
                           /\ T!timeInMinutes(t.hours, t.minutes) = n
<1> DEFINE h == (n \div 60) % 256
           m == T!Uint16(n - 60 * h) % 256
<1>1. h \in Byte /\ m \in Byte
  BY DEF Byte, T!Uint16
<1>2. n < 1440 => h = n \div 60 /\ n \div 60 \in 0..23
  OBVIOUS
<1>3. n < 1440 => n - 60 * (n \div 60) \in 0..59
  OBVIOUS
<1>4. n < 1440 => m = n - 60 * h /\ m \in 0..59 /\ h \in 0..23
  <2> HIDE DEF h
  <2> QED
    BY <1>1, <1>2, <1>3 DEF T!Uint16
<1>5. T!timeFromMinutes(n) = [hours |-> h, minutes |-> m]
  BY DEF T!timeFromMinutes
<1> HIDE DEF h, m
<1>6. n < 1440 => T!timeInMinutes(h, m) = n
  <2>1. T!timeInMinutes(h, m) = m + 60 * h
    BY <1>1, InMinutes
  <2>2. h \in Nat /\ m \in Nat
    BY <1>1 DEF Byte
  <2> QED
    BY <1>4, <2>1, <2>2
<1> QED
  BY <1>1, <1>4, <1>5, <1>6

TideInv ==
  /\ T!TypeOK /\ T!CountsToLow
  /\ at \in 0..T!Day - 1 /\ entry \in (0..23) \X (0..59)

\* The minutes left, and the types, without the operators of bytes.
LEMMA TideLeft ==
  ASSUME TideInv
  PROVE  /\ hoursLeft \in Byte /\ minutesLeft \in Byte /\ now \in 0..T!Day - 1
         /\ T!Left = minutesLeft + 60 * hoursLeft /\ T!Left \in Nat /\ T!Left <= 15555
         /\ T!Now \in now..now + 1 /\ T!Now \in Nat /\ T!Now <= 1440
<1>1. hoursLeft \in Byte /\ minutesLeft \in Byte /\ now \in 0..T!Day - 1
  BY TideFacts DEF TideInv, T!TypeOK, Byte
<1>2. T!Left = minutesLeft + 60 * hoursLeft
  BY <1>1, InMinutes DEF T!Left
<1>3. T!Now \in now..now + 1
  BY <1>1, TideFacts DEF T!Now, T!Uint16
<1> QED
  BY <1>1, <1>2, <1>3, TideFacts DEF Byte

LEMMA TideInit ==
  ASSUME T!Init
  PROVE  TideInv
<1>1. now \in 0..T!Day - 1
  BY TideFacts DEF T!Init
<1>2. T!Left = 89
  BY InMinutes DEF T!Init, T!Left, Byte
<1>3. T!GraphOf(90) \in 0..3
  BY DEF T!GraphOf, T!Full
<1>4. T!TypeOK
  <2>1. /\ hoursLeft = 1 /\ minutesLeft = 29 /\ graphOffset \in 0..3
        /\ moduleActivated = FALSE /\ editModeActivated = FALSE
        /\ activeDisplay = 0 /\ screen = 0 /\ low = T!None
    BY <1>3 DEF T!Init
  <2>2. low \in Nat \cup {T!None}
    BY <2>1, TideFacts
  <2>3. hoursLeft \in 0..255 /\ minutesLeft \in 0..255 /\ activeDisplay \in 0..2 /\ screen \in 0..2
    BY <2>1
  <2> QED
    BY <1>1, <2>1, <2>2, <2>3, Zenon DEF T!TypeOK
<1>5. T!CountsToLow
  BY <1>2, TideFacts DEF T!Init, T!CountsToLow
<1>6. (now + 89) % 1440 \in 0..T!Day - 1
  BY <1>1, TideFacts
<1> QED
  BY <1>4, <1>5, <1>6, TideFacts DEF T!Init, TideInv

\* One minute on, the tide turning or not.
LEMMA MinuteInv ==
  ASSUME TideInv, T!Minute
  PROVE  TideInv'
<1> DEFINE L == T!Left
           turn == hoursLeft = 0 /\ minutesLeft = 0
<1>1. /\ hoursLeft \in Byte /\ minutesLeft \in Byte /\ now \in 0..T!Day - 1
      /\ L = minutesLeft + 60 * hoursLeft /\ L \in Nat /\ L <= 15555
  BY TideLeft
<1>2. turn <=> L = 0
  BY <1>1 DEF Byte
<1>3. now' = (now + 1) % 1440 /\ now' \in 0..T!Day - 1
  BY <1>1, TideFacts DEF T!Minute
<1>4. /\ UNCHANGED <<moduleActivated, editModeActivated, activeDisplay, screen, entry, odd>>
      /\ at' = (IF L = 0 THEN (now + 756) % 1440 ELSE at)
  BY <1>1, TideFacts DEF T!Minute
<1>5. at' \in 0..T!Day - 1
  BY <1>1, <1>4, TideFacts DEF TideInv
<1>6. graphOffset' \in 0..3
  BY <1>1 DEF T!Minute, T!minuteTick, T!GraphOf, T!Full
<1>7. CASE turn
  <2> DEFINE t == T!timeFromMinutes(755)
  <2>1. hoursLeft' = t.hours /\ minutesLeft' = t.minutes /\ UNCHANGED low
    BY <1>7, TideFacts DEF T!Minute, T!minuteTick
  <2>2. t.hours \in Byte /\ t.minutes \in Byte /\ T!timeInMinutes(t.hours, t.minutes) = 755
    BY FromMinutes
  <2>3. hoursLeft' \in Byte /\ minutesLeft' \in Byte /\ T!Left' = 755
    BY <2>1, <2>2 DEF T!Left
  <2>4. (now' + 755) % 1440 = at'
    BY <1>1, <1>2, <1>3, <1>4, <1>7
  <2>5. T!CountsToLow'
    BY <1>2, <1>4, <1>7, <2>1, <2>3, <2>4, TideFacts DEF TideInv, T!CountsToLow
  <2>6. T!TypeOK'
    BY <1>3, <1>4, <1>6, <2>1, <2>3 DEF TideInv, T!TypeOK, Byte
  <2> QED
    BY <1>4, <1>5, <2>5, <2>6 DEF TideInv
<1>8. CASE ~turn
  <2> DEFINE t == T!CountDown(hoursLeft, minutesLeft)
  <2>1. /\ hoursLeft' = t.hours /\ minutesLeft' = t.minutes
        /\ T!Draw(t.hours, t.minutes, moduleActivated, editModeActivated)
    BY <1>8 DEF T!Minute, T!minuteTick
  <2>2. /\ t.hours \in Byte /\ t.minutes \in Byte /\ t.minutes + 60 * t.hours = L - 1
    BY <1>1, <1>8 DEF T!CountDown, Byte
  <2>3. /\ hoursLeft' \in Byte /\ minutesLeft' \in Byte
        /\ T!timeInMinutes(t.hours, t.minutes) = L - 1 /\ T!Left' = L - 1
    BY <2>1, <2>2, InMinutes DEF T!Left
  <2>4. low' = IF moduleActivated /\ ~editModeActivated THEN L - 1 ELSE low
    BY <2>1, <2>3 DEF T!Draw
  <2> HIDE DEF L, t
  <2>5. (now' + (L - 1)) % 1440 = (now + L) % 1440
    BY <1>1, <1>3
  <2>6. T!CountsToLow'
    BY <1>2, <1>4, <1>8, <2>3, <2>4, <2>5, TideFacts DEF TideInv, T!CountsToLow, L
  <2>7. low' \in Nat \cup {T!None}
    BY <1>1, <1>2, <1>8, <2>4, TideFacts DEF TideInv, T!TypeOK, L
  <2>8. T!TypeOK'
    BY <1>3, <1>4, <1>6, <2>3, <2>7 DEF TideInv, T!TypeOK, Byte
  <2> QED
    BY <1>4, <1>5, <2>6, <2>8 DEF TideInv
<1> QED
  BY <1>7, <1>8

\* Showing the module, its screens, and starting an edit.
LEMMA TideShownInv ==
  ASSUME TideInv,
         T!HalfMinute \/ T!activate \/ T!deactivate \/ T!buttonUp \/ T!buttonDown
         \/ T!longStarButton
  PROVE  TideInv'
<1>1. /\ hoursLeft \in Byte /\ minutesLeft \in Byte /\ now \in 0..T!Day - 1
      /\ T!timeInMinutes(hoursLeft, minutesLeft) = T!Left /\ T!Left \in Nat /\ T!Left <= 15555
      /\ T!Now \in Nat /\ T!Now <= 1440
  BY TideLeft DEF T!Left
<1>2. /\ UNCHANGED <<hoursLeft, minutesLeft, graphOffset, now, at, odd>>
      /\ entry' = entry \/ T!longStarButton
      /\ moduleActivated' \in BOOLEAN /\ editModeActivated' \in BOOLEAN
      /\ activeDisplay' \in 0..2 /\ screen' \in 0..2
      /\ low' \in {low, T!None, T!Left}
      /\ moduleActivated' /\ ~editModeActivated' =>
           low' = T!Left \/ (low' = low /\ moduleActivated /\ ~editModeActivated)
  <2>1. /\ moduleActivated \in BOOLEAN /\ editModeActivated \in BOOLEAN
        /\ activeDisplay \in 0..2 /\ screen \in 0..2 /\ 0 \in 0..2
    BY DEF TideInv, T!TypeOK
  <2>2. /\ T!Draw(hoursLeft, minutesLeft, TRUE, FALSE) => low' = T!Left
        /\ T!Draw(hoursLeft, minutesLeft, TRUE, editModeActivated) =>
             low' = IF editModeActivated THEN low ELSE T!Left
    BY <1>1 DEF T!Draw
  <2>3. CASE T!HalfMinute
    BY <2>1, <2>3 DEF T!HalfMinute, T!tide, T!ui, T!history
  <2>4. CASE T!activate
    BY <2>1, <2>2, <2>4 DEF T!activate, T!tide, T!world, T!history
  <2>5. CASE T!deactivate
    <3>1. /\ UNCHANGED <<hoursLeft, minutesLeft, graphOffset, editModeActivated,
                         activeDisplay, entry, now, at, odd>>
          /\ moduleActivated' = FALSE /\ screen' = 0 /\ low' = T!None
      BY <2>5 DEF T!deactivate, T!tide, T!world, T!history
    <3> QED
      BY <2>1, <3>1, Zenon
  <2>6. CASE T!buttonUp
    <3>1. screen' \in 0..2
      BY <2>1, <2>6 DEF T!buttonUp
    <3> QED
      BY <2>1, <2>2, <2>6, <3>1 DEF T!buttonUp, T!tide, T!world, T!history
  <2>7. CASE T!buttonDown
    <3>1. screen' \in 0..2 /\ activeDisplay' \in 0..2
      BY <2>1, <2>7 DEF T!buttonDown
    <3> QED
      BY <2>1, <2>2, <2>7, <3>1 DEF T!buttonDown, T!tide, T!world, T!history
  <2>8. CASE T!longStarButton
    BY <2>1, <2>8 DEF T!longStarButton, T!tide, T!world, T!history
  <2> QED
    BY <2>3, <2>4, <2>5, <2>6, <2>7, <2>8
<1>3. T!Left' = T!Left
  BY <1>2 DEF T!Left
<1>4. entry' \in (0..23) \X (0..59)
  <2>1. CASE entry' = entry
    BY <2>1 DEF TideInv
  <2>2. CASE T!longStarButton
    <3> DEFINE n == (T!Now + T!Left) % 1440
               t == T!timeFromMinutes(n)
    <3>1. n \in Nat /\ n < 1440
      BY <1>1
    <3>2. entry' = <<t.hours, t.minutes>>
      BY <2>2, TideFacts DEF T!longStarButton
    <3>3. t.hours \in 0..23 /\ t.minutes \in 0..59
      <4> HIDE DEF n
      <4> QED
        BY <3>1, FromMinutes
    <3> QED
      BY <3>2, <3>3
  <2> QED
    BY <1>2, <2>1, <2>2
<1>5. low' \in Nat \cup {T!None}
  BY <1>1, <1>2, TideFacts DEF TideInv, T!TypeOK
<1>6. T!TypeOK'
  BY <1>2, <1>5 DEF TideInv, T!TypeOK
<1>7. T!CountsToLow'
  BY <1>2, <1>3 DEF TideInv, T!CountsToLow
<1> QED
  BY <1>2, <1>4, <1>6, <1>7 DEF TideInv

LEMMA EnterInv ==
  ASSUME TideInv, NEW time \in Entered, T!Enter(time)
  PROVE  TideInv'
<1>1. entry' = time /\ entry' \in (0..23) \X (0..59)
  BY TideFacts DEF T!Enter
<1>2. UNCHANGED <<T!tide, T!ui, T!world, T!history>>
  BY DEF T!Enter
<1> QED
  BY <1>1, <1>2
  DEF TideInv, T!tide, T!ui, T!world, T!history, T!TypeOK, T!CountsToLow, T!Left

LEMMA EndEditingInv ==
  ASSUME TideInv, T!endEditing
  PROVE  TideInv'
<1> DEFINE n == T!timeInMinutes(entry[1], entry[2])
           d == T!LeftUntil(n, T!Now)
           t == T!timeFromMinutes(d)
<1>1. /\ now \in 0..T!Day - 1 /\ T!Now \in now..now + 1 /\ T!Now \in Nat /\ T!Now <= 1440
  BY TideLeft
<1>2. n \in 0..T!Day - 1
  <2>1. entry[1] \in 0..23 /\ entry[2] \in 0..59
    BY DEF TideInv
  <2>2. entry[1] \in Byte /\ entry[2] \in Byte
    BY <2>1 DEF Byte
  <2>3. n = entry[2] + 60 * entry[1]
    BY <2>2, InMinutes
  <2> QED
    BY <2>1, <2>3, TideFacts
<1>3. d \in Nat /\ d < 65536 /\ (n >= T!Now => d = n - T!Now)
  <2> HIDE DEF n
  <2> QED
    BY <1>1, <1>2, TideFacts DEF T!LeftUntil, T!Uint16
<1>4. /\ hoursLeft' = t.hours /\ minutesLeft' = t.minutes
      /\ T!Draw(t.hours, t.minutes, moduleActivated, FALSE)
      /\ at' = n /\ (n < T!Now => odd') /\ editModeActivated' = FALSE
      /\ UNCHANGED <<graphOffset, moduleActivated, activeDisplay, screen, entry, now>>
  <2>1. odd' = (n < T!Now)
    BY Zenon DEF T!endEditing
  <2>2. T!Draw(t.hours, t.minutes, moduleActivated, FALSE)
    BY Zenon DEF T!endEditing
  <2>3. /\ hoursLeft' = t.hours /\ minutesLeft' = t.minutes
        /\ at' = n /\ editModeActivated' = FALSE
        /\ UNCHANGED <<graphOffset, moduleActivated, activeDisplay, screen, entry, now>>
    BY DEF T!endEditing, T!world
  <2> QED
    BY <2>1, <2>2, <2>3, Zenon
<1> HIDE DEF n, d
<1>5. t.hours \in Byte /\ t.minutes \in Byte
      /\ (d < 1440 => T!timeInMinutes(t.hours, t.minutes) = d)
  BY <1>3, FromMinutes
<1>6. T!Left' = T!timeInMinutes(t.hours, t.minutes) /\ T!Left' \in Nat /\ T!Left' <= 15555
  BY <1>4, <1>5, InMinutes DEF T!Left, Byte
<1>7. low' = IF moduleActivated THEN T!Left' ELSE low
  BY <1>4, <1>6 DEF T!Draw
<1>8. T!TypeOK'
  <2>1. hoursLeft' \in 0..255 /\ minutesLeft' \in 0..255
    BY <1>4, <1>5 DEF Byte
  <2>2. low' \in Nat \cup {T!None}
    BY <1>6, <1>7 DEF TideInv, T!TypeOK
  <2> QED
    BY <1>4, <2>1, <2>2, Zenon DEF TideInv, T!TypeOK
<1>9. T!CountsToLow'
  <2> SUFFICES ASSUME ~odd'
               PROVE  (now + T!Left') % 1440 \in {n, (n - 1) % 1440}
    BY <1>4, <1>7, TideFacts DEF T!CountsToLow
  <2>1. n >= T!Now /\ T!Left' = n - T!Now
    BY <1>1, <1>2, <1>3, <1>4, <1>5, <1>6, TideFacts
  <2>2. T!Now = now \/ T!Now = now + 1
    BY <1>1
  <2>3. CASE T!Now = now
    BY <1>1, <1>2, <2>1, <2>3, TideFacts
  <2>4. CASE T!Now = now + 1
    BY <1>1, <1>2, <2>1, <2>4, TideFacts
  <2> QED
    BY <2>2, <2>3, <2>4
<1> QED
  BY <1>2, <1>4, <1>8, <1>9 DEF TideInv

LEMMA TideStep ==
  ASSUME TideInv, [T!Next]_(T!vars)
  PROVE  TideInv'
<1>1. CASE UNCHANGED T!vars
  BY <1>1 DEF T!vars, T!tide, T!ui, T!world, T!history, TideInv, T!TypeOK, T!CountsToLow, T!Left
<1> QED
  BY <1>1, MinuteInv, TideShownInv, EnterInv, EndEditingInv DEF T!Next

-----------------------------------------------------------------------------
(* The calendar of the clock, for the years from 1970 to 2050.             *)

Less == {ss \in Nat \X Nat : ss[1] < ss[2]}

\* Induction over the naturals, by a set.
LEMMA Counting ==
  ASSUME NEW U, 0 \in U, \A n \in Nat : n \in U => n + 1 \in U
  PROVE  Nat \subseteq U
<1> SUFFICES ASSUME Nat \ U # {} PROVE FALSE
  OBVIOUS
<1>1. IsWellFoundedOn(Less, Nat)
  BY NatLessThanWellFounded, Zenon DEF OpToRel, Less
<1>2. PICK x \in Nat \ U : \A y \in Nat \ U : <<y, x>> \notin Less
  BY <1>1, WFMin, Zenon
<1>3. x # 0 /\ x - 1 \in Nat /\ <<x - 1, x>> \in Less
  BY DEF Less
<1>4. x - 1 \in U
  BY <1>2, <1>3
<1> QED
  BY <1>3, <1>4

Years  == {y \in Nat : 1970 <= y /\ y <= 2051}
Months == 1..12

\* Every fourth year is a leap year.
LEMMA FourthYears ==
  ASSUME NEW y \in Years
  PROVE  D!IsLeap(y) <=> y % 4 = 0
<1>1. y % 100 = 0 => y = 2000
  BY DEF Years
<1>2. 2000 % 400 = 0
  OBVIOUS
<1> QED
  BY <1>1, <1>2 DEF D!IsLeap

LeapsBefore(year) == {y \in 1970..year - 1 : D!IsLeap(y)}

\* The leap years from 1970 to before a year.
LEMMA LeapCount ==
  ASSUME NEW year \in Years
  PROVE  Cardinality(LeapsBefore(year)) = (year - 1969) \div 4
<1> DEFINE Leaps(n) == {x \in 1970..1969 + n : D!IsLeap(x)}
           U == {n \in Nat : n <= 81 => /\ IsFiniteSet(Leaps(n))
                                        /\ Cardinality(Leaps(n)) = (n + 1) \div 4}
<1>1. 0 \in U
  <2>1. Leaps(0) = {}
    OBVIOUS
  <2>2. (0 + 1) \div 4 = 0
    OBVIOUS
  <2> HIDE DEF Leaps
  <2> QED
    BY <2>1, <2>2, FS_EmptySet
<1>2. ASSUME NEW n \in Nat, n \in U
      PROVE  n + 1 \in U
  <2> SUFFICES ASSUME n + 1 <= 81
               PROVE  /\ IsFiniteSet(Leaps(n + 1))
                      /\ Cardinality(Leaps(n + 1)) = (n + 2) \div 4
    OBVIOUS
  <2>1. IsFiniteSet(Leaps(n)) /\ Cardinality(Leaps(n)) = (n + 1) \div 4
    BY <1>2
  <2>2. D!IsLeap(1970 + n) <=> (1970 + n) % 4 = 0
    BY FourthYears DEF Years
  <2>3. CASE (1970 + n) % 4 = 0
    <3>1. Leaps(n + 1) = Leaps(n) \cup {1970 + n} /\ 1970 + n \notin Leaps(n)
      BY <2>2, <2>3
    <3>2. (n + 2) \div 4 = (n + 1) \div 4 + 1
      BY <2>3
    <3> HIDE DEF Leaps
    <3> QED
      BY <2>1, <3>1, <3>2, FS_AddElement
  <2>4. CASE (1970 + n) % 4 # 0
    <3>1. Leaps(n + 1) = Leaps(n)
      BY <2>2, <2>4
    <3>2. (n + 2) \div 4 = (n + 1) \div 4
      BY <2>4
    <3> HIDE DEF Leaps
    <3> QED
      BY <2>1, <3>1, <3>2
  <2> QED
    BY <2>3, <2>4
<1>3. year - 1970 \in U /\ year - 1970 <= 81
  <2> HIDE DEF U
  <2>1. Nat \subseteq U
    BY <1>1, <1>2, Counting
  <2> QED
    BY <2>1 DEF Years
<1>4. Leaps(year - 1970) = LeapsBefore(year) /\ year - 1970 + 1 = year - 1969
  BY DEF LeapsBefore, Years
<1> HIDE DEF Leaps
<1> QED
  BY <1>3, <1>4

Before == <<0, 31, 59, 90, 120, 151, 181, 212, 243, 273, 304, 334>>

LeapDay(year, mon) == IF mon > 2 /\ year % 4 = 0 THEN 1 ELSE 0

\* The day of the calendar, without a cardinality.
Numbered(year, mon, day) ==
  365 * (year - 1970) + (year - 1969) \div 4 + day - 1 + Before[mon] + LeapDay(year, mon)

\* DDay's Cardinality is the one of FiniteSets.
LEMMA SameCardinality ==
  ASSUME NEW SS
  PROVE  D!Cardinality(SS) = Cardinality(SS)
BY DEF D!Cardinality, Cardinality

LEMMA DayIsNumbered ==
  ASSUME NEW d, d.year \in Years, d.mon \in Months, d.day \in Int
  PROVE  D!DayNumber(d) = Numbered(d.year, d.mon, d.day)
<1>1. Cardinality(LeapsBefore(d.year)) = (d.year - 1969) \div 4
  BY LeapCount
<1>2. (IF d.mon > 2 /\ D!IsLeap(d.year) THEN 1 ELSE 0) = LeapDay(d.year, d.mon)
  BY FourthYears DEF LeapDay
<1> QED
  <2>1. D!DayNumber(d) = 365 * (d.year - 1970) + Cardinality(LeapsBefore(d.year)) + d.day - 1
                           + Before[d.mon] + IF d.mon > 2 /\ D!IsLeap(d.year) THEN 1 ELSE 0
    BY SameCardinality DEF D!DayNumber, LeapsBefore, Before
  <2> QED
    BY <1>1, <1>2, <2>1 DEF Numbered

LEMMA NumberedType ==
  ASSUME NEW year \in Years, NEW mon \in Months
  PROVE  /\ Before[mon] \in 0..334 /\ LeapDay(year, mon) \in 0..1
         /\ (year - 1969) \div 4 \in 0..20
         /\ D!DaysIn(year, mon) \in 28..31
         /\ \A day \in Int : Numbered(year, mon, day) \in Int
<1>1. Before[mon] \in 0..334
  BY DEF Before, Months
<1>2. LeapDay(year, mon) \in 0..1
  BY DEF LeapDay
<1>3. (year - 1969) \div 4 \in 0..20 /\ year \in Int
  BY DEF Years
<1>4. D!DaysIn(year, mon) \in 28..31
  BY DEF D!DaysIn
<1> QED
  BY <1>1, <1>2, <1>3, <1>4 DEF Numbered

\* The count goes on from the last day of a month, and of a year.
LEMMA NumbersGoOn ==
  ASSUME NEW year \in Years, NEW mon \in Months, NEW day \in Int
  PROVE  /\ Numbered(year, mon, day + 1) = Numbered(year, mon, day) + 1
         /\ mon < 12 => Numbered(year, mon + 1, 1)
                           = Numbered(year, mon, D!DaysIn(year, mon)) + 1
         /\ Numbered(year + 1, 1, 1) = Numbered(year, 12, 31) + 1
<1> DEFINE q == (year - 1969) \div 4
<1>1. q \in Int /\ (year + 1 - 1969) \div 4 = q + (IF year % 4 = 0 THEN 1 ELSE 0) /\ year \in Int
  BY DEF Years
<1>2. D!IsLeap(year) <=> year % 4 = 0
  BY FourthYears
<1>3. Before[mon] \in Int /\ Before[1] = 0 /\ Before[12] = 334
  BY DEF Before, Months
<1>4. /\ LeapDay(year, mon) \in Int /\ LeapDay(year + 1, 1) = 0
      /\ LeapDay(year, 12) = (IF year % 4 = 0 THEN 1 ELSE 0)
  BY DEF LeapDay
<1>5. mon < 12 => Before[mon + 1] + LeapDay(year, mon + 1)
                    = Before[mon] + LeapDay(year, mon) + D!DaysIn(year, mon)
  BY <1>2 DEF Before, LeapDay, D!DaysIn, Months
<1>6. mon < 12 => /\ Before[mon + 1] \in Int /\ LeapDay(year, mon + 1) \in Int
                  /\ D!DaysIn(year, mon) \in Int
  BY DEF Before, LeapDay, D!DaysIn, Months
<1> HIDE DEF q
<1>7. Numbered(year, mon, day + 1) = Numbered(year, mon, day) + 1
  BY <1>1, <1>3, <1>4 DEF Numbered, q
<1>8. mon < 12 => Numbered(year, mon + 1, 1) = Numbered(year, mon, D!DaysIn(year, mon)) + 1
  BY <1>1, <1>3, <1>4, <1>5, <1>6 DEF Numbered, q
<1>9. Numbered(year + 1, 1, 1) = Numbered(year, 12, 31) + 1
  BY <1>1, <1>3, <1>4 DEF Numbered, q
<1> QED
  BY <1>7, <1>8, <1>9

IsDay(year, mon, day) ==
  year \in Years \ {2051} /\ mon \in Months /\ day \in 1..D!DaysIn(year, mon)

\* The number of the first day of 2051.
LEMMA AfterAllNumbered ==
  D!AfterAll = Numbered(2051, 1, 1)
<1> DEFINE d == [year |-> 2051, mon |-> 1, day |-> 1]
<1>1. d.year \in Years /\ d.mon \in Months /\ d.day \in Int
  BY DEF Years, Months
<1>2. d.year = 2051 /\ d.mon = 1 /\ d.day = 1
  OBVIOUS
<1>3. D!AfterAll = D!DayNumber(d)
  BY DEF D!AfterAll
<1> HIDE DEF d
<1>4. D!DayNumber(d) = Numbered(d.year, d.mon, d.day)
  BY <1>1, DayIsNumbered
<1> QED
  BY <1>2, <1>3, <1>4

\* The fields of the next day: a day, one number on, before the year 2051.
LEMMA NextFields ==
  ASSUME NEW year, NEW mon, NEW day, IsDay(year, mon, day),
         NEW y, NEW m, NEW d,
         IF day < D!DaysIn(year, mon) THEN y = year /\ m = mon /\ d = day + 1
         ELSE IF mon < 12 THEN y = year /\ m = mon + 1 /\ d = 1
         ELSE y = year + 1 /\ m = 1 /\ d = 1
  PROVE  /\ Numbered(y, m, d) = Numbered(year, mon, day) + 1
         /\ y \in Years /\ m \in Months /\ d \in Int
         /\ Numbered(year, mon, day) + 1 < D!AfterAll => IsDay(y, m, d)
<1>1. /\ year \in Years /\ year # 2051 /\ mon \in Months /\ day \in Int
      /\ day \in 1..D!DaysIn(year, mon) /\ D!DaysIn(year, mon) \in 28..31
  BY NumberedType DEF IsDay
<1>2. CASE day < D!DaysIn(year, mon)
  <2>1. y = year /\ m = mon /\ d = day + 1
    BY <1>2
  <2>2. Numbered(year, mon, day + 1) = Numbered(year, mon, day) + 1
    BY <1>1, NumbersGoOn
  <2>3. d \in 1..D!DaysIn(year, mon)
    BY <1>1, <1>2, <2>1
  <2> QED
    BY <1>1, <2>1, <2>2, <2>3 DEF IsDay
<1>3. CASE day >= D!DaysIn(year, mon) /\ mon < 12
  <2>1. y = year /\ m = mon + 1 /\ d = 1 /\ day = D!DaysIn(year, mon)
    BY <1>1, <1>3
  <2>2. Numbered(year, mon + 1, 1) = Numbered(year, mon, D!DaysIn(year, mon)) + 1
    BY <1>1, <1>3, NumbersGoOn
  <2>3. m \in Months
    BY <1>1, <1>3, <2>1 DEF Months
  <2>4. d \in 1..D!DaysIn(y, m)
    <3>1. d = 1 /\ D!DaysIn(y, m) \in 28..31
      BY <1>1, <2>1, <2>3, NumberedType
    <3> QED
      BY <3>1
  <2> QED
    BY <1>1, <2>1, <2>2, <2>3, <2>4 DEF IsDay
<1>4. CASE day >= D!DaysIn(year, mon) /\ mon = 12
  <2>1. y = year + 1 /\ m = 1 /\ d = 1 /\ day = D!DaysIn(year, mon)
    BY <1>1, <1>4
  <2>2. D!DaysIn(year, 12) = 31
    BY DEF D!DaysIn
  <2>3. Numbered(year + 1, 1, 1) = Numbered(year, mon, day) + 1
    BY <1>1, <1>4, <2>1, <2>2, NumbersGoOn
  <2>4. m \in Months /\ y \in Years
    BY <1>1, <2>1 DEF Months, Years
  <2>5. d \in 1..D!DaysIn(y, m)
    <3>1. d = 1 /\ D!DaysIn(y, m) \in 28..31
      BY <2>1, <2>4, NumberedType
    <3> QED
      BY <3>1
  <2>6. y = 2051 => Numbered(y, m, d) = D!AfterAll
    BY <2>1, AfterAllNumbered
  <2>7. Numbered(y, m, d) \in Int
    BY <2>1, <2>4, NumberedType
  <2>8. Numbered(year, mon, day) + 1 < D!AfterAll => y # 2051
    BY <2>1, <2>3, <2>6, <2>7
  <2> QED
    BY <2>1, <2>3, <2>4, <2>5, <2>8 DEF IsDay
<1> QED
  BY <1>1, <1>2, <1>3, <1>4 DEF Months

-----------------------------------------------------------------------------
(* DDay.                                                                   *)

DayYears == {y \in Nat : 2000 <= y /\ y <= 2050}
Date     == [year : Nat, mon : Nat, day : Nat]

\* The two sums have closed forms.
LEMMA YearsSummed ==
  ASSUME NEW year \in DayYears
  PROVE  D!YearsFrom2000[year] = 365 * (year - 2000) + (year - 1997) \div 4
<1> DEFINE Sum(f) == [y \in 2000..2050 |->
             IF y = 2000 THEN 0 ELSE f[y - 1] + D!get_number_of_days_in_year(y - 1)]
           g == [y \in 2000..2050 |-> 365 * (y - 2000) + (y - 1997) \div 4]
           F == D!YearsFrom2000
           V(n) == 365 * n + (n + 3) \div 4
           U == {n \in Nat : n <= 50 => F[2000 + n] = V(n)}
<1>1. \A n \in Nat : n <= 50 => /\ V(0) = 0
                                /\ V(n + 1) = V(n) + D!get_number_of_days_in_year(2000 + n)
  <2> SUFFICES ASSUME NEW n \in Nat, n <= 50
               PROVE  /\ V(0) = 0
                      /\ V(n + 1) = V(n) + D!get_number_of_days_in_year(2000 + n)
    OBVIOUS
  <2>1. D!is_leap_year(2000 + n) <=> (2000 + n) % 4 = 0
    BY FourthYears DEF D!is_leap_year, D!IsLeap, Years
  <2>2. (n + 1 + 3) \div 4 = (n + 3) \div 4 + (IF (2000 + n) % 4 = 0 THEN 1 ELSE 0)
    OBVIOUS
  <2>3. (0 + 3) \div 4 = 0 /\ (n + 3) \div 4 \in Int
    OBVIOUS
  <2> QED
    BY <2>1, <2>2, <2>3 DEF D!get_number_of_days_in_year
<1>2. g = Sum(g)
  <2>1. ASSUME NEW y \in 2000..2050, y # 2000
        PROVE  g[y] = g[y - 1] + D!get_number_of_days_in_year(y - 1)
    <3>1. y - 1 \in 2000..2050 /\ y - 2001 \in Nat /\ y - 2001 <= 50
      BY <2>1
    <3>2. V(y - 2001 + 1) = V(y - 2001) + D!get_number_of_days_in_year(2000 + (y - 2001))
      BY <1>1, <3>1
    <3>3. g[y] = V(y - 2001 + 1) /\ g[y - 1] = V(y - 2001) /\ 2000 + (y - 2001) = y - 1
      BY <3>1
    <3> QED
      BY <3>2, <3>3
  <2>2. g[2000] = 0
    OBVIOUS
  <2>3. \A y \in 2000..2050 : g[y] = IF y = 2000 THEN 0
                                     ELSE g[y - 1] + D!get_number_of_days_in_year(y - 1)
    BY <2>1, <2>2
  <2> HIDE DEF V
  <2> QED
    BY <2>3
<1>3. F = Sum(F)
  <2> HIDE DEF F, g
  <2>1. \E f : f = Sum(f)
    <3> HIDE DEF Sum
    <3> QED
      BY <1>2
  <2>2. F = CHOOSE f : f = Sum(f)
    BY DEF D!YearsFrom2000, F
  <2> HIDE DEF Sum
  <2> QED
    BY <2>1, <2>2
<1> HIDE DEF F
<1>4. 0 \in U
  BY <1>1, <1>3
<1>5. ASSUME NEW n \in Nat, n \in U
      PROVE  n + 1 \in U
  <2>1. n + 1 <= 50 => F[2000 + (n + 1)] = F[2000 + n] + D!get_number_of_days_in_year(2000 + n)
    <3> SUFFICES ASSUME n + 1 <= 50
                 PROVE  F[2000 + (n + 1)] = F[2000 + n] + D!get_number_of_days_in_year(2000 + n)
      OBVIOUS
    <3>1. 2000 + (n + 1) \in 2000..2050 /\ 2000 + (n + 1) # 2000 /\ 2000 + (n + 1) - 1 = 2000 + n
      OBVIOUS
    <3> HIDE DEF V
    <3> QED
      BY <1>3, <3>1
  <2> HIDE DEF V
  <2> QED
    BY <1>1, <1>5, <2>1
<1>6. year - 2000 \in U
  <2> HIDE DEF U
  <2>1. Nat \subseteq U
    BY <1>4, <1>5, Counting
  <2> QED
    BY <2>1 DEF DayYears
<1> QED
  BY <1>6 DEF DayYears, F

LEMMA MonthsSummed ==
  ASSUME NEW year \in DayYears, NEW mon \in Months
  PROVE  D!MonthsBefore(year)[mon] = Before[mon] + LeapDay(year, mon)
<1> DEFINE Sum(f) == [m \in 1..12 |->
             IF m = 1 THEN 0 ELSE f[m - 1] + D!get_number_of_days(m - 1, year)]
           g == [m \in 1..12 |-> Before[m] + LeapDay(year, m)]
           F == D!MonthsBefore(year)
<1>1. ASSUME NEW m \in 2..12
      PROVE  Before[m] + LeapDay(year, m)
               = Before[m - 1] + LeapDay(year, m - 1) + D!get_number_of_days(m - 1, year)
  <2>1. D!is_leap_year(year) <=> year % 4 = 0
    BY FourthYears DEF D!is_leap_year, D!IsLeap, Years, DayYears
  <2> QED
    BY <2>1 DEF Before, LeapDay, D!get_number_of_days
<1>2. g = Sum(g)
  <2>1. ASSUME NEW m \in 1..12
        PROVE  g[m] = IF m = 1 THEN 0 ELSE g[m - 1] + D!get_number_of_days(m - 1, year)
    <3>1. CASE m = 1
      BY <3>1 DEF Before, LeapDay
    <3>2. CASE m # 1
      <4>1. m \in 2..12 /\ m - 1 \in 1..12
        BY <3>2
      <4> QED
        BY <1>1, <3>2, <4>1
    <3> QED
      BY <3>1, <3>2
  <2> QED
    BY <2>1
<1>3. F = Sum(F)
  <2> HIDE DEF F, g
  <2>1. \E f : f = Sum(f)
    <3> HIDE DEF Sum
    <3> QED
      BY <1>2
  <2>2. F = CHOOSE f : f = Sum(f)
    BY DEF D!MonthsBefore, F
  <2> HIDE DEF Sum
  <2> QED
    BY <2>1, <2>2
<1> HIDE DEF F
<1>5. F[1] = 0
  BY <1>3
<1>6. ASSUME NEW m \in 2..12
      PROVE  F[m] = F[m - 1] + D!get_number_of_days(m - 1, year)
  BY <1>3
<1> DEFINE V(m) == Before[m] + LeapDay(year, m)
           Is(m) == F[m] = V(m)
<1>7. V(1) = 0
  BY DEF Before, LeapDay
<1>8. ASSUME NEW m \in 2..12, Is(m - 1)
      PROVE  Is(m)
  BY <1>1, <1>6, <1>8
<1>9. Is(1)
  BY <1>5, <1>7
<1> HIDE DEF V, Is
<1>10. Is(2) /\ Is(3) /\ Is(4) /\ Is(5) /\ Is(6)
  <2>1. Is(2)
    BY <1>8, <1>9, 2 - 1 = 1
  <2>2. Is(3)
    BY <1>8, <2>1, 3 - 1 = 2
  <2>3. Is(4)
    BY <1>8, <2>2, 4 - 1 = 3
  <2>4. Is(5)
    BY <1>8, <2>3, 5 - 1 = 4
  <2>5. Is(6)
    BY <1>8, <2>4, 6 - 1 = 5
  <2> QED
    BY <2>1, <2>2, <2>3, <2>4, <2>5
<1>11. Is(7) /\ Is(8) /\ Is(9) /\ Is(10) /\ Is(11) /\ Is(12)
  <2>1. Is(7)
    BY <1>8, <1>10, 7 - 1 = 6
  <2>2. Is(8)
    BY <1>8, <2>1, 8 - 1 = 7
  <2>3. Is(9)
    BY <1>8, <2>2, 9 - 1 = 8
  <2>4. Is(10)
    BY <1>8, <2>3, 10 - 1 = 9
  <2>5. Is(11)
    BY <1>8, <2>4, 11 - 1 = 10
  <2>6. Is(12)
    BY <1>8, <2>5, 12 - 1 = 11
  <2> QED
    BY <2>1, <2>2, <2>3, <2>4, <2>5, <2>6
<1>12. Is(mon)
  BY <1>9, <1>10, <1>11 DEF Months
<1> QED
  BY <1>12 DEF Is, V, F

\* The C functions agree with the calendar.
LEMMA DaysOfMonth ==
  ASSUME NEW year \in Years, NEW mon \in Months
  PROVE  /\ D!get_number_of_days(mon, year) = D!DaysIn(year, mon)
         /\ D!get_number_of_days(mon, year) \in 28..31
BY DEF D!get_number_of_days, D!DaysIn, D!is_leap_year, D!IsLeap

\* The count of d_day starts on the eve of 2000, and fits a signed word.
LEMMA NthDay ==
  ASSUME NEW d, d.year \in DayYears, d.mon \in Months, d.day \in 1..255
  PROVE  /\ D!DayNumber(d) \in Int
         /\ D!get_nth_day_from_2000(d) = D!DayNumber(d) - 10956
         /\ D!get_nth_day_from_2000(d) \in Nat
         /\ D!get_nth_day_from_2000(d) < 20000
<1>1. d.year \in Years /\ d.year \in Int /\ d.day \in Int /\ d.year >= 2000 /\ d.year <= 2050
  BY DEF DayYears, Years
<1>2. D!DayNumber(d) = Numbered(d.year, d.mon, d.day)
  BY <1>1, DayIsNumbered
<1> DEFINE b == Before[d.mon]
           l == LeapDay(d.year, d.mon)
           q == (d.year - 1997) \div 4
<1>3. /\ D!YearsFrom2000[d.year] = 365 * (d.year - 2000) + q
      /\ D!MonthsBefore(d.year)[d.mon] = b + l
  BY YearsSummed, MonthsSummed
<1>4. (d.year - 1969) \div 4 = q + 7 /\ q \in 0..13
  BY <1>1
<1>5. b \in 0..334 /\ l \in 0..1
  BY <1>1, NumberedType
<1> HIDE DEF b, l, q
<1> DEFINE n == 365 * (d.year - 2000) + q + (b + l) + d.day
<1>6. n \in Nat /\ n < 20000
  BY <1>1, <1>4, <1>5
<1>7. D!get_nth_day_from_2000(d) = n % 65536
  BY <1>1, <1>3 DEF D!get_nth_day_from_2000
<1>8. n % 65536 = n
  BY <1>6
<1>9. Numbered(d.year, d.mon, d.day)
        = 365 * (d.year - 1970) + (q + 7) + d.day - 1 + b + l
  BY <1>4 DEF Numbered, b, l
<1>10. n = Numbered(d.year, d.mon, d.day) - 10956 /\ Numbered(d.year, d.mon, d.day) \in Int
  <2> DEFINE k == 365 * (d.year - 2000)
  <2>1. k \in Int /\ 365 * (d.year - 1970) = k + 10950
    BY <1>1
  <2> HIDE DEF k
  <2>2. n = k + q + (b + l) + d.day
    BY DEF k
  <2> HIDE DEF n
  <2>3. Numbered(d.year, d.mon, d.day) = k + 10950 + (q + 7) + d.day - 1 + b + l
    BY <1>9, <2>1
  <2> QED
    BY <1>1, <1>4, <1>5, <2>1, <2>2, <2>3
<1> HIDE DEF n
<1> QED
  BY <1>2, <1>6, <1>7, <1>8, <1>10

\* calc_d_day counts the days between two dates of the calendar.
LEMMA DaysBetween ==
  ASSUME NEW target, target.year \in DayYears, target.mon \in Months, target.day \in 1..255,
         NEW to, to.year \in DayYears, to.mon \in Months, to.day \in 1..255
  PROVE  /\ D!calc_d_day(target, to) = D!DayNumber(to) - D!DayNumber(target)
         /\ D!calc_d_day(target, to) = D!Int16(D!calc_d_day(target, to))
<1> DEFINE a == D!get_nth_day_from_2000(to)
           b == D!get_nth_day_from_2000(target)
<1>1. /\ a \in Nat /\ a < 20000 /\ a = D!DayNumber(to) - 10956 /\ D!DayNumber(to) \in Int
      /\ b \in Nat /\ b < 20000 /\ b = D!DayNumber(target) - 10956 /\ D!DayNumber(target) \in Int
  BY NthDay
<1> HIDE DEF a, b
<1>2. D!Int16(a) = a /\ D!Int16(b) = b
  BY <1>1 DEF D!Int16
<1>3. a - b \in Int /\ -20000 < a - b /\ a - b < 20000
  BY <1>1
<1>4. D!Int16(a - b) = a - b
  BY <1>3 DEF D!Int16
<1>5. D!calc_d_day(target, to) = a - b
  BY <1>2, <1>4 DEF D!calc_d_day, a, b
<1> QED
  BY <1>1, <1>4, <1>5

-----------------------------------------------------------------------------
Target == [year : 2000..2020, mon : 1..12, day : 1..255]

\* A date the clock may show, of the years d_day can count.
Shows(d) == d \in Date /\ D!IsDate(d) /\ d.year >= 2000

DDayInv ==
  /\ D!TypeOK /\ D!ShowsDays
  /\ Shows(today) /\ Shows(drawn)
  /\ dday_passed \in 0..MaxDays
  /\ D!DayNumber(today) + (MaxDays - dday_passed) < D!AfterAll
  /\ g_dday \in Target /\ tmp_date \in Target

LEMMA DateFacts ==
  ASSUME NEW d, Shows(d)
  PROVE  /\ IsDay(d.year, d.mon, d.day)
         /\ d.year \in DayYears /\ d.year \in Years /\ d.mon \in Months
         /\ d.day \in 1..255 /\ d.day \in Int
<1>1. d.year \in DayYears /\ d.year \in Years \ {2051} /\ d.mon \in Months
      /\ d.day \in 1..D!DaysIn(d.year, d.mon)
  BY DEF Shows, Date, D!IsDate, DayYears, Years, Months
<1>2. D!DaysIn(d.year, d.mon) \in 28..31
  BY <1>1, NumberedType
<1> QED
  BY <1>1, <1>2 DEF IsDay

LEMMA TargetFacts ==
  ASSUME NEW d \in Target
  PROVE  d.year \in DayYears /\ d.year \in Years /\ d.mon \in Months /\ d.day \in 1..255
BY DEF Target, DayYears, Years, Months

LEMMA DDayInit ==
  ASSUME D!Init
  PROVE  DDayInv
<1>1. /\ today \in DDayStarts /\ dday_passed = 0 /\ g_dday = Dday /\ tmp_date = Dday
      /\ mode = "off" /\ g_view_state = 0 /\ shown = D!None /\ drawn = today
  BY DEF D!Init
<1>2. /\ MaxDays \in Nat /\ D!IsDate(today) /\ D!DayNumber(today) + MaxDays < D!AfterAll
      /\ today \in [year : 2000..2050, mon : 1..12, day : 1..31]
      /\ Dday \in [year : 2000..2020, mon : 1..12, day : 1..31]
  BY <1>1, ModulesAssumption DEF D!DDayAssumption
<1>3. Shows(today)
  BY <1>2 DEF Shows, Date
<1>4. Dday \in Target
  BY <1>2 DEF Target
<1>5. D!TypeOK
  BY <1>1, <1>4 DEF D!TypeOK, Target
<1>6. D!ShowsDays
  BY <1>1 DEF D!ShowsDays
<1>7. dday_passed \in 0..MaxDays /\ MaxDays - dday_passed = MaxDays
  BY <1>1, <1>2
<1> QED
  BY <1>1, <1>2, <1>3, <1>4, <1>5, <1>6, <1>7 DEF DDayInv

LEMMA MidnightInv ==
  ASSUME DDayInv, D!Midnight
  PROVE  DDayInv'
<1>1. /\ dday_passed < MaxDays /\ dday_passed' = dday_passed + 1
      /\ today' = D!NextDay(today)
      /\ UNCHANGED <<g_dday, tmp_date, mode, g_view_state, shown, drawn, steps>>
  BY DEF D!Midnight
<1>2. /\ Shows(today) /\ today \in Date /\ dday_passed \in 0..MaxDays /\ MaxDays \in Nat
      /\ IsDay(today.year, today.mon, today.day)
      /\ today.year \in Years /\ today.mon \in Months /\ today.day \in Int
      /\ today.year \in Nat /\ today.mon \in Nat /\ today.day \in Nat /\ today.year >= 2000
  BY DateFacts, ModulesAssumption DEF DDayInv, D!DDayAssumption, Shows, Date
<1> DEFINE t == D!NextDay(today)
<1>3. /\ t \in Date /\ t.year >= 2000
      /\ IF today.day < D!DaysIn(today.year, today.mon)
         THEN t.year = today.year /\ t.mon = today.mon /\ t.day = today.day + 1
         ELSE IF today.mon < 12 THEN t.year = today.year /\ t.mon = today.mon + 1 /\ t.day = 1
         ELSE t.year = today.year + 1 /\ t.mon = 1 /\ t.day = 1
  <2>1. CASE today.day < D!DaysIn(today.year, today.mon)
    <3>1. t = [today EXCEPT !.day = today.day + 1]
      BY <2>1 DEF D!NextDay
    <3> HIDE DEF t
    <3> QED
      BY <1>2, <2>1, <3>1 DEF Date
  <2>2. CASE ~(today.day < D!DaysIn(today.year, today.mon)) /\ today.mon < 12
    <3> DEFINE s == [today EXCEPT !.day = 1]
    <3>1. t = [s EXCEPT !.mon = today.mon + 1]
      BY <2>2 DEF D!NextDay
    <3>2. s \in Date /\ s.year = today.year /\ s.mon = today.mon /\ s.day = 1
      BY <1>2 DEF Date
    <3> HIDE DEF s, t
    <3>3. t \in Date /\ t.year = today.year /\ t.mon = today.mon + 1 /\ t.day = 1
      BY <1>2, <3>1, <3>2 DEF Date
    <3> QED
      BY <1>2, <2>2, <3>3
  <2>3. CASE ~(today.day < D!DaysIn(today.year, today.mon)) /\ ~(today.mon < 12)
    <3> DEFINE s == [today EXCEPT !.day = 1]
               r == [s EXCEPT !.mon = 1]
    <3>1. t = [r EXCEPT !.year = today.year + 1]
      BY <2>3 DEF D!NextDay
    <3>2. s \in Date /\ s.year = today.year /\ s.mon = today.mon /\ s.day = 1
      BY <1>2 DEF Date
    <3> HIDE DEF s, t
    <3>3. r \in Date /\ r.year = today.year /\ r.mon = 1 /\ r.day = 1
      BY <3>2 DEF Date
    <3> HIDE DEF r
    <3>4. t \in Date /\ t.year = today.year + 1 /\ t.mon = 1 /\ t.day = 1
      BY <1>2, <3>1, <3>3 DEF Date
    <3> QED
      BY <1>2, <2>3, <3>4
  <2> QED
    BY <2>1, <2>2, <2>3
<1> HIDE DEF t
<1> DEFINE n == Numbered(today.year, today.mon, today.day)
<1>4. /\ Numbered(t.year, t.mon, t.day) = n + 1
      /\ t.year \in Years /\ t.mon \in Months /\ t.day \in Int
      /\ n + 1 < D!AfterAll => IsDay(t.year, t.mon, t.day)
  BY <1>2, <1>3, NextFields
<1>5. D!DayNumber(today) = n /\ D!DayNumber(t) = n + 1 /\ n \in Int
  BY <1>2, <1>4, DayIsNumbered, NumberedType
<1>6. D!AfterAll \in Int
  BY AfterAllNumbered, NumberedType DEF Years, Months
<1> HIDE DEF n
<1>7. n + (MaxDays - dday_passed) < D!AfterAll
  BY <1>5 DEF DDayInv
<1>8. n + 1 < D!AfterAll
  BY <1>1, <1>2, <1>5, <1>6, <1>7
<1>9. Shows(today')
  BY <1>1, <1>3, <1>4, <1>8 DEF t, Shows, IsDay, D!IsDate, Years, Months
<1>10. dday_passed' \in 0..MaxDays
       /\ D!DayNumber(today') + (MaxDays - dday_passed') < D!AfterAll
  <2>1. dday_passed' \in 0..MaxDays /\ (n + 1) + (MaxDays - dday_passed') < D!AfterAll
    BY <1>1, <1>2, <1>5, <1>6, <1>7
  <2> QED
    BY <1>1, <1>5, <2>1 DEF t
<1>11. D!TypeOK' /\ D!ShowsDays'
  BY <1>1 DEF DDayInv, D!TypeOK, D!ShowsDays
<1>12. Shows(drawn') /\ g_dday' \in Target /\ tmp_date' \in Target
  BY <1>1 DEF DDayInv
<1> QED
  BY <1>9, <1>10, <1>11, <1>12 DEF DDayInv

\* What a draw leaves on the display.
LEMMA DrawnRight ==
  ASSUME DDayInv, NEW target \in Target, D!Draw(target)
  PROVE  /\ shown' = D!DayNumber(drawn') - D!DayNumber(target)
         /\ shown' = D!Int16(shown')
         /\ drawn' = today /\ Shows(drawn')
<1>1. Shows(today)
  BY DEF DDayInv
<1>2. shown' = D!calc_d_day(target, today) /\ drawn' = today
  BY DEF D!Draw
<1>3. /\ D!calc_d_day(target, today) = D!DayNumber(today) - D!DayNumber(target)
      /\ D!calc_d_day(target, today) = D!Int16(D!calc_d_day(target, today))
  <2>1. today.year \in DayYears /\ today.mon \in Months /\ today.day \in 1..255
    BY <1>1, DateFacts
  <2>2. target.year \in DayYears /\ target.mon \in Months /\ target.day \in 1..255
    BY TargetFacts
  <2> QED
    BY <2>1, <2>2, DaysBetween
<1> QED
  BY <1>1, <1>2, <1>3

\* Showing the date, and leaving it.
LEMMA DDayShownInv ==
  ASSUME DDayInv,
         D!d_day_activate \/ D!d_day_deactivate \/ D!up_btn_pressed
         \/ D!star_long_pressed \/ D!edit_save
  PROVE  DDayInv'
<1>1. /\ UNCHANGED <<today, dday_passed>>
      /\ mode' \in {"off", "on", "edit"} /\ g_view_state' \in {0, 1}
      /\ g_dday' \in Target /\ tmp_date' \in Target
      /\ \/ mode' = "on" /\ D!Draw(g_dday')
         \/ mode' # "on" /\ shown' = D!None /\ drawn' = drawn
  <2>1. /\ g_dday \in Target /\ tmp_date \in Target /\ g_view_state \in {0, 1}
        /\ mode \in {"off", "on", "edit"}
    BY DEF DDayInv, D!TypeOK
  <2>2. CASE D!d_day_activate
    BY <2>1, <2>2 DEF D!d_day_activate
  <2>3. CASE D!d_day_deactivate
    BY <2>1, <2>3 DEF D!d_day_deactivate
  <2>4. CASE D!up_btn_pressed
    BY <2>1, <2>4 DEF D!up_btn_pressed
  <2>5. CASE D!star_long_pressed
    BY <2>1, <2>5 DEF D!star_long_pressed
  <2>6. CASE D!edit_save
    BY <2>1, <2>6 DEF D!edit_save
  <2> QED
    BY <2>2, <2>3, <2>4, <2>5, <2>6
<1>2. \/ /\ mode' = "on" /\ shown' = D!DayNumber(drawn') - D!DayNumber(g_dday')
         /\ shown' = D!Int16(shown') /\ Shows(drawn')
      \/ mode' # "on" /\ shown' = D!None /\ Shows(drawn')
  <2>1. CASE mode' = "on" /\ D!Draw(g_dday')
    BY <1>1, <2>1, DrawnRight
  <2>2. CASE mode' # "on" /\ shown' = D!None /\ drawn' = drawn
    BY <2>2 DEF DDayInv
  <2> QED
    BY <1>1, <2>1, <2>2
<1>3. D!ShowsDays'
  BY <1>2 DEF D!ShowsDays
<1>4. D!TypeOK'
  BY <1>1, <1>2 DEF D!TypeOK, Target
<1>5. Shows(today') /\ dday_passed' \in 0..MaxDays
      /\ D!DayNumber(today') + (MaxDays - dday_passed') < D!AfterAll
  BY <1>1 DEF DDayInv
<1> QED
  BY <1>1, <1>2, <1>3, <1>4, <1>5 DEF DDayInv

\* An edit stays among the years, months and days it may enter.
LEMMA EditSetInv ==
  ASSUME DDayInv, NEW field \in {"yy", "mm", "dd"}, NEW step \in {-1, 1},
         D!EditSet(field, step)
  PROVE  DDayInv'
<1>1. UNCHANGED <<today, dday_passed, g_dday, mode, g_view_state, shown, drawn>>
  BY DEF D!EditSet
<1>2. tmp_date \in Target /\ tmp_date.year \in Years /\ tmp_date.mon \in Months
  BY TargetFacts DEF DDayInv
<1>3. tmp_date' \in Target
  <2> DEFINE y == D!Loop(tmp_date.year, 2000, 2020, step, 65535)
             m == D!Loop(tmp_date.mon, 1, 12, step, 255)
             u == D!get_number_of_days(tmp_date.mon, tmp_date.year)
             d == D!Loop(tmp_date.day, 1, u, step, 255)
  <2>1. u \in 28..31
    BY <1>2, DaysOfMonth
  <2> HIDE DEF u
  <2>2. y \in 2000..2020
    BY <1>2 DEF D!Loop, Target
  <2>3. m \in 1..12
    BY <1>2 DEF D!Loop, Target
  <2>4. d \in 1..255
    BY <1>2, <2>1 DEF D!Loop, Target
  <2>5. \/ tmp_date' = [tmp_date EXCEPT !.year = y]
        \/ tmp_date' = [tmp_date EXCEPT !.mon = m]
        \/ tmp_date' = [tmp_date EXCEPT !.day = d]
    BY DEF D!EditSet, u
  <2> HIDE DEF y, m, d
  <2> QED
    BY <1>2, <2>2, <2>3, <2>4, <2>5 DEF Target
<1>4. D!TypeOK' /\ D!ShowsDays'
  BY <1>1 DEF DDayInv, D!TypeOK, D!ShowsDays
<1> QED
  BY <1>1, <1>3, <1>4 DEF DDayInv

LEMMA DDayStep ==
  ASSUME DDayInv, [D!Next]_(D!vars)
  PROVE  DDayInv'
<1>1. CASE UNCHANGED D!vars
  BY <1>1 DEF D!vars, DDayInv, D!TypeOK, D!ShowsDays
<1> QED
  BY <1>1, MidnightInv, DDayShownInv, EditSetInv DEF D!Next

-----------------------------------------------------------------------------
(* Otp.                                                                    *)

Time == [year : Nat, mon : Nat, day : Nat, hour : Nat, min : Nat, sec : Nat]

\* Otp's calendar is DDay's.
LEMMA SameCalendar ==
  /\ \A d : /\ O!DayNumber(d) = D!DayNumber(d) /\ O!IsDate(d) = D!IsDate(d)
            /\ O!DaysIn(d.year, d.mon) = D!DaysIn(d.year, d.mon)
  /\ O!AfterAll = D!AfterAll
<1>1. \A y : O!IsLeap(y) = D!IsLeap(y)
  BY DEF O!IsLeap, D!IsLeap
<1>2. \A y, m : O!DaysIn(y, m) = D!DaysIn(y, m)
  BY <1>1 DEF O!DaysIn, D!DaysIn
<1>3. ASSUME NEW SS
      PROVE  O!Cardinality(SS) = D!Cardinality(SS)
  BY DEF O!Cardinality, D!Cardinality
<1>4. ASSUME NEW d
      PROVE  O!DayNumber(d) = D!DayNumber(d)
  <2>1. {y \in 1970..d.year - 1 : O!IsLeap(y)} = {y \in 1970..d.year - 1 : D!IsLeap(y)}
    BY <1>1
  <2> QED
    BY <1>1, <1>3, <2>1 DEF O!DayNumber, D!DayNumber
<1>5. \A d : O!IsDate(d) = D!IsDate(d)
  BY <1>2 DEF O!IsDate, D!IsDate
<1>6. O!AfterAll = D!AfterAll
  BY <1>4 DEF O!AfterAll, D!AfterAll
<1> QED
  BY <1>2, <1>4, <1>5, <1>6

\* A time the clock may show, of the years simple_mktime is for.
ShowsTime(t) ==
  /\ t \in Time /\ D!IsDate(t) /\ t.year >= 2000
  /\ t.hour \in 0..23 /\ t.min \in 0..59 /\ t.sec \in 0..59

\* Hours, minutes and seconds in seconds.
LEMMA InSeconds ==
  ASSUME NEW n \in Nat, NEW t, t.hour \in 0..23, t.min \in 0..59, t.sec \in 0..59
  PROVE  /\ ((n * 24 + t.hour) * 60 + t.min) * 60 + t.sec \in Nat
         /\ 86400 * n <= ((n * 24 + t.hour) * 60 + t.min) * 60 + t.sec
         /\ ((n * 24 + t.hour) * 60 + t.min) * 60 + t.sec <= 86400 * n + 86399
<1> DEFINE h == t.hour
           m == t.min
           s == t.sec
<1>1. h \in 0..23 /\ m \in 0..59 /\ s \in 0..59
  OBVIOUS
<1> HIDE DEF h, m, s
<1> DEFINE x == n * 24 + h
<1>2. x \in Nat /\ 24 * n <= x /\ x <= 24 * n + 23
  BY <1>1
<1> HIDE DEF x
<1> DEFINE y == x * 60 + m
<1>3. y \in Nat /\ 1440 * n <= y /\ y <= 1440 * n + 1439
  BY <1>1, <1>2
<1> HIDE DEF y
<1> DEFINE z == y * 60 + s
<1>4. z \in Nat /\ 86400 * n <= z /\ z <= 86400 * n + 86399
  BY <1>1, <1>3
<1>5. z = ((n * 24 + t.hour) * 60 + t.min) * 60 + t.sec
  BY DEF x, y, h, m, s
<1> HIDE DEF z
<1> QED
  BY <1>4, <1>5

\* The second of the epoch, from the number of the day.
LEMMA EpochFacts ==
  ASSUME NEW t, ShowsTime(t)
  PROVE  /\ IsDay(t.year, t.mon, t.day)
         /\ t.year \in Years /\ t.mon \in Months /\ t.day \in 1..31 /\ t.year >= 2000
         /\ D!DayNumber(t) = Numbered(t.year, t.mon, t.day)
         /\ D!DayNumber(t) \in Nat /\ D!DayNumber(t) >= 10950
         /\ O!Epoch(t) = ((D!DayNumber(t) * 24 + t.hour) * 60 + t.min) * 60 + t.sec
         /\ O!Epoch(t) \in Nat
<1>1. /\ t.year \in Years \ {2051} /\ t.mon \in Months /\ t.day \in 1..D!DaysIn(t.year, t.mon)
      /\ t.year >= 2000 /\ t.hour \in 0..23 /\ t.min \in 0..59 /\ t.sec \in 0..59
  BY DEF ShowsTime, Time, D!IsDate, Years, Months
<1>2. /\ D!DaysIn(t.year, t.mon) \in 28..31 /\ Before[t.mon] \in 0..334
      /\ LeapDay(t.year, t.mon) \in 0..1 /\ (t.year - 1969) \div 4 \in 0..20
  BY <1>1, NumberedType
<1>3. t.day \in 1..31 /\ t.day \in Int /\ t.year \in Int
  BY <1>1, <1>2 DEF Years
<1>4. D!DayNumber(t) = Numbered(t.year, t.mon, t.day)
  BY <1>1, <1>3, DayIsNumbered
<1>5. Numbered(t.year, t.mon, t.day) \in Nat /\ Numbered(t.year, t.mon, t.day) >= 10950
  <2> DEFINE k == 365 * (t.year - 1970)
             q == (t.year - 1969) \div 4
             b == Before[t.mon]
             l == LeapDay(t.year, t.mon)
  <2>1. k \in Nat /\ k >= 10950
    BY <1>1, <1>3
  <2>2. Numbered(t.year, t.mon, t.day) = k + q + t.day - 1 + b + l
    BY DEF Numbered
  <2>3. b \in 0..334 /\ l \in 0..1 /\ q \in 0..20
    BY <1>2
  <2> HIDE DEF k, q, b, l
  <2> QED
    BY <1>3, <2>1, <2>2, <2>3
<1>6. O!Epoch(t) = ((D!DayNumber(t) * 24 + t.hour) * 60 + t.min) * 60 + t.sec
  BY SameCalendar DEF O!Epoch
<1>7. O!Epoch(t) \in Nat
  <2> DEFINE n == D!DayNumber(t)
  <2>1. n \in Nat
    BY <1>4, <1>5
  <2> HIDE DEF n
  <2> QED
    BY <1>1, <1>6, <2>1, InSeconds DEF n
<1> QED
  BY <1>1, <1>3, <1>4, <1>5, <1>6, <1>7 DEF IsDay

\* The C function, with its words of 16 bits, is the second of the epoch.
LEMMA MkTime ==
  ASSUME NEW t, ShowsTime(t)
  PROVE  O!simple_mktime(t) = O!Epoch(t)
<1>1. /\ t.year \in Years /\ t.mon \in Months /\ t.day \in 1..31 /\ t.year \in Int
      /\ t.hour \in 0..23 /\ t.min \in 0..59 /\ t.sec \in 0..59
      /\ t.year >= 2000 /\ t.year <= 2051 /\ t.mon \in 1..12
  BY EpochFacts DEF ShowsTime, Years, Months
<1> DEFINE k == (t.year - 1970) * 365
           b == Before[t.mon]
           l == LeapDay(t.year, t.mon)
           q == (t.year - 1969) \div 4
           y == IF t.mon <= 2 THEN t.year - 1 ELSE t.year
<1>2. b \in 0..334 /\ l \in 0..1 /\ q \in 0..20
  BY <1>1, NumberedType
<1>3. k \in Int /\ 0 <= k /\ k <= 29565
  BY <1>1
<1>4. (y - 1968) \div 4 = q + l
  BY <1>1 DEF LeapDay
<1>5. O!days[t.mon] = b
  BY DEF O!days, Before
<1> HIDE DEF k, b, l, q, y
<1>6. O!Int16(k + b) = k + b
  BY <1>2, <1>3 DEF O!Int16
<1>7. O!simple_mktime(t)
        = ((((O!Int16(k + b) + (y - 1968) \div 4 + t.day - 1) * 24 + t.hour) * 60) + t.min) * 60
          + t.sec
  BY <1>5 DEF O!simple_mktime, k, y
<1>8. D!DayNumber(t) = k + q + t.day - 1 + b + l
  <2>1. Numbered(t.year, t.mon, t.day) = 365 * (t.year - 1970) + q + t.day - 1 + b + l
    BY DEF Numbered, q, b, l
  <2>2. 365 * (t.year - 1970) = k
    BY <1>1 DEF k
  <2> QED
    BY <2>1, <2>2, EpochFacts
<1>9. D!DayNumber(t) = k + b + (q + l) + t.day - 1
  BY <1>1, <1>2, <1>3, <1>8
<1> QED
  BY <1>4, <1>6, <1>7, <1>9, EpochFacts

\* What create_otp_time counts are the half minutes of UTC; none is the 0th.
LEMMA OtpTime ==
  ASSUME NEW t, ShowsTime(t), NEW offset \in Offsets
  PROVE  /\ O!create_otp_time(t, offset) = (O!Epoch(t) - offset * 3600) \div 30
         /\ O!create_otp_time(t, offset) # 0
<1>1. offset \in -9..9
  BY ModulesAssumption DEF O!OtpAssumption
<1>2. O!Int16(offset * 3600) = offset * 3600
  BY <1>1 DEF O!Int16
<1>3. /\ D!DayNumber(t) \in Nat /\ D!DayNumber(t) >= 10950
      /\ O!Epoch(t) = ((D!DayNumber(t) * 24 + t.hour) * 60 + t.min) * 60 + t.sec
      /\ t.hour \in 0..23 /\ t.min \in 0..59 /\ t.sec \in 0..59
  BY EpochFacts DEF ShowsTime
<1>4. O!Epoch(t) \in Nat /\ O!Epoch(t) > 40000
  <2> DEFINE n == D!DayNumber(t)
  <2>1. n \in Nat /\ n >= 10950
    BY <1>3
  <2> HIDE DEF n
  <2>2. O!Epoch(t) \in Nat /\ O!Epoch(t) >= 86400 * n
    BY <1>3, <2>1, InSeconds DEF n
  <2> QED
    BY <2>1, <2>2
<1>5. O!create_otp_time(t, offset) = (O!Epoch(t) - offset * 3600) \div 30
  BY <1>2, MkTime DEF O!create_otp_time
<1>6. (O!Epoch(t) - offset * 3600) \div 30 # 0
  BY <1>1, <1>4
<1> QED
  BY <1>5, <1>6

\* The day after the day of a time.
LEMMA NextDayOfTime ==
  ASSUME NEW t, ShowsTime(t)
  PROVE  LET d == O!NextDay(t)
         IN  /\ d \in Time /\ d.year >= 2000
             /\ D!DayNumber(d) = D!DayNumber(t) + 1
             /\ D!DayNumber(t) + 1 < D!AfterAll => D!IsDate(d)
<1> DEFINE d == O!NextDay(t)
<1>1. /\ t \in Time /\ IsDay(t.year, t.mon, t.day) /\ t.year >= 2000
      /\ t.year \in Years /\ t.mon \in Months /\ t.day \in Int
      /\ t.year \in Nat /\ t.mon \in Nat /\ t.day \in Nat
      /\ D!DayNumber(t) = Numbered(t.year, t.mon, t.day)
  BY EpochFacts DEF ShowsTime, Time
<1>2. /\ d \in Time /\ d.year >= 2000
      /\ IF t.day < D!DaysIn(t.year, t.mon)
         THEN d.year = t.year /\ d.mon = t.mon /\ d.day = t.day + 1
         ELSE IF t.mon < 12 THEN d.year = t.year /\ d.mon = t.mon + 1 /\ d.day = 1
         ELSE d.year = t.year + 1 /\ d.mon = 1 /\ d.day = 1
  <2>0. O!DaysIn(t.year, t.mon) = D!DaysIn(t.year, t.mon)
    BY SameCalendar
  <2>1. CASE t.day < D!DaysIn(t.year, t.mon)
    <3>1. d = [t EXCEPT !.day = t.day + 1]
      BY <2>0, <2>1 DEF O!NextDay
    <3> HIDE DEF d
    <3> QED
      BY <1>1, <2>1, <3>1 DEF Time
  <2>2. CASE ~(t.day < D!DaysIn(t.year, t.mon)) /\ t.mon < 12
    <3> DEFINE s == [t EXCEPT !.day = 1]
    <3>1. d = [s EXCEPT !.mon = t.mon + 1]
      BY <2>0, <2>2 DEF O!NextDay
    <3>2. s \in Time /\ s.year = t.year /\ s.mon = t.mon /\ s.day = 1
      BY <1>1 DEF Time
    <3> HIDE DEF s, d
    <3>3. d \in Time /\ d.year = t.year /\ d.mon = t.mon + 1 /\ d.day = 1
      BY <1>1, <3>1, <3>2 DEF Time
    <3> QED
      BY <1>1, <2>2, <3>3
  <2>3. CASE ~(t.day < D!DaysIn(t.year, t.mon)) /\ ~(t.mon < 12)
    <3> DEFINE s == [t EXCEPT !.day = 1]
               r == [s EXCEPT !.mon = 1]
    <3>1. d = [r EXCEPT !.year = t.year + 1]
      BY <2>0, <2>3 DEF O!NextDay
    <3>2. s \in Time /\ s.year = t.year /\ s.mon = t.mon /\ s.day = 1
      BY <1>1 DEF Time
    <3> HIDE DEF s, d
    <3>3. r \in Time /\ r.year = t.year /\ r.mon = 1 /\ r.day = 1
      BY <3>2 DEF Time
    <3> HIDE DEF r
    <3>4. d \in Time /\ d.year = t.year + 1 /\ d.mon = 1 /\ d.day = 1
      BY <1>1, <3>1, <3>3 DEF Time
    <3> QED
      BY <1>1, <2>3, <3>4
  <2> QED
    BY <2>1, <2>2, <2>3
<1> HIDE DEF d
<1>3. /\ Numbered(d.year, d.mon, d.day) = Numbered(t.year, t.mon, t.day) + 1
      /\ d.year \in Years /\ d.mon \in Months /\ d.day \in Int
      /\ Numbered(t.year, t.mon, t.day) + 1 < D!AfterAll => IsDay(d.year, d.mon, d.day)
  BY <1>1, <1>2, NextFields
<1>4. D!DayNumber(d) = Numbered(d.year, d.mon, d.day)
  BY <1>3, DayIsNumbered
<1>5. IsDay(d.year, d.mon, d.day) => D!IsDate(d)
  BY DEF IsDay, D!IsDate, Years, Months
<1>6. /\ d \in Time /\ d.year >= 2000 /\ D!DayNumber(d) = D!DayNumber(t) + 1
      /\ D!DayNumber(t) + 1 < D!AfterAll => D!IsDate(d)
  BY <1>1, <1>2, <1>3, <1>4, <1>5
<1> QED
  BY <1>6 DEF d

\* The number of a day is that of its fields.
LEMMA NumberOfFields ==
  ASSUME NEW d, NEW t, t.year = d.year, t.mon = d.mon, t.day = d.day
  PROVE  D!DayNumber(t) = D!DayNumber(d) /\ D!IsDate(t) = D!IsDate(d)
BY DEF D!DayNumber, D!IsDate

\* The next second of the clock is the next one of the epoch.
LEMMA NextSecondFollows ==
  ASSUME NEW t, ShowsTime(t), O!Epoch(t) + 1 < 86400 * D!AfterAll
  PROVE  /\ ShowsTime(O!NextSecond(t))
         /\ O!Epoch(O!NextSecond(t)) = O!Epoch(t) + 1
<1> DEFINE s == (t.sec + 1) % 60
           m == IF s = 0 THEN (t.min + 1) % 60 ELSE t.min
           h == IF s = 0 /\ m = 0 THEN (t.hour + 1) % 24 ELSE t.hour
           turn == s = 0 /\ m = 0 /\ h = 0
           d == IF turn THEN O!NextDay(t) ELSE t
           n == O!NextSecond(t)
           k == D!DayNumber(t)
<1>1. t \in Time /\ t.hour \in 0..23 /\ t.min \in 0..59 /\ t.sec \in 0..59
  BY DEF ShowsTime
<1>2. s \in 0..59 /\ m \in 0..59 /\ h \in 0..23
  BY <1>1
<1>3. n = [d EXCEPT !.hour = h, !.min = m, !.sec = s]
  BY DEF O!NextSecond
<1>4. /\ k \in Nat /\ O!Epoch(t) = ((k * 24 + t.hour) * 60 + t.min) * 60 + t.sec
      /\ O!Epoch(t) \in Nat
  BY EpochFacts
<1> HIDE DEF n, k
<1>5. ((k + (IF turn THEN 1 ELSE 0)) * 24 + h) * 60 + m
        = (k * 24 + t.hour) * 60 + t.min + (IF s = 0 THEN 1 ELSE 0)
  <2> DEFINE hour == t.hour
             min == t.min
  <2>1. hour \in 0..23 /\ min \in 0..59
    BY <1>1
  <2>2. CASE s # 0
    <3>1. m = min /\ h = hour /\ ~turn
      BY <2>2
    <3> HIDE DEF s, m, h, turn, hour, min
    <3>2. ((k + 0) * 24 + h) * 60 + m = (k * 24 + hour) * 60 + min + 0
      BY <1>4, <2>1, <3>1
    <3> QED
      BY <2>2, <3>1, <3>2 DEF hour, min
  <2>3. CASE s = 0 /\ m # 0
    <3>1. m = min + 1 /\ h = hour /\ ~turn
      BY <2>1, <2>3
    <3> HIDE DEF s, m, h, turn, hour, min
    <3>2. ((k + 0) * 24 + h) * 60 + m = (k * 24 + hour) * 60 + min + 1
      BY <1>4, <2>1, <3>1
    <3> QED
      BY <2>3, <3>1, <3>2 DEF hour, min
  <2>4. CASE s = 0 /\ m = 0 /\ h # 0
    <3>1. m = 0 /\ min = 59 /\ h = hour + 1 /\ ~turn
      BY <2>1, <2>4
    <3> HIDE DEF s, m, h, turn, hour, min
    <3>2. ((k + 0) * 24 + h) * 60 + m = (k * 24 + hour) * 60 + min + 1
      BY <1>4, <2>1, <3>1
    <3> QED
      BY <2>4, <3>1, <3>2 DEF hour, min
  <2>5. CASE s = 0 /\ m = 0 /\ h = 0
    <3>1. m = 0 /\ min = 59 /\ h = 0 /\ hour = 23 /\ turn
      BY <2>1, <2>5
    <3> HIDE DEF s, m, h, turn, hour, min
    <3>2. ((k + 1) * 24 + h) * 60 + m = (k * 24 + hour) * 60 + min + 1
      BY <1>4, <2>1, <3>1
    <3> QED
      BY <2>5, <3>1, <3>2 DEF hour, min
  <2> QED
    BY <2>2, <2>3, <2>4, <2>5
<1>6. s = IF s = 0 THEN t.sec - 59 ELSE t.sec + 1
  BY <1>1
<1>7. D!AfterAll \in Int
  BY AfterAllNumbered, NumberedType DEF Years, Months
<1>8. turn => k + 1 < D!AfterAll
  <2>1. SUFFICES ASSUME turn
                 PROVE  k + 1 < D!AfterAll
    OBVIOUS
  <2>2. t.sec = 59 /\ t.min = 59 /\ t.hour = 23
    BY <1>1, <2>1
  <2>3. O!Epoch(t) + 1 = 86400 * (k + 1)
    BY <1>4, <2>2
  <2> QED
    BY <1>4, <1>7, <2>3
<1>9. /\ d \in Time /\ d.year >= 2000 /\ D!IsDate(d)
      /\ D!DayNumber(d) = k + (IF turn THEN 1 ELSE 0)
  <2>1. CASE turn
    <3>1. D!DayNumber(t) + 1 < D!AfterAll
      BY <1>8, <2>1 DEF k
    <3> QED
      BY <2>1, <3>1, NextDayOfTime DEF k
  <2>2. CASE ~turn
    <3>1. d = t
      BY <2>2
    <3>2. D!DayNumber(t) = k + 0
      BY <1>4 DEF k
    <3> QED
      BY <2>2, <3>1, <3>2 DEF ShowsTime
  <2> QED
    BY <2>1, <2>2
<1> HIDE DEF d
<1>10. /\ n \in Time /\ n.year = d.year /\ n.mon = d.mon /\ n.day = d.day
       /\ n.hour = h /\ n.min = m /\ n.sec = s
  <2> DEFINE n1 == [d EXCEPT !.hour = h]
             n2 == [n1 EXCEPT !.min = m]
  <2>1. h \in Nat /\ m \in Nat /\ s \in Nat
    BY <1>2
  <2> HIDE DEF h, m, s
  <2>2. /\ n1 \in Time /\ n1.year = d.year /\ n1.mon = d.mon /\ n1.day = d.day
        /\ n1.hour = h
    BY <1>9, <2>1 DEF Time
  <2>3. n = [n2 EXCEPT !.sec = s]
    BY <1>3
  <2> HIDE DEF n1
  <2>4. /\ n2 \in Time /\ n2.year = d.year /\ n2.mon = d.mon /\ n2.day = d.day
        /\ n2.hour = h /\ n2.min = m
    BY <2>1, <2>2 DEF Time
  <2> HIDE DEF n2
  <2> QED
    BY <2>1, <2>3, <2>4 DEF Time
<1>11. D!DayNumber(n) = D!DayNumber(d) /\ D!IsDate(n) = D!IsDate(d)
  BY <1>10, NumberOfFields
<1>12. ShowsTime(n)
  BY <1>2, <1>9, <1>10, <1>11 DEF ShowsTime
<1>13. O!Epoch(n) = ((D!DayNumber(n) * 24 + n.hour) * 60 + n.min) * 60 + n.sec
  BY <1>12, EpochFacts
<1>14. O!Epoch(n) = O!Epoch(t) + 1
  <2> DEFINE a == (k * 24 + t.hour) * 60 + t.min
             z == t.sec
  <2>1. a \in Nat /\ z \in 0..59
    BY <1>1, <1>4
  <2>2. O!Epoch(t) = a * 60 + z
    BY <1>4
  <2>3. O!Epoch(n) = (((k + (IF turn THEN 1 ELSE 0)) * 24 + h) * 60 + m) * 60 + s
    BY <1>9, <1>10, <1>11, <1>13
  <2>4. O!Epoch(n) = (a + (IF s = 0 THEN 1 ELSE 0)) * 60 + s
    BY <1>5, <2>3
  <2>5. s = IF s = 0 THEN z - 59 ELSE z + 1
    BY <1>6
  <2> HIDE DEF a, z, s, m, h, turn
  <2>6. CASE s = 0
    BY <2>1, <2>2, <2>4, <2>5, <2>6
  <2>7. CASE s # 0
    BY <2>1, <2>2, <2>4, <2>5, <2>7
  <2> QED
    BY <2>6, <2>7
<1> QED
  BY <1>12, <1>14 DEF n

-----------------------------------------------------------------------------
\* The last second of a behaviour is before the year 2051.
OtpClockInv ==
  /\ otp_offset \in Offsets
  /\ ShowsTime(rtca_time)
  /\ begin \in Nat /\ otp_passed \in 0..MaxSeconds
  /\ O!Epoch(rtca_time) = begin + otp_passed
  /\ begin + MaxSeconds < 86400 * D!AfterAll

\* The name is up for a whole count; a password on the display is the last one.
OtpInv ==
  /\ OtpClockInv
  /\ O!TypeOK
  /\ service_display_remain \in {0, 4, 5}
  /\ g_display_state = "service" => service_display_remain = 5
  /\ \/ ~otp_visible /\ display = <<>>
     \/ otp_visible /\ display = <<g_service>>
     \/ /\ otp_visible /\ display = <<g_service, O!HalfMinute>>
        /\ g_display_state = "otp"
        /\ last_service = g_service /\ last_time = O!HalfMinute
        /\ segment = ((begin + otp_passed) % 30) \div 5

LEMMA OtpFacts ==
  /\ Offsets \subseteq -9..9
  /\ MaxSeconds \in Nat /\ SERVICE_COUNT \in Nat /\ SERVICE_COUNT # 0 /\ D!AfterAll \in Int
<1>1. MaxSeconds \in Nat /\ SERVICE_COUNT \in Nat \ {0} /\ Offsets \subseteq -9..9
  BY ModulesAssumption DEF O!OtpAssumption
<1>2. D!AfterAll \in Int
  BY AfterAllNumbered, NumberedType DEF Years, Months
<1> QED
  BY <1>1, <1>2

\* The half minute, and how much of it is over.
LEMMA HalfMinuteFacts ==
  ASSUME NEW t, ShowsTime(t), NEW offset \in Offsets
  PROVE  /\ O!create_otp_time(t, offset) = (O!Epoch(t) - offset * 3600) \div 30
         /\ O!create_otp_time(t, offset) # 0
         /\ (t.sec \div 5) % 6 = (O!Epoch(t) % 30) \div 5
         /\ t.sec \in 0..59
<1>2. /\ O!create_otp_time(t, offset) = (O!Epoch(t) - offset * 3600) \div 30
      /\ O!create_otp_time(t, offset) # 0
  BY OtpTime
<1> DEFINE k == D!DayNumber(t)
           x == (k * 24 + t.hour) * 60 + t.min
           s == t.sec
<1>3. x \in Nat /\ s \in 0..59 /\ O!Epoch(t) = x * 60 + s
  <2>1. k \in Nat /\ O!Epoch(t) = x * 60 + s
    BY EpochFacts
  <2>2. t.hour \in 0..23 /\ t.min \in 0..59 /\ s \in 0..59
    BY DEF ShowsTime
  <2> HIDE DEF k
  <2> DEFINE y == k * 24 + t.hour
  <2>3. y \in Nat
    BY <2>1, <2>2
  <2> HIDE DEF y
  <2>4. y * 60 + t.min \in Nat
    BY <2>2, <2>3
  <2> QED
    BY <2>1, <2>2, <2>4 DEF y
<1> HIDE DEF x, s
<1>4. O!Epoch(t) % 30 = s % 30
  BY <1>3
<1>5. (s \div 5) % 6 = (s % 30) \div 5
  BY <1>3
<1> QED
  BY <1>2, <1>3, <1>4, <1>5 DEF s

LEMMA OtpInit ==
  ASSUME O!Init
  PROVE  OtpInv
<1>1. /\ otp_offset \in Offsets /\ rtca_time \in OtpStarts /\ otp_passed = 0
      /\ begin = O!Epoch(rtca_time) /\ otp_visible = FALSE
      /\ g_service = 0 /\ g_display_state = "otp" /\ service_display_remain = 0
      /\ last_time = 0 /\ last_service = 0 /\ display = <<>> /\ segment = 0
  BY DEF O!Init
<1>2. /\ rtca_time \in [year : 2000..2050, mon : 1..12, day : 1..31,
                        hour : 0..23, min : 0..59, sec : 0..59]
      /\ O!IsDate(rtca_time)
      /\ O!DayNumber(rtca_time) + MaxSeconds \div 86400 + 1 < O!AfterAll
  BY <1>1, ModulesAssumption DEF O!OtpAssumption
<1>3. ShowsTime(rtca_time)
  BY <1>2, SameCalendar DEF ShowsTime, Time
<1>4. begin + MaxSeconds < 86400 * D!AfterAll /\ begin \in Nat
  <2> DEFINE n == D!DayNumber(rtca_time)
             q == MaxSeconds \div 86400
             a == D!AfterAll
  <2>1. n \in Nat /\ begin = ((n * 24 + rtca_time.hour) * 60 + rtca_time.min) * 60 + rtca_time.sec
    BY <1>1, <1>3, EpochFacts
  <2>2. rtca_time.hour \in 0..23 /\ rtca_time.min \in 0..59 /\ rtca_time.sec \in 0..59
    BY <1>3 DEF ShowsTime
  <2>3. n + q + 1 < a
    BY <1>2, SameCalendar
  <2>4. q \in Nat /\ MaxSeconds < 86400 * q + 86400
    BY OtpFacts
  <2>5. a \in Int
    BY OtpFacts
  <2> HIDE DEF n, q, a
  <2>6. begin \in Nat /\ begin <= 86400 * n + 86399
    BY <2>1, <2>2, InSeconds
  <2>7. begin + MaxSeconds < 86400 * a
    BY <2>1, <2>3, <2>4, <2>5, <2>6, OtpFacts
  <2> QED
    BY <2>6, <2>7 DEF a
<1>5. OtpClockInv
  BY <1>1, <1>3, <1>4, OtpFacts DEF OtpClockInv
<1>6. O!TypeOK
  <2>1. otp_visible \in BOOLEAN
    BY <1>1, Zenon
  <2>2. 0 \in 0..SERVICE_COUNT - 1 /\ 0 \in 0..5
    BY OtpFacts
  <2> QED
    BY <1>1, <2>1, <2>2 DEF O!TypeOK
<1> QED
  BY <1>1, <1>5, <1>6 DEF OtpInv

\* A password that is not the last one is displayed.
LEMMA ClockEvent ==
  ASSUME NEW t, NEW s, NEW named, NEW remain, NEW last0, NEW time,
         t.sec \in 0..59, time # 0,
         time = O!create_otp_time(t, otp_offset),
         named = "service" => remain = 5, remain \in {0, 4, 5},
         O!clock_event(t, s, named, remain, last0)
  PROVE  /\ service_display_remain' \in {0, 4, 5} /\ g_display_state' = "otp"
         /\ segment' = (t.sec \div 5) % 6 /\ segment' \in 0..5
         /\ last_time' = time /\ last_service' = s
         /\ \/ display' = <<s, time>>
            \/ last0 = time /\ last_service = s /\ named # "service" /\ display' = display
<1>1. /\ service_display_remain' = IF named = "service" THEN remain - 1 ELSE remain
      /\ ~(named = "service" /\ remain - 1 = 0)
  BY DEF O!clock_event
<1>2. /\ g_display_state' = "otp" /\ segment' = (t.sec \div 5) % 6
      /\ LET old == IF named = "service" THEN 0 ELSE last0
         IN  IF O!IsCurrent(time, s, old)
             THEN last_time' = old /\ UNCHANGED <<last_service, display>>
             ELSE last_time' = time /\ last_service' = s /\ display' = <<s, time>>
  BY <1>1 DEF O!clock_event
<1>3. segment' \in 0..5
  BY <1>2
<1>4. service_display_remain' \in {0, 4, 5}
  BY <1>1
<1> QED
  BY <1>2, <1>3, <1>4 DEF O!IsCurrent

\* The second passes, for the clock.
LEMMA SecondPasses ==
  ASSUME OtpInv, O!Second
  PROVE  OtpClockInv'
<1>1. /\ otp_passed < MaxSeconds /\ otp_passed' = otp_passed + 1
      /\ rtca_time' = O!NextSecond(rtca_time)
      /\ UNCHANGED <<otp_offset, begin>>
  BY DEF O!Second
<1>2. /\ otp_offset \in Offsets /\ ShowsTime(rtca_time) /\ begin \in Nat
      /\ otp_passed \in 0..MaxSeconds
      /\ O!Epoch(rtca_time) = begin + otp_passed
      /\ begin + MaxSeconds < 86400 * D!AfterAll
  BY DEF OtpInv, OtpClockInv
<1>3. O!Epoch(rtca_time) + 1 < 86400 * D!AfterAll /\ otp_passed' \in 0..MaxSeconds
  BY <1>1, <1>2, OtpFacts
<1>4. /\ ShowsTime(O!NextSecond(rtca_time))
      /\ O!Epoch(O!NextSecond(rtca_time)) = O!Epoch(rtca_time) + 1
  BY <1>2, <1>3, NextSecondFollows
<1>5. ShowsTime(rtca_time')
  BY <1>1, <1>4
<1>6. O!Epoch(rtca_time') = begin' + otp_passed'
  BY <1>1, <1>2, <1>4
<1> QED
  BY <1>1, <1>2, <1>3, <1>5, <1>6 DEF OtpClockInv

\* What an event leaves, on a display that was right.
LEMMA EventInv ==
  ASSUME OtpClockInv', otp_visible' = TRUE, g_service' \in 0..SERVICE_COUNT - 1,
         UNCHANGED otp_offset,
         NEW named, NEW remain, NEW last0,
         named = "service" => remain = 5, remain \in {0, 4, 5},
         O!clock_event(rtca_time', g_service', named, remain, last0),
         OtpInv,
         \/ last0 = 0
         \/ last0 = last_time /\ g_service' = g_service /\ otp_visible
  PROVE  OtpInv'
<1>1. /\ ShowsTime(rtca_time') /\ otp_offset' \in Offsets
      /\ O!Epoch(rtca_time') = begin' + otp_passed'
      /\ begin' \in Nat /\ otp_passed' \in 0..MaxSeconds
  BY DEF OtpClockInv
<1> DEFINE time == O!create_otp_time(rtca_time', otp_offset')
<1>2. /\ time = (begin' + otp_passed' - otp_offset' * 3600) \div 30
      /\ time # 0 /\ rtca_time'.sec \in 0..59
      /\ (rtca_time'.sec \div 5) % 6 = ((begin' + otp_passed') % 30) \div 5
  <2> DEFINE t == rtca_time'
             o == otp_offset'
  <2>1. ShowsTime(t) /\ o \in Offsets
    BY <1>1
  <2> HIDE DEF t, o
  <2>2. /\ O!create_otp_time(t, o) = (O!Epoch(t) - o * 3600) \div 30
        /\ O!create_otp_time(t, o) # 0
        /\ (t.sec \div 5) % 6 = (O!Epoch(t) % 30) \div 5
        /\ t.sec \in 0..59
    BY <2>1, HalfMinuteFacts
  <2>3. O!Epoch(t) = begin' + otp_passed'
    BY <1>1 DEF t
  <2>4. time # 0 /\ time = (begin' + otp_passed' - otp_offset' * 3600) \div 30
    <3>1. time = O!create_otp_time(t, o)
      BY DEF t, o
    <3>2. O!create_otp_time(t, o) = (begin' + otp_passed' - o * 3600) \div 30
      <4>1. begin' \in Nat /\ otp_passed' \in Nat /\ o \in -9..9
        BY <1>1, <2>1, OtpFacts
      <4> QED
        BY <2>2, <2>3, <4>1
    <3> HIDE DEF time
    <3>3. o = otp_offset'
      BY DEF o
    <3> QED
      BY <2>2, <3>1, <3>2, <3>3
  <2>5. /\ rtca_time'.sec \in 0..59
        /\ (rtca_time'.sec \div 5) % 6 = ((begin' + otp_passed') % 30) \div 5
    BY <2>2, <2>3 DEF t
  <2> QED
    BY <2>4, <2>5
<1>3. time = O!HalfMinute'
  BY <1>2 DEF O!HalfMinute
<1>4. time = O!create_otp_time(rtca_time', otp_offset)
  OBVIOUS
<1> HIDE DEF time
<1>5. /\ service_display_remain' \in {0, 4, 5} /\ g_display_state' = "otp"
      /\ segment' = (rtca_time'.sec \div 5) % 6 /\ segment' \in 0..5
      /\ last_time' = time /\ last_service' = g_service'
      /\ \/ display' = <<g_service', time>>
         \/ /\ last0 = time /\ last_service = g_service' /\ named # "service"
            /\ display' = display
  BY <1>2, <1>4, ClockEvent
<1>6. \/ display' = <<g_service', O!HalfMinute'>>
      \/ display' = <<g_service'>>
  <2>1. CASE display' = <<g_service', time>>
    BY <1>3, <2>1
  <2>2. CASE last0 = time /\ display' = display
    <3>1. /\ last0 = last_time /\ g_service' = g_service /\ otp_visible /\ OtpInv
      BY <1>2, <2>2
    <3>2. \/ display = <<g_service>>
          \/ display = <<g_service, O!HalfMinute>> /\ last_time = O!HalfMinute
      BY <3>1 DEF OtpInv
    <3> QED
      BY <1>3, <2>2, <3>1, <3>2
  <2> QED
    BY <1>5, <2>1, <2>2
<1>7. O!TypeOK'
  <2>1. otp_visible' \in BOOLEAN
    BY Zenon
  <2> QED
    BY <1>5, <2>1 DEF O!TypeOK
<1> QED
  BY <1>2, <1>3, <1>5, <1>6, <1>7 DEF OtpInv

LEMMA SecondInv ==
  ASSUME OtpInv, O!Second
  PROVE  OtpInv'
<1>1. OtpClockInv'
  BY SecondPasses
<1>2. UNCHANGED <<otp_offset, begin, otp_visible, g_service>>
  BY DEF O!Second
<1>3. CASE otp_visible
  <2>1. O!clock_event(rtca_time', g_service', g_display_state, service_display_remain, last_time)
    BY <1>2, <1>3 DEF O!Second
  <2>2. otp_visible' = TRUE
    <3>1. otp_visible \in BOOLEAN
      BY DEF OtpInv, O!TypeOK
    <3> QED
      BY <1>2, <1>3, <3>1, Zenon
  <2>3. g_service' \in 0..SERVICE_COUNT - 1
    BY <1>2 DEF OtpInv, O!TypeOK
  <2>4. /\ g_display_state = "service" => service_display_remain = 5
        /\ service_display_remain \in {0, 4, 5}
    BY DEF OtpInv
  <2> QED
    BY <1>1, <1>2, <1>3, <2>1, <2>2, <2>3, <2>4, EventInv
<1>4. CASE ~otp_visible
  <2>1. UNCHANGED <<service_display_remain, g_display_state, last_time, last_service,
                    display, segment>>
    BY <1>4 DEF O!Second, O!last, O!screen
  <2>2. display = <<>>
    BY <1>4 DEF OtpInv
  <2> QED
    BY <1>1, <1>2, <1>4, <2>1, <2>2 DEF OtpInv, O!TypeOK
<1> QED
  BY <1>3, <1>4

\* The clock stands still while a button is pressed or the menu moves.
LEMMA ClockStands ==
  ASSUME OtpInv, UNCHANGED O!clock
  PROVE  /\ OtpClockInv' /\ UNCHANGED <<otp_offset, rtca_time, otp_passed, begin>>
         /\ O!HalfMinute' = O!HalfMinute
<1>1. UNCHANGED <<otp_offset, rtca_time, otp_passed, begin>>
  BY DEF O!clock
<1>2. OtpClockInv'
  BY <1>1 DEF OtpInv, OtpClockInv
<1> QED
  BY <1>1, <1>2 DEF O!HalfMinute

LEMMA ChooseInv ==
  ASSUME OtpInv, NEW step \in {1, SERVICE_COUNT - 1}, O!Choose(step)
  PROVE  OtpInv'
<1>1. /\ otp_visible /\ g_display_state' = "otp"
      /\ g_service' = (g_service + step) % SERVICE_COUNT /\ display' = <<g_service'>>
      /\ UNCHANGED <<otp_visible, service_display_remain, last_time, last_service, segment>>
      /\ UNCHANGED O!clock
  BY DEF O!Choose, O!last
<1>2. g_service \in 0..SERVICE_COUNT - 1
  BY DEF OtpInv, O!TypeOK
<1>3. g_service' \in 0..SERVICE_COUNT - 1
  BY <1>1, <1>2, OtpFacts
<1> QED
  BY <1>1, <1>3, ClockStands DEF OtpInv, O!TypeOK

LEMMA NumInv ==
  ASSUME OtpInv, O!num_pressed
  PROVE  OtpInv'
<1>1. otp_visible /\ UNCHANGED <<otp_visible, g_service>> /\ UNCHANGED O!clock
  BY DEF O!num_pressed
<1>2. OtpClockInv' /\ UNCHANGED <<otp_offset, rtca_time, otp_passed, begin>>
  BY <1>1, ClockStands
<1>3. CASE g_display_state = "otp"
  <2>1. /\ g_display_state' = "service" /\ service_display_remain' = 5
        /\ display' = <<g_service>> /\ UNCHANGED <<last_time, last_service, segment>>
    BY <1>3 DEF O!num_pressed, O!last
  <2> QED
    BY <1>1, <1>2, <2>1 DEF OtpInv, O!TypeOK
<1>4. CASE g_display_state # "otp"
  <2>1. O!clock_event(rtca_time', g_service', "otp", service_display_remain, 0)
    BY <1>1, <1>2, <1>4 DEF O!num_pressed
  <2>2. otp_visible' = TRUE
    <3>1. otp_visible \in BOOLEAN
      BY DEF OtpInv, O!TypeOK
    <3> QED
      BY <1>1, <3>1, Zenon
  <2>3. g_service' \in 0..SERVICE_COUNT - 1 /\ service_display_remain \in {0, 4, 5}
    BY <1>1 DEF OtpInv, O!TypeOK
  <2> QED
    BY <1>2, <2>1, <2>2, <2>3, EventInv
<1> QED
  BY <1>3, <1>4

LEMMA ActivatedInv ==
  ASSUME OtpInv, O!otp_activated
  PROVE  OtpInv'
<1>1. UNCHANGED O!clock
  BY DEF O!otp_activated
<1>2. OtpClockInv' /\ UNCHANGED <<otp_offset, rtca_time, otp_passed, begin>>
  BY <1>1, ClockStands
<1>3. O!clock_event(rtca_time', g_service', g_display_state, service_display_remain, 0)
  BY <1>2 DEF O!otp_activated
<1>4. otp_visible' = TRUE
  BY DEF O!otp_activated
<1>5. /\ g_service' \in 0..SERVICE_COUNT - 1 /\ service_display_remain \in {0, 4, 5}
      /\ g_display_state = "service" => service_display_remain = 5
  BY OtpFacts DEF O!otp_activated, OtpInv
<1> QED
  BY <1>2, <1>3, <1>4, <1>5, EventInv

LEMMA DeactivatedInv ==
  ASSUME OtpInv, O!otp_deactivated
  PROVE  OtpInv'
<1>1. /\ otp_visible' = FALSE /\ display' = <<>> /\ UNCHANGED O!clock
      /\ UNCHANGED <<g_service, g_display_state, service_display_remain, last_time,
                     last_service, segment>>
  BY DEF O!otp_deactivated, O!service, O!last
<1>2. OtpClockInv'
  BY <1>1, ClockStands
<1>3. O!TypeOK'
  <2>1. otp_visible' \in BOOLEAN
    BY <1>1, Zenon
  <2> QED
    BY <1>1, <2>1 DEF OtpInv, O!TypeOK
<1> QED
  BY <1>1, <1>2, <1>3 DEF OtpInv

LEMMA OtpStep ==
  ASSUME OtpInv, [O!Next]_(O!vars)
  PROVE  OtpInv'
<1>1. CASE UNCHANGED O!vars
  BY <1>1 DEF O!vars, O!clock, O!service, O!last, O!screen, OtpInv, OtpClockInv, O!TypeOK,
     O!HalfMinute
<1> QED
  BY <1>1, SecondInv, ChooseInv, NumInv, ActivatedInv, DeactivatedInv DEF O!Next

LEMMA OtpRight ==
  ASSUME OtpInv
  PROVE  O!TypeOK /\ O!CodeIsCurrent
<1>1. O!CodeIsCurrent
  <2>1. CASE ~otp_visible /\ display = <<>>
    BY <2>1 DEF O!CodeIsCurrent
  <2>2. CASE otp_visible /\ display = <<g_service>>
    BY <2>2 DEF O!CodeIsCurrent
  <2>3. CASE /\ otp_visible /\ display = <<g_service, O!HalfMinute>>
             /\ segment = ((begin + otp_passed) % 30) \div 5
    BY <2>3 DEF O!CodeIsCurrent
  <2> QED
    BY <2>1, <2>2, <2>3 DEF OtpInv
<1> QED
  BY <1>1 DEF OtpInv

-----------------------------------------------------------------------------
(* The message bus, for any nodes and any clients that register a callback *)
(* only when it is not listed.                                             *)

LEMMA BusFacts ==
  /\ IsFiniteSet(Node) /\ NoNode \notin Node /\ Callback # {}
  /\ Mask \in [Callback -> SUBSET Event] /\ Cardinality(Node) \in Nat
  /\ \A SS : B!Cardinality(SS) = Cardinality(SS)
<1>1. B!IsFiniteSet(Node) /\ NoNode \notin Node /\ Callback # {}
      /\ Mask \in [Callback -> SUBSET Event]
  BY ModulesAssumption DEF B!MessageBusAssumption
<1>2. IsFiniteSet(Node)
  BY <1>1 DEF B!IsFiniteSet, IsFiniteSet
<1>3. ASSUME NEW SS
      PROVE  B!Cardinality(SS) = Cardinality(SS)
  BY DEF B!Cardinality, Cardinality
<1>4. Cardinality(Node) \in Nat
  BY <1>2, FS_CardinalityType
<1> QED
  BY <1>1, <1>2, <1>3, <1>4

\* A path is a sequence of nodes, as long as there are nodes at most.
LEMMA PathFacts ==
  ASSUME NEW s \in Seq(Node)
  PROVE  /\ s \in B!Paths <=> Len(s) <= Cardinality(Node)
         /\ Len(s) \in Nat /\ DOMAIN s = 1..Len(s) /\ s \in [1..Len(s) -> Node]
         /\ s = <<>> <=> Len(s) = 0
<1>1. Len(s) \in Nat /\ DOMAIN s = 1..Len(s) /\ s \in [1..Len(s) -> Node]
  BY LenProperties
<1>2. s \in B!Paths <=> \E k \in 0..Cardinality(Node) : s \in [1..k -> Node]
  BY BusFacts DEF B!Paths
<1>3. ASSUME NEW k \in Nat, s \in [1..k -> Node]
      PROVE  k = Len(s)
  <2> DEFINE l == Len(s)
  <2>1. l \in Nat /\ 1..k = 1..l
    <3>1. DOMAIN s = 1..k
      BY <1>3, Zenon
    <3> QED
      BY <1>1, <3>1, Zenon
  <2> HIDE DEF l
  <2>2. (k > 0 => k \in 1..l) /\ (l > 0 => l \in 1..k)
    BY <2>1
  <2>3. k = l
    BY <2>1, <2>2
  <2> QED
    BY <2>3 DEF l
<1>4. s \in B!Paths <=> Len(s) <= Cardinality(Node)
  <2>1. ASSUME Len(s) <= Cardinality(Node)
        PROVE  s \in B!Paths
    <3>1. Len(s) \in 0..Cardinality(Node)
      BY <1>1, <2>1, BusFacts
    <3> QED
      BY <1>1, <1>2, <3>1, Zenon
  <2>2. ASSUME s \in B!Paths
        PROVE  Len(s) <= Cardinality(Node)
    BY <1>2, <1>3, <2>2, BusFacts
  <2> QED
    BY <2>1, <2>2
<1>5. s = <<>> <=> Len(s) = 0
  BY EmptySeq
<1> QED
  BY <1>1, <1>4, <1>5

LEMMA PathsAreSequences ==
  B!Paths \subseteq Seq(Node)
BY SeqDef, BusFacts DEF B!Paths

\* The walk along the links nx from m on visits s.
Walk(s, m, nx) ==
  /\ m = IF s = <<>> THEN NoNode ELSE s[1]
  /\ \A i \in DOMAIN s : nx[s[i]] = IF i = Len(s) THEN NoNode ELSE s[i + 1]

\* No two walks start alike.
LEMMA OneWalk ==
  ASSUME NEW m, NEW nx, NEW s \in Seq(Node), NEW t \in Seq(Node),
         Walk(s, m, nx), Walk(t, m, nx)
  PROVE  s = t
<1>1. /\ Len(s) \in Nat /\ DOMAIN s = 1..Len(s) /\ s = <<>> <=> Len(s) = 0
      /\ Len(t) \in Nat /\ DOMAIN t = 1..Len(t) /\ t = <<>> <=> Len(t) = 0
      /\ \A i \in 1..Len(s) : s[i] \in Node
      /\ \A i \in 1..Len(t) : t[i] \in Node
  BY PathFacts
<1> DEFINE U == {n \in Nat : \A i \in 1..n + 1 : i <= Len(s) /\ i <= Len(t) => s[i] = t[i]}
<1>2. 0 \in U
  BY <1>1 DEF Walk
<1>3. ASSUME NEW n \in Nat, n \in U
      PROVE  n + 1 \in U
  <2> SUFFICES ASSUME n + 2 <= Len(s), n + 2 <= Len(t)
               PROVE  s[n + 2] = t[n + 2]
    BY <1>3
  <2>1. n + 1 \in 1..Len(s) /\ n + 1 \in 1..Len(t) /\ n + 1 # Len(s) /\ n + 1 # Len(t)
    BY <1>1
  <2>2. s[n + 1] = t[n + 1]
    BY <1>3, <2>1
  <2>3. nx[s[n + 1]] = s[n + 1 + 1] /\ nx[t[n + 1]] = t[n + 1 + 1]
    BY <1>1, <2>1 DEF Walk
  <2>4. n + 1 + 1 = n + 2
    OBVIOUS
  <2> QED
    BY <2>2, <2>3, <2>4
<1>4. \A i \in 1..Len(s) : i <= Len(t) => s[i] = t[i]
  <2> HIDE DEF U
  <2>1. Nat \subseteq U
    BY <1>2, <1>3, Counting
  <2> TAKE i \in 1..Len(s)
  <2>2. i - 1 \in U /\ i - 1 \in Nat /\ i \in 1..(i - 1) + 1
    BY <1>1, <2>1
  <2> QED
    BY <1>1, <2>2 DEF U
<1>5. ~(Len(s) < Len(t))
  <2> SUFFICES ASSUME Len(s) < Len(t)
               PROVE  FALSE
    OBVIOUS
  <2>1. CASE Len(s) = 0
    BY <1>1, <2>1, BusFacts DEF Walk
  <2>2. CASE Len(s) # 0
    <3>1. Len(s) \in 1..Len(s) /\ Len(s) \in 1..Len(t) /\ Len(s) + 1 \in 1..Len(t)
      BY <1>1, <2>2
    <3>2. s[Len(s)] = t[Len(s)]
      BY <1>1, <1>4, <3>1
    <3>3. nx[s[Len(s)]] = NoNode /\ nx[t[Len(s)]] = t[Len(s) + 1]
      BY <1>1, <3>1 DEF Walk
    <3> QED
      BY <1>1, <3>1, <3>2, <3>3, BusFacts
  <2> QED
    BY <2>1, <2>2
<1>6. ~(Len(t) < Len(s))
  <2> SUFFICES ASSUME Len(t) < Len(s)
               PROVE  FALSE
    OBVIOUS
  <2>1. CASE Len(t) = 0
    BY <1>1, <2>1, BusFacts DEF Walk
  <2>2. CASE Len(t) # 0
    <3>1. Len(t) \in 1..Len(t) /\ Len(t) \in 1..Len(s) /\ Len(t) + 1 \in 1..Len(s)
      BY <1>1, <2>2
    <3>2. s[Len(t)] = t[Len(t)]
      BY <1>1, <1>4, <3>1
    <3>3. nx[t[Len(t)]] = NoNode /\ nx[s[Len(t)]] = s[Len(t) + 1]
      BY <1>1, <3>1 DEF Walk
    <3> QED
      BY <1>1, <3>1, <3>2, <3>3, BusFacts
  <2> QED
    BY <2>1, <2>2
<1>7. Len(s) = Len(t)
  BY <1>1, <1>5, <1>6
<1> QED
  BY <1>1, <1>4, <1>7, SeqEqual

\* A walk that visits s is the one Chain chooses.
LEMMA ChainIs ==
  ASSUME NEW s \in Seq(Node), Len(s) <= Cardinality(Node), NEW m, NEW nx, Walk(s, m, nx)
  PROVE  (CHOOSE t \in B!Paths : Walk(t, m, nx)) = s
<1>1. s \in B!Paths
  BY PathFacts
<1>2. \A t \in B!Paths : Walk(t, m, nx) => t = s
  BY OneWalk, PathsAreSequences
<1> HIDE DEF Walk
<1> QED
  BY <1>1, <1>2

-----------------------------------------------------------------------------
\* s lists the allocated nodes, each once, and each callback once.
Listing(s, m, nx, f, l) ==
  /\ s \in Seq(Node) /\ Walk(s, m, nx)
  /\ \A i, j \in 1..Len(s) : s[i] = s[j] => i = j
  /\ {s[i] : i \in 1..Len(s)} = l /\ Len(s) = Cardinality(l)
  /\ \A i, j \in 1..Len(s) : f[s[i]] = f[s[j]] => i = j

BusInv == B!TypeOK /\ Listing(B!Chain, messagebus, next, fn, bus_live)

LEMMA ChainWalks ==
  /\ B!Chain = CHOOSE t \in B!Paths : Walk(t, messagebus, next)
  /\ B!Chain' = CHOOSE t \in B!Paths : Walk(t, messagebus', next')
<1>1. \A t : B!IsWalk(t) = Walk(t, messagebus, next)
  BY DEF B!IsWalk, Walk
<1>2. \A t : B!IsWalk(t)' = Walk(t, messagebus', next')
  BY DEF B!IsWalk, Walk
<1> QED
  BY <1>1, <1>2 DEF B!Chain

\* A list found is the chain.
LEMMA NewChain ==
  ASSUME B!TypeOK', NEW s, Listing(s, messagebus', next', fn', bus_live')
  PROVE  B!Chain' = s /\ BusInv'
<1>1. s \in Seq(Node) /\ Walk(s, messagebus', next') /\ Len(s) = Cardinality(bus_live')
  BY DEF Listing
<1>2. bus_live' \subseteq Node
  BY DEF B!TypeOK
<1>3. Len(s) <= Cardinality(Node)
  BY <1>1, <1>2, BusFacts, FS_Subset
<1>4. B!Chain' = s
  <2> HIDE DEF Walk
  <2>1. (CHOOSE t \in B!Paths : Walk(t, messagebus', next')) = s
    BY <1>1, <1>3, ChainIs
  <2> QED
    BY <2>1, ChainWalks
<1> QED
  BY <1>4 DEF BusInv

LEMMA ListFacts ==
  ASSUME BusInv
  PROVE  /\ B!Chain \in Seq(Node) /\ B!List = bus_live
         /\ Len(B!Chain) \in Nat /\ DOMAIN B!Chain = 1..Len(B!Chain)
         /\ \A i \in 1..Len(B!Chain) : B!Chain[i] \in Node /\ B!Chain[i] \in bus_live
         /\ B!Chain = <<>> <=> Len(B!Chain) = 0
         /\ bus_live \subseteq Node /\ IsFiniteSet(bus_live)
         /\ Len(B!Chain) = Cardinality(bus_live) /\ Cardinality(bus_live) \in Nat
<1>1. /\ B!Chain \in Seq(Node) /\ {B!Chain[i] : i \in 1..Len(B!Chain)} = bus_live
      /\ Len(B!Chain) = Cardinality(bus_live) /\ bus_live \subseteq Node
  BY DEF BusInv, Listing, B!TypeOK
<1>2. Len(B!Chain) \in Nat /\ DOMAIN B!Chain = 1..Len(B!Chain)
      /\ B!Chain \in [1..Len(B!Chain) -> Node] /\ (B!Chain = <<>> <=> Len(B!Chain) = 0)
  BY <1>1, PathFacts
<1>3. B!List = bus_live
  BY <1>1, <1>2 DEF B!List
<1>4. IsFiniteSet(bus_live)
  BY <1>1, BusFacts, FS_Subset
<1> QED
  BY <1>1, <1>2, <1>3, <1>4

LEMMA BusInit ==
  ASSUME B!Init
  PROVE  BusInv /\ B!Chain = <<>>
<1>1. messagebus = NoNode /\ bus_live = {} /\ heard = <<>>
  BY DEF B!Init
<1>2. Walk(<<>>, messagebus, next)
  BY <1>1 DEF Walk
<1>3. B!Chain = <<>>
  <2> DEFINE e == <<>>
  <2>1. e \in Seq(Node) /\ Len(e) <= Cardinality(Node) /\ Walk(e, messagebus, next)
    BY <1>2, EmptySeq, BusFacts
  <2> HIDE DEF e
  <2>2. (CHOOSE t \in B!Paths : Walk(t, messagebus, next)) = e
    BY <2>1, ChainIs
  <2> QED
    BY <2>2, ChainWalks DEF e
<1>4. Listing(<<>>, messagebus, next, fn, bus_live)
  <2>1. <<>> \in Seq(Node) /\ Len(<<>>) = 0 /\ 1..0 = {}
    BY EmptySeq
  <2> QED
    BY <1>1, <1>2, <2>1, FS_EmptySet DEF Listing
<1>5. B!TypeOK
  <2>1. messagebus \in B!Ptr /\ bus_live \subseteq Node
    BY <1>1 DEF B!Ptr
  <2>2. fn \in [Node -> Callback]
    BY BusFacts DEF B!Init
  <2>3. listens \in [Node -> SUBSET Event] /\ next \in [Node -> B!Ptr]
    BY DEF B!Init, B!Ptr
  <2>4. heard \in [DOMAIN heard -> Callback]
    <3>1. heard = [i \in {} |-> {}]
      BY <1>1
    <3> QED
      BY <3>1
  <2> QED
    BY <2>1, <2>2, <2>3, <2>4 DEF B!TypeOK
<1> QED
  BY <1>3, <1>4, <1>5 DEF BusInv

\* A new node goes to the end.
LEMMA RegisterChain ==
  ASSUME BusInv, NEW f \in Callback, B!sys_messagebus_register(f, Mask[f])
  PROVE  /\ BusInv' /\ heard' = <<>>
         /\ \E n \in Node \ bus_live :
              /\ B!Chain' = Append(B!Chain, n)
              /\ fn' = [fn EXCEPT ![n] = f] /\ listens' = [listens EXCEPT ![n] = Mask[f]]
<1> DEFINE s == B!Chain
<1>1. PICK n \in Node \ bus_live :
        /\ messagebus' = IF messagebus = NoNode THEN n ELSE messagebus
        /\ next' = [p \in Node |-> IF p = n THEN NoNode
                                   ELSE IF s # <<>> /\ p = s[Len(s)] THEN n
                                   ELSE next[p]]
        /\ fn' = [fn EXCEPT ![n] = f]
        /\ listens' = [listens EXCEPT ![n] = Mask[f]]
        /\ bus_live' = bus_live \cup {n}
  BY DEF B!sys_messagebus_register
<1>2. heard' = <<>> /\ \A p \in B!List : fn[p] # f
  BY DEF B!sys_messagebus_register, B!Listed
<1>3. /\ s \in Seq(Node) /\ B!List = bus_live /\ Len(s) \in Nat
      /\ \A i \in 1..Len(s) : s[i] \in Node /\ s[i] \in bus_live
      /\ s = <<>> <=> Len(s) = 0
      /\ bus_live \subseteq Node /\ IsFiniteSet(bus_live) /\ Len(s) = Cardinality(bus_live)
      /\ DOMAIN s = 1..Len(s)
  BY ListFacts
<1>4. /\ messagebus = IF s = <<>> THEN NoNode ELSE s[1]
      /\ \A i \in 1..Len(s) : next[s[i]] = IF i = Len(s) THEN NoNode ELSE s[i + 1]
      /\ \A i, j \in 1..Len(s) : s[i] = s[j] => i = j
      /\ {s[i] : i \in 1..Len(s)} = bus_live
      /\ \A i, j \in 1..Len(s) : fn[s[i]] = fn[s[j]] => i = j
  BY <1>3 DEF BusInv, Listing, Walk
<1>5. /\ fn \in [Node -> Callback] /\ listens \in [Node -> SUBSET Event]
      /\ next \in [Node -> B!Ptr] /\ messagebus \in B!Ptr
  BY DEF BusInv, B!TypeOK
<1> HIDE DEF s
<1> DEFINE t == Append(s, n)
<1>6. /\ t \in Seq(Node) /\ Len(t) = Len(s) + 1 /\ t # <<>>
      /\ \A i \in 1..Len(s) : t[i] = s[i]
      /\ t[Len(s) + 1] = n /\ DOMAIN t = 1..Len(s) + 1
  <2>1. /\ t \in Seq(Node) /\ Len(t) = Len(s) + 1 /\ t # <<>>
        /\ \A i \in 1..Len(s) : t[i] = s[i] /\ t[Len(s) + 1] = n
        /\ t[Len(s) + 1] = n
    BY <1>3, AppendProperties
  <2> HIDE DEF t
  <2>2. DOMAIN t = 1..Len(t)
    BY <2>1, LenProperties
  <2> QED
    BY <2>1, <2>2
<1> HIDE DEF t
<1>7. Walk(t, messagebus', next')
  <2>1. messagebus' = t[1]
    <3>1. CASE s = <<>>
      BY <1>1, <1>3, <1>4, <1>6, <3>1
    <3>2. CASE s # <<>>
      <4>1. 1 \in 1..Len(s) /\ messagebus = s[1] /\ messagebus # NoNode
        BY <1>3, <1>4, <3>2, BusFacts
      <4> QED
        BY <1>1, <1>6, <4>1
    <3> QED
      BY <3>1, <3>2
  <2>2. ASSUME NEW i \in 1..Len(s) + 1
        PROVE  next'[t[i]] = IF i = Len(t) THEN NoNode ELSE t[i + 1]
    <3>1. CASE i = Len(s) + 1
      BY <1>1, <1>6, <3>1
    <3>2. CASE i = Len(s)
      <4>1. s # <<>> /\ i \in 1..Len(s) /\ t[i] = s[Len(s)] /\ t[i] # n /\ t[i] \in Node
        BY <1>1, <1>3, <1>6, <3>2
      <4> QED
        BY <1>1, <1>3, <1>6, <3>2, <4>1
    <3>3. CASE i < Len(s)
      <4>1. /\ i \in 1..Len(s) /\ Len(s) \in 1..Len(s) /\ i + 1 \in 1..Len(s)
            /\ t[i] = s[i] /\ t[i] # n /\ t[i] \in Node
        BY <1>1, <1>3, <1>6, <3>3
      <4>2. t[i] # s[Len(s)]
        BY <1>4, <3>3, <4>1
      <4>3. next'[t[i]] = next[s[i]] /\ next[s[i]] = s[i + 1] /\ t[i + 1] = s[i + 1]
        BY <1>1, <1>4, <1>6, <3>3, <4>1, <4>2
      <4> QED
        BY <1>3, <1>6, <3>3, <4>3
    <3> QED
      BY <1>3, <3>1, <3>2, <3>3
  <2> QED
    BY <1>6, <2>1, <2>2 DEF Walk
<1>8. \A i \in 1..Len(t) : (i \in 1..Len(s) /\ t[i] = s[i] /\ t[i] # n) \/ (i = Len(s) + 1 /\ t[i] = n)
  BY <1>1, <1>3, <1>6
<1>9. \A i, j \in 1..Len(t) : t[i] = t[j] => i = j
  BY <1>4, <1>8
<1>10. {t[i] : i \in 1..Len(t)} = bus_live'
  <2>1. \A i \in 1..Len(t) : t[i] \in bus_live'
    BY <1>1, <1>3, <1>8
  <2>2. \A p \in bus_live' : \E i \in 1..Len(t) : p = t[i]
    <3> TAKE p \in bus_live'
    <3>1. CASE p = n
      <4>1. Len(s) + 1 \in 1..Len(t) /\ t[Len(s) + 1] = n
        BY <1>3, <1>6
      <4> QED
        BY <3>1, <4>1
    <3>2. CASE p \in bus_live
      <4>1. PICK i \in 1..Len(s) : p = s[i]
        BY <1>4, <3>2
      <4>2. i \in 1..Len(t) /\ t[i] = p
        BY <1>3, <1>6, <4>1
      <4> QED
        BY <4>2
    <3> QED
      BY <1>1, <3>1, <3>2
  <2> QED
    BY <2>1, <2>2
<1>11. Len(t) = Cardinality(bus_live')
  <2>1. Cardinality(bus_live \cup {n}) = Cardinality(bus_live) + 1
    BY <1>3, FS_AddElement
  <2> QED
    BY <1>1, <1>3, <1>6, <2>1
<1>12. \A i, j \in 1..Len(t) : fn'[t[i]] = fn'[t[j]] => i = j
  <2>1. fn'[n] = f /\ \A p \in Node : p # n => fn'[p] = fn[p]
    BY <1>1, <1>5
  <2>2. \A i \in 1..Len(s) : fn[s[i]] # f
    BY <1>2, <1>3
  <2> QED
    BY <1>3, <1>4, <1>8, <2>1, <2>2
<1>13. B!TypeOK'
  <2>1. messagebus' \in B!Ptr /\ bus_live' \subseteq Node /\ next' \in [Node -> B!Ptr]
    <3>1. n \in B!Ptr /\ NoNode \in B!Ptr
      BY DEF B!Ptr
    <3> QED
      BY <1>1, <1>3, <1>5, <3>1
  <2>2. fn' \in [Node -> Callback] /\ listens' \in [Node -> SUBSET Event]
    <3>1. Mask[f] \in SUBSET Event
      BY BusFacts
    <3> QED
      BY <1>1, <1>5, <3>1
  <2>3. heard' \in [DOMAIN heard' -> Callback]
    <3>1. heard' = [i \in {} |-> {}]
      BY <1>2
    <3> QED
      BY <3>1
  <2> QED
    BY <2>1, <2>2, <2>3 DEF B!TypeOK
<1>14. Listing(t, messagebus', next', fn', bus_live')
  BY <1>6, <1>7, <1>9, <1>10, <1>11, <1>12 DEF Listing
<1>15. B!Chain' = t /\ BusInv'
  BY <1>13, <1>14, NewChain
<1> QED
  BY <1>1, <1>2, <1>15 DEF s, t

\* s without its element at place g.
Dropped(s, g) == [k \in 1..Len(s) - 1 |-> IF k < g THEN s[k] ELSE s[k + 1]]

\* At most one node is a hit; it leaves the list, and the link over it skips it.
LEMMA UnregisterChain ==
  ASSUME BusInv, NEW f \in Callback, B!sys_messagebus_unregister(f)
  PROVE  /\ BusInv' /\ heard' = <<>> /\ UNCHANGED <<fn, listens>>
         /\ \/ /\ \A i \in 1..Len(B!Chain) : fn[B!Chain[i]] # f
               /\ B!Chain' = B!Chain
            \/ \E g \in 1..Len(B!Chain) :
                 fn[B!Chain[g]] = f /\ B!Chain' = Dropped(B!Chain, g)
<1> DEFINE s == B!Chain
           l == Len(s)
<1>1. /\ messagebus' = IF B!Hit(messagebus, f) THEN next[messagebus] ELSE messagebus
      /\ next' = [p \in Node |-> IF p \in B!List /\ B!Hit(next[p], f)
                                 THEN next[next[p]] ELSE next[p]]
      /\ bus_live' = bus_live \ {p \in B!List : fn[p] = f}
      /\ heard' = <<>> /\ UNCHANGED <<fn, listens>>
  BY DEF B!sys_messagebus_unregister
<1>2. \A p : B!Hit(p, f) <=> p # NoNode /\ fn[p] = f
  BY DEF B!Hit
<1>3. /\ s \in Seq(Node) /\ B!List = bus_live /\ l \in Nat
      /\ \A i \in 1..l : s[i] \in Node /\ s[i] \in bus_live /\ s[i] # NoNode
      /\ s = <<>> <=> l = 0
      /\ bus_live \subseteq Node /\ IsFiniteSet(bus_live) /\ l = Cardinality(bus_live)
      /\ DOMAIN s = 1..l
  BY ListFacts, BusFacts
<1>4. /\ messagebus = IF s = <<>> THEN NoNode ELSE s[1]
      /\ \A i \in 1..l : next[s[i]] = IF i = l THEN NoNode ELSE s[i + 1]
      /\ \A i, j \in 1..l : s[i] = s[j] => i = j
      /\ {s[i] : i \in 1..l} = bus_live
      /\ \A i, j \in 1..l : fn[s[i]] = fn[s[j]] => i = j
  BY <1>3 DEF BusInv, Listing, Walk
<1>5. /\ fn \in [Node -> Callback] /\ listens \in [Node -> SUBSET Event]
      /\ next \in [Node -> B!Ptr] /\ messagebus \in B!Ptr
  BY DEF BusInv, B!TypeOK
<1> HIDE DEF s, l
<1>6. B!TypeOK'
  <2>1. \A p \in Node : next[p] \in B!Ptr /\ (next[p] # NoNode => next[next[p]] \in B!Ptr)
    BY <1>5 DEF B!Ptr
  <2>2. messagebus' \in B!Ptr /\ bus_live' \subseteq Node
    BY <1>1, <1>2, <1>3, <1>5, <2>1 DEF B!Ptr
  <2>3. next' \in [Node -> B!Ptr]
    BY <1>1, <1>2, <2>1
  <2>4. heard' \in [DOMAIN heard' -> Callback]
    <3>1. heard' = [i \in {} |-> {}]
      BY <1>1
    <3> QED
      BY <3>1
  <2> QED
    BY <1>1, <1>5, <2>2, <2>3, <2>4 DEF B!TypeOK
<1>7. CASE \A i \in 1..l : fn[s[i]] # f
  <2>1. \A p \in bus_live : fn[p] # f
    BY <1>4, <1>7
  <2>2. bus_live' = bus_live
    BY <1>1, <1>3, <2>1
  <2>3. messagebus' = messagebus
    <3>1. ~B!Hit(messagebus, f)
      <4>1. messagebus # NoNode => 1 \in 1..l /\ messagebus = s[1]
        BY <1>3, <1>4
      <4> QED
        BY <1>2, <1>7, <4>1
    <3> QED
      BY <1>1, <3>1
  <2>4. next' = next
    <3>1. ASSUME NEW p \in bus_live
          PROVE  ~B!Hit(next[p], f)
      <4>1. PICK i \in 1..l : p = s[i]
        BY <1>4
      <4>2. CASE i = l
        BY <1>2, <1>4, <4>1, <4>2
      <4>3. CASE i # l
        <5>1. i + 1 \in 1..l /\ next[p] = s[i + 1]
          BY <1>3, <1>4, <4>1, <4>3
        <5> QED
          BY <1>2, <1>7, <5>1
      <4> QED
        BY <4>2, <4>3
    <3>2. \A p \in Node : next'[p] = next[p]
      BY <1>1, <1>3, <3>1
    <3> QED
      BY <1>1, <1>5, <3>2
  <2>5. Listing(s, messagebus', next', fn', bus_live')
    BY <1>1, <2>2, <2>3, <2>4 DEF BusInv, s
  <2>6. B!Chain' = s /\ BusInv'
    BY <1>6, <2>5, NewChain
  <2> QED
    BY <1>1, <1>7, <2>6 DEF s, l
<1>8. ASSUME NEW g \in 1..l, fn[s[g]] = f
      PROVE  B!Chain' = Dropped(s, g) /\ BusInv'
  <2> DEFINE t == Dropped(s, g)
  <2>1. /\ t \in Seq(Node) /\ Len(t) = l - 1 /\ DOMAIN t = 1..l - 1
        /\ t = <<>> <=> l = 1
        /\ \A k \in 1..l - 1 : t[k] = IF k < g THEN s[k] ELSE s[k + 1]
    <3>1. l - 1 \in Nat /\ \A k \in 1..l - 1 : k \in 1..l /\ k + 1 \in 1..l
      BY <1>3
    <3>2. t = [k \in 1..l - 1 |-> IF k < g THEN s[k] ELSE s[k + 1]]
      BY DEF Dropped, l
    <3> HIDE DEF t
    <3>3. t \in [1..l - 1 -> Node]
      BY <1>3, <3>1, <3>2
    <3>4. t \in Seq(Node)
      BY <3>1, <3>3, SeqDef
    <3>5. Len(t) = l - 1
      BY <3>1, <3>3, <3>4
    <3>6. t = <<>> <=> Len(t) = 0
      BY <3>4, EmptySeq
    <3> QED
      BY <1>3, <3>1, <3>2, <3>3, <3>4, <3>5, <3>6
  <2> HIDE DEF t
  <2>2. \A i \in 1..l : fn[s[i]] = f <=> i = g
    BY <1>4, <1>8
  <2>3. \A i \in 1..l : next'[s[i]] = IF i + 1 = g THEN next[s[g]] ELSE next[s[i]]
    <3> TAKE i \in 1..l
    <3>1. s[i] \in Node /\ s[i] \in B!List
      BY <1>3
    <3>2. CASE i = l
      BY <1>1, <1>2, <1>3, <1>4, <3>1, <3>2
    <3>3. CASE i # l
      <4>1. i + 1 \in 1..l /\ next[s[i]] = s[i + 1] /\ s[i + 1] # NoNode
        BY <1>3, <1>4, <3>3
      <4>2. B!Hit(next[s[i]], f) <=> i + 1 = g
        BY <1>2, <2>2, <4>1
      <4> QED
        BY <1>1, <3>1, <4>1, <4>2
    <3> QED
      BY <3>2, <3>3
  <2>4. Walk(t, messagebus', next')
    <3>1. messagebus' = IF t = <<>> THEN NoNode ELSE t[1]
      <4>1. 1 \in 1..l /\ messagebus = s[1] /\ s[1] # NoNode
        BY <1>3, <1>4
      <4>2. B!Hit(messagebus, f) <=> g = 1
        BY <1>2, <2>2, <4>1
      <4>3. CASE g = 1
        BY <1>1, <1>3, <1>4, <2>1, <4>1, <4>2, <4>3
      <4>4. CASE g # 1
        <5>1. l # 1 /\ 1 \in 1..l - 1 /\ 1 < g
          BY <1>3, <4>4
        <5>2. t # <<>> /\ t[1] = s[1]
          BY <2>1, <5>1
        <5> QED
          BY <1>1, <4>1, <4>2, <4>4, <5>2
      <4> QED
        BY <4>3, <4>4
    <3>2. ASSUME NEW i \in 1..l - 1
          PROVE  next'[t[i]] = IF i = Len(t) THEN NoNode ELSE t[i + 1]
      <4>1. CASE i + 1 < g
        <5>1. /\ i \in 1..l /\ i + 1 \in 1..l - 1 /\ i # l /\ i # l - 1 /\ i < g /\ i + 1 # g
          BY <1>3, <4>1
        <5>2. t[i] = s[i] /\ t[i + 1] = s[i + 1]
          BY <2>1, <4>1, <5>1
        <5>3. next'[s[i]] = s[i + 1]
          BY <1>4, <2>3, <5>1
        <5> QED
          BY <2>1, <5>1, <5>2, <5>3
      <4>2. CASE i + 1 = g
        <5>1. i \in 1..l /\ i < g
          BY <1>3, <4>2
        <5>2. t[i] = s[i] /\ next'[s[i]] = next[s[g]]
          BY <2>1, <2>3, <4>2, <5>1
        <5>3. CASE g = l
          <6>1. i = Len(t) /\ next[s[g]] = NoNode
            BY <1>4, <2>1, <4>2, <5>3
          <6> QED
            BY <5>2, <6>1
        <5>4. CASE g # l
          <6>1. i # Len(t) /\ i + 1 \in 1..l - 1 /\ ~(i + 1 < g) /\ i + 1 + 1 = g + 1
            BY <1>3, <2>1, <4>2, <5>4
          <6>2. next[s[g]] = s[g + 1] /\ t[i + 1] = s[g + 1]
            BY <1>4, <2>1, <5>4, <6>1
          <6> QED
            BY <5>2, <6>1, <6>2
        <5> QED
          BY <5>3, <5>4
      <4>3. CASE i >= g
        <5>1. i + 1 \in 1..l /\ ~(i < g) /\ i + 1 + 1 # g /\ ~(i + 1 < g)
          BY <1>3, <4>3
        <5>2. t[i] = s[i + 1] /\ next'[s[i + 1]] = next[s[i + 1]]
          BY <2>1, <2>3, <5>1
        <5>3. CASE i = l - 1
          <6>1. i = Len(t) /\ i + 1 = l
            BY <1>3, <2>1, <5>3
          <6>2. next[s[i + 1]] = NoNode
            BY <1>4, <5>1, <6>1
          <6> QED
            BY <5>2, <6>1, <6>2
        <5>4. CASE i # l - 1
          <6>1. i # Len(t) /\ i + 1 \in 1..l - 1 /\ i + 1 # l
            BY <1>3, <2>1, <5>4
          <6>2. next[s[i + 1]] = s[i + 1 + 1]
            BY <1>4, <5>1, <6>1
          <6>3. t[i + 1] = s[i + 1 + 1]
            BY <2>1, <5>1, <6>1
          <6> QED
            BY <5>2, <6>1, <6>2, <6>3
        <5> QED
          BY <5>3, <5>4
      <4> QED
        BY <1>3, <4>1, <4>2, <4>3
    <3> QED
      BY <2>1, <3>1, <3>2 DEF Walk
  <2> DEFINE Place(k) == IF k < g THEN k ELSE k + 1
  <2>5. \A k \in 1..l - 1 : t[k] = s[Place(k)] /\ Place(k) \in 1..l /\ Place(k) # g
    BY <1>3, <2>1
  <2>6. \A j, k \in 1..l - 1 : Place(j) = Place(k) => j = k
    BY <1>3
  <2>7. \A i \in 1..l : i # g => \E k \in 1..l - 1 : Place(k) = i
    <3> TAKE i \in 1..l
    <3> HAVE i # g
    <3>1. CASE i < g
      <4>1. i \in 1..l - 1 /\ Place(i) = i
        BY <1>3, <3>1
      <4> QED
        BY <4>1, Zenon
    <3>2. CASE i > g
      <4>1. i - 1 \in 1..l - 1 /\ Place(i - 1) = i
        BY <1>3, <3>2
      <4> QED
        BY <4>1, Zenon
    <3> QED
      BY <1>3, <3>1, <3>2
  <2> HIDE DEF Place
  <2>8. \A j, k \in 1..l - 1 : t[j] = t[k] => j = k
    BY <1>4, <2>5, <2>6
  <2>9. bus_live' = bus_live \ {s[g]}
    <3>1. \A p \in bus_live : fn[p] = f <=> p = s[g]
      BY <1>4, <2>2
    <3> QED
      BY <1>1, <1>3, <3>1
  <2>10. {t[k] : k \in 1..l - 1} = bus_live'
    <3>1. \A k \in 1..l - 1 : t[k] \in bus_live'
      BY <1>3, <1>4, <2>5, <2>9
    <3>2. \A p \in bus_live' : \E k \in 1..l - 1 : p = t[k]
      <4> TAKE p \in bus_live'
      <4>1. PICK i \in 1..l : p = s[i] /\ i # g
        BY <1>4, <2>9
      <4>2. PICK k \in 1..l - 1 : Place(k) = i
        BY <2>7, <4>1
      <4> QED
        BY <2>5, <4>1, <4>2
    <3> QED
      BY <3>1, <3>2
  <2>11. l - 1 = Cardinality(bus_live')
    <3>1. Cardinality(bus_live \ {s[g]}) = Cardinality(bus_live) - 1
      BY <1>3, FS_RemoveElement
    <3> QED
      BY <1>3, <2>9, <3>1
  <2>12. \A j, k \in 1..l - 1 : fn'[t[j]] = fn'[t[k]] => j = k
    BY <1>1, <1>4, <2>5, <2>6
  <2>13. Listing(t, messagebus', next', fn', bus_live')
    BY <2>1, <2>4, <2>8, <2>10, <2>11, <2>12 DEF Listing
  <2> QED
    BY <1>6, <2>13, NewChain DEF t
<1>9. CASE \E g \in 1..l : fn[s[g]] = f
  <2>1. PICK g \in 1..l : fn[s[g]] = f
    BY <1>9
  <2>2. B!Chain' = Dropped(s, g) /\ BusInv'
    BY <1>8, <2>1
  <2> QED
    BY <1>1, <2>1, <2>2 DEF s, l
<1> QED
  BY <1>7, <1>9

-----------------------------------------------------------------------------
\* The registrations the list s holds.
RegsOf(s, f, m) == [i \in DOMAIN s |-> [fn |-> f[s[i]], listens |-> m[s[i]]]]
Regs == RegsOf(B!Chain, fn, listens)

Registration == [fn : Callback, listens : SUBSET Event]

LEMMA RegsFacts ==
  ASSUME NEW s \in Seq(Node), NEW f \in [Node -> Callback], NEW m \in [Node -> SUBSET Event]
  PROVE  /\ RegsOf(s, f, m) \in Seq(Registration)
         /\ Len(RegsOf(s, f, m)) = Len(s) /\ DOMAIN RegsOf(s, f, m) = 1..Len(s)
         /\ \A i \in 1..Len(s) :
              /\ RegsOf(s, f, m)[i] = [fn |-> f[s[i]], listens |-> m[s[i]]]
              /\ RegsOf(s, f, m)[i].fn = f[s[i]] /\ RegsOf(s, f, m)[i].listens = m[s[i]]
<1> DEFINE l == Len(s)
           r == RegsOf(s, f, m)
<1>1. l \in Nat /\ DOMAIN s = 1..l /\ \A i \in 1..l : s[i] \in Node
  BY PathFacts
<1>2. /\ DOMAIN r = 1..l
      /\ \A i \in 1..l : /\ r[i] = [fn |-> f[s[i]], listens |-> m[s[i]]]
                         /\ r[i].fn = f[s[i]] /\ r[i].listens = m[s[i]]
  BY <1>1 DEF RegsOf
<1>3. r \in [1..l -> Registration]
  BY <1>1 DEF RegsOf, Registration
<1> HIDE DEF r, l
<1>4. r \in Seq(Registration)
  BY <1>1, <1>3, SeqDef
<1>5. Len(r) = l
  BY <1>1, <1>3, <1>4
<1> QED
  BY <1>2, <1>4, <1>5 DEF r, l

\* The words of the nodes in a state of the invariant.
LEMMA BusTypes ==
  ASSUME BusInv
  PROVE  /\ B!Chain \in Seq(Node) /\ fn \in [Node -> Callback]
         /\ listens \in [Node -> SUBSET Event]
BY ListFacts DEF BusInv, B!TypeOK

LEMMA BusInitImplements ==
  ASSUME B!Init
  PROVE  B!Abstract!Init
<1>1. B!Chain = <<>> /\ heard = <<>>
  BY BusInit DEF B!Init
<1>2. DOMAIN B!Chain = {}
  BY <1>1
<1>3. Regs = <<>>
  BY <1>2 DEF Regs, RegsOf
<1> QED
  BY <1>1, <1>3 DEF B!Abstract!Init, Regs, RegsOf

\* What is left without no place, and without one.
LEMMA WithoutNone ==
  ASSUME NEW R, NEW r \in Seq(R)
  PROVE  B!Abstract!Without(r, {}) = r
<1> DEFINE l == Len(r)
<1>1. l \in Nat /\ DOMAIN r = 1..l /\ r \in [1..l -> R]
  BY LenProperties
<1>2. B!Abstract!Cardinality({}) = 0 /\ \A k : B!Abstract!Cardinality({j \in {} : j < k}) = 0
  <2>1. \A SS : B!Abstract!Cardinality(SS) = Cardinality(SS)
    BY DEF B!Abstract!Cardinality, Cardinality
  <2>2. \A k : {j \in {} : j < k} = {}
    OBVIOUS
  <2> QED
    BY <2>1, <2>2, FS_EmptySet
<1>3. \A k \in 1..l : (CHOOSE i \in DOMAIN r \ {} :
                         i = k + B!Abstract!Cardinality({j \in {} : j < i})) = k
  BY <1>1, <1>2
<1>4. B!Abstract!Without(r, {}) = [k \in 1..l |-> r[k]]
  BY <1>1, <1>2, <1>3 DEF B!Abstract!Without
<1> QED
  BY <1>1, <1>4

LEMMA WithoutOne ==
  ASSUME NEW R, NEW r \in Seq(R), NEW g \in 1..Len(r)
  PROVE  B!Abstract!Without(r, {g}) = Dropped(r, g)
<1> DEFINE l == Len(r)
           At(k) == IF k < g THEN k ELSE k + 1
<1>1. l \in Nat /\ DOMAIN r = 1..l /\ r \in [1..l -> R]
  BY LenProperties
<1>2. \A SS : B!Abstract!Cardinality(SS) = Cardinality(SS)
  BY DEF B!Abstract!Cardinality, Cardinality
<1>3. ASSUME NEW i \in Int
      PROVE  Cardinality({j \in {g} : j < i}) = IF g < i THEN 1 ELSE 0
  <2>1. CASE g < i
    <3>1. {j \in {g} : j < i} = {g}
      BY <2>1
    <3> QED
      BY <2>1, <3>1, FS_Singleton
  <2>2. CASE ~(g < i)
    <3>1. {j \in {g} : j < i} = {}
      BY <2>2
    <3> QED
      BY <2>2, <3>1, FS_EmptySet
  <2> QED
    BY <2>1, <2>2
<1>4. ASSUME NEW k \in 1..l - 1
      PROVE  (CHOOSE i \in DOMAIN r \ {g} :
                i = k + B!Abstract!Cardinality({j \in {g} : j < i})) = At(k)
  <2>1. At(k) \in DOMAIN r \ {g}
    BY <1>1
  <2>2. \A i \in DOMAIN r \ {g} :
          i = k + B!Abstract!Cardinality({j \in {g} : j < i}) <=> i = At(k)
    <3> TAKE i \in DOMAIN r \ {g}
    <3>1. i \in 1..l /\ i # g
      BY <1>1
    <3>2. B!Abstract!Cardinality({j \in {g} : j < i}) = IF g < i THEN 1 ELSE 0
      BY <1>2, <1>3, <3>1
    <3> QED
      BY <1>1, <3>1, <3>2
  <2> HIDE DEF At
  <2> QED
    BY <2>1, <2>2
<1>5. B!Abstract!Cardinality({g}) = 1
  BY <1>2, FS_Singleton
<1> HIDE DEF At
<1>6. B!Abstract!Without(r, {g}) = [k \in 1..l - 1 |-> r[At(k)]]
  <2> DEFINE Choice(k) == CHOOSE i \in DOMAIN r \ {g} :
                            i = k + B!Abstract!Cardinality({j \in {g} : j < i})
  <2>1. B!Abstract!Without(r, {g}) = [k \in 1..l - B!Abstract!Cardinality({g}) |-> r[Choice(k)]]
    BY DEF B!Abstract!Without
  <2>2. \A k \in 1..l - 1 : Choice(k) = At(k)
    BY <1>4
  <2> HIDE DEF Choice
  <2> QED
    BY <1>5, <2>1, <2>2
<1>7. \A k \in 1..l - 1 : r[At(k)] = IF k < g THEN r[k] ELSE r[k + 1]
  BY DEF At
<1> QED
  BY <1>6, <1>7 DEF Dropped

\* A registration is appended.
LEMMA RegisterImplements ==
  ASSUME BusInv, NEW f \in Callback, B!sys_messagebus_register(f, Mask[f])
  PROVE  B!Abstract!Register(f, Mask[f])
<1>1. PICK n \in Node \ bus_live :
        /\ B!Chain' = Append(B!Chain, n)
        /\ fn' = [fn EXCEPT ![n] = f] /\ listens' = [listens EXCEPT ![n] = Mask[f]]
  BY RegisterChain
<1>2. BusInv' /\ heard' = <<>>
  BY RegisterChain
<1> DEFINE s == B!Chain
           l == Len(s)
           r == [fn |-> f, listens |-> Mask[f]]
<1>3. /\ s \in Seq(Node) /\ l \in Nat /\ \A i \in 1..l : s[i] \in Node /\ s[i] # n
      /\ bus_live \subseteq Node /\ IsFiniteSet(bus_live) /\ l = Cardinality(bus_live)
  BY <1>1, ListFacts
<1>4. l < Cardinality(Node)
  <2>1. Cardinality(bus_live) <= Cardinality(Node) /\ Cardinality(bus_live) # Cardinality(Node)
    BY <1>1, <1>3, BusFacts, FS_Subset
  <2> QED
    BY <1>3, <2>1, BusFacts
<1>5. fn \in [Node -> Callback] /\ listens \in [Node -> SUBSET Event] /\ r \in Registration
  BY BusTypes, BusFacts DEF Registration
<1>6. s' \in Seq(Node) /\ fn' \in [Node -> Callback] /\ listens' \in [Node -> SUBSET Event]
  BY <1>2 DEF BusInv, Listing, B!TypeOK
<1>7. /\ Len(s') = l + 1 /\ s'[l + 1] = n /\ \A i \in 1..l : s'[i] = s[i]
  BY <1>1, <1>3, AppendProperties
<1> DEFINE p == RegsOf(s, fn, listens)
           q == RegsOf(s', fn', listens')
<1> HIDE DEF s
<1>8. /\ p \in Seq(Registration) /\ Len(p) = l
      /\ \A i \in 1..l : p[i] = [fn |-> fn[s[i]], listens |-> listens[s[i]]]
  BY <1>3, <1>5, RegsFacts
<1>9. /\ q \in Seq(Registration) /\ Len(q) = l + 1
      /\ \A i \in 1..l + 1 : q[i] = [fn |-> fn'[s'[i]], listens |-> listens'[s'[i]]]
  BY <1>6, <1>7, RegsFacts
<1> HIDE DEF p, q
<1>10. q[l + 1] = r /\ \A i \in 1..l : q[i] = p[i]
  <2>1. q[l + 1] = r
    <3>1. l + 1 \in 1..l + 1 /\ fn'[n] = f /\ listens'[n] = Mask[f]
      BY <1>1, <1>3, <1>5
    <3> QED
      BY <1>7, <1>9, <3>1
  <2>2. ASSUME NEW i \in 1..l
        PROVE  q[i] = p[i]
    <3>1. i \in 1..l + 1 /\ s'[i] = s[i] /\ s[i] \in Node /\ s[i] # n
      BY <1>3, <1>7
    <3>2. fn'[s[i]] = fn[s[i]] /\ listens'[s[i]] = listens[s[i]]
      BY <1>1, <1>5, <3>1
    <3> QED
      BY <1>8, <1>9, <3>1, <3>2
  <2> QED
    BY <2>1, <2>2
<1>11. q = Append(p, r)
  <2> DEFINE a == Append(p, r)
  <2>1. /\ a \in Seq(Registration) /\ Len(a) = l + 1 /\ a[l + 1] = r
        /\ \A i \in 1..l : a[i] = p[i]
    BY <1>5, <1>8, AppendProperties
  <2> HIDE DEF a
  <2>2. \A i \in 1..l + 1 : i \in 1..l \/ i = l + 1
    BY <1>3
  <2>3. \A i \in 1..l + 1 : a[i] = q[i]
    BY <1>10, <2>1, <2>2
  <2>4. a = q
    BY <1>9, <2>1, <2>3, SeqEqual
  <2> QED
    BY <2>4 DEF a
<1>12. Len(p) < B!Cardinality(Node)
  BY <1>4, <1>8, BusFacts
<1>13. heard' = <<>>
  BY <1>2
<1> QED
  BY <1>11, <1>12, <1>13 DEF B!Abstract!Register, p, q, r, s, RegsOf

\* Those of the callback are dropped.
LEMMA UnregisterImplements ==
  ASSUME BusInv, NEW f \in Callback, B!sys_messagebus_unregister(f)
  PROVE  B!Abstract!Unregister(f)
<1> DEFINE s == B!Chain
           l == Len(s)
           p == RegsOf(s, fn, listens)
           q == RegsOf(s', fn', listens')
           gone == {i \in DOMAIN p : p[i].fn = f}
<1>1. /\ BusInv' /\ heard' = <<>> /\ UNCHANGED <<fn, listens>>
      /\ \/ (\A i \in 1..l : fn[s[i]] # f) /\ s' = s
         \/ \E g \in 1..l : fn[s[g]] = f /\ s' = Dropped(s, g)
  BY UnregisterChain
<1>2. /\ s \in Seq(Node) /\ l \in Nat /\ DOMAIN s = 1..l
      /\ fn \in [Node -> Callback] /\ listens \in [Node -> SUBSET Event]
      /\ \A i, j \in 1..l : fn[s[i]] = fn[s[j]] => i = j
  BY ListFacts, BusTypes DEF BusInv, Listing
<1> HIDE DEF s
<1>3. /\ p \in Seq(Registration) /\ Len(p) = l /\ DOMAIN p = 1..l
      /\ \A i \in 1..l : /\ p[i] = [fn |-> fn[s[i]], listens |-> listens[s[i]]]
                         /\ p[i].fn = fn[s[i]]
  BY <1>2, RegsFacts
<1>4. q = B!Abstract!Without(p, gone)
  <2>1. CASE (\A i \in 1..l : fn[s[i]] # f) /\ s' = s
    <3>1. q = p
      BY <1>1, <2>1
    <3>2. gone = {}
      <4> HIDE DEF p
      <4> QED
        BY <1>3, <2>1
    <3> HIDE DEF p, q, gone
    <3>3. B!Abstract!Without(p, {}) = p
      BY <1>3, WithoutNone
    <3> QED
      BY <3>1, <3>2, <3>3
  <2>2. ASSUME NEW g \in 1..l, fn[s[g]] = f, s' = Dropped(s, g)
        PROVE  q = B!Abstract!Without(p, gone)
    <3>1. gone = {g}
      <4> HIDE DEF p
      <4> QED
        BY <1>2, <1>3, <2>2
    <3>2. q = Dropped(p, g)
      <4>1. s' = [k \in 1..l - 1 |-> IF k < g THEN s[k] ELSE s[k + 1]]
        BY <2>2 DEF Dropped
      <4>2. q = [k \in 1..l - 1 |-> [fn |-> fn[s'[k]], listens |-> listens[s'[k]]]]
        BY <1>1, <4>1 DEF RegsOf
      <4> HIDE DEF p, q
      <4>3. \A k \in 1..l - 1 :
              [fn |-> fn[s'[k]], listens |-> listens[s'[k]]] = IF k < g THEN p[k] ELSE p[k + 1]
        <5> TAKE k \in 1..l - 1
        <5>1. k \in 1..l /\ k + 1 \in 1..l
          BY <1>2
        <5>2. s'[k] = IF k < g THEN s[k] ELSE s[k + 1]
          BY <4>1
        <5> QED
          BY <1>3, <5>1, <5>2
      <4>4. q = [k \in 1..l - 1 |-> IF k < g THEN p[k] ELSE p[k + 1]]
        BY <4>2, <4>3
      <4> QED
        BY <1>3, <4>4 DEF Dropped
    <3> HIDE DEF p, q, gone
    <3>3. B!Abstract!Without(p, {g}) = Dropped(p, g)
      BY <1>3, WithoutOne
    <3> QED
      BY <3>1, <3>2, <3>3
  <2> QED
    BY <1>1, <2>1, <2>2
<1> QED
  BY <1>1, <1>4 DEF B!Abstract!Unregister, p, q, gone, s, RegsOf

\* A message is handed to the registrations that ask for it.
LEMMA DispatchImplements ==
  ASSUME BusInv, NEW msg \in SUBSET Event, B!Dispatch(msg)
  PROVE  B!Abstract!Dispatch(msg) /\ BusInv'
<1> DEFINE s == B!Chain
           l == Len(s)
           p == RegsOf(s, fn, listens)
<1>1. /\ heard' = [i \in B!Listening(s, msg) |-> fn[s[i]]]
      /\ UNCHANGED <<messagebus, fn, listens, next, bus_live>>
  BY DEF B!Dispatch
<1>2. /\ s \in Seq(Node) /\ l \in Nat /\ DOMAIN s = 1..l /\ \A i \in 1..l : s[i] \in Node
      /\ fn \in [Node -> Callback] /\ listens \in [Node -> SUBSET Event]
  BY ListFacts, BusTypes
<1>3. s' = s
  BY <1>1, ChainWalks
<1>4. /\ DOMAIN p = 1..l
      /\ \A i \in 1..l : p[i].fn = fn[s[i]] /\ p[i].listens = listens[s[i]]
  BY <1>2, RegsFacts
<1> HIDE DEF s
<1>5. B!Listening(s, msg) = {i \in 1..l : listens[s[i]] \cap msg # {}}
  BY <1>2 DEF B!Listening
<1>6. heard' = [i \in {i \in DOMAIN p : p[i].listens \cap msg # {}} |-> p[i].fn]
  <2> HIDE DEF p
  <2>1. {i \in DOMAIN p : p[i].listens \cap msg # {}} = {i \in 1..l : listens[s[i]] \cap msg # {}}
    BY <1>4
  <2> QED
    BY <1>1, <1>4, <1>5, <2>1
<1>7. RegsOf(s', fn', listens') = p
  BY <1>1, <1>3
<1>8. heard' \in [DOMAIN heard' -> Callback]
  BY <1>1, <1>2, <1>5
<1>9. BusInv'
  BY <1>1, <1>3, <1>8 DEF BusInv, Listing, B!TypeOK, s
<1> QED
  BY <1>6, <1>7, <1>9 DEF B!Abstract!Dispatch, p, s, RegsOf

LEMMA BusStep ==
  ASSUME BusInv, [B!Next]_(B!vars)
  PROVE  BusInv' /\ [B!Abstract!Next]_(B!Abstract!vars)
<1>1. CASE UNCHANGED B!vars
  <2>1. UNCHANGED <<messagebus, fn, listens, next, bus_live, heard>>
    BY <1>1 DEF B!vars
  <2>2. B!Chain' = B!Chain
    BY <2>1, ChainWalks
  <2>3. BusInv'
    BY <2>1, <2>2 DEF BusInv, Listing, B!TypeOK
  <2>4. UNCHANGED B!Abstract!vars
    BY <2>1, <2>2 DEF B!Abstract!vars
  <2> QED
    BY <2>3, <2>4
<1>2. ASSUME NEW f \in Callback, B!sys_messagebus_register(f, Mask[f])
      PROVE  BusInv' /\ B!Abstract!Next
  <2>1. BusInv'
    BY <1>2, RegisterChain
  <2>2. B!Abstract!Register(f, Mask[f])
    BY <1>2, RegisterImplements
  <2> QED
    BY <2>1, <2>2 DEF B!Abstract!Next
<1>3. ASSUME NEW f \in Callback, B!sys_messagebus_unregister(f)
      PROVE  BusInv' /\ B!Abstract!Next
  <2>1. BusInv'
    BY <1>3, UnregisterChain
  <2>2. B!Abstract!Unregister(f)
    BY <1>3, UnregisterImplements
  <2> QED
    BY <2>1, <2>2 DEF B!Abstract!Next
<1>4. ASSUME NEW msg \in SUBSET Event, B!Dispatch(msg)
      PROVE  BusInv' /\ B!Abstract!Next
  BY <1>4, DispatchImplements DEF B!Abstract!Next
<1> QED
  BY <1>1, <1>2, <1>3, <1>4 DEF B!Next

-----------------------------------------------------------------------------
(* The parts together.                                                     *)

ModulesInv ==
  BusInv /\ ScreensInv /\ StopwatchInv /\ TideInv /\ DDayInv /\ OtpInv

LEMMA ModulesInit ==
  ASSUME Init
  PROVE  ModulesInv
<1>1. B!Init /\ S!Init /\ W!Init /\ T!Init /\ D!Init /\ O!Init
  BY DEF Init
<1> QED
  BY <1>1, BusInit, ScreensInit, StopwatchInit, TideInit, DDayInit, OtpInit DEF ModulesInv

\* A step of one part leaves the others' variables as they are.
LEMMA Parts ==
  ASSUME [Next]_vars
  PROVE  /\ [B!Next]_(B!vars) /\ [S!Next]_(S!vars) /\ [W!Next]_(W!vars)
         /\ [T!Next]_(T!vars) /\ [D!Next]_(D!vars) /\ [O!Next]_(O!vars)
<1>1. /\ UNCHANGED busVars => UNCHANGED B!vars
      /\ UNCHANGED screensVars => UNCHANGED S!vars
      /\ UNCHANGED stopwatchVars => UNCHANGED W!vars
  BY DEF busVars, B!vars, screensVars, S!vars, stopwatchVars, W!vars, W!conf, W!menu, W!history
<1>2. UNCHANGED tideVars => UNCHANGED T!vars
  BY DEF tideVars, T!vars, T!tide, T!ui, T!world, T!history
<1>3. /\ UNCHANGED ddayVars => UNCHANGED D!vars
      /\ UNCHANGED otpVars => UNCHANGED O!vars
  BY DEF ddayVars, D!vars, otpVars, O!vars, O!clock, O!service, O!last, O!screen
<1>4. CASE Of("bus", B!Next)
  BY <1>1, <1>2, <1>3, <1>4 DEF Of, Others
<1>5. CASE Of("screens", S!Next)
  BY <1>1, <1>2, <1>3, <1>5 DEF Of, Others
<1>6. CASE Of("stopwatch", W!Next)
  BY <1>1, <1>2, <1>3, <1>6 DEF Of, Others
<1>7. CASE Of("tide", T!Next)
  BY <1>1, <1>2, <1>3, <1>7 DEF Of, Others
<1>8. CASE Of("dday", D!Next)
  BY <1>1, <1>2, <1>3, <1>8 DEF Of, Others
<1>9. CASE Of("otp", O!Next)
  BY <1>1, <1>2, <1>3, <1>9 DEF Of, Others
<1>10. CASE UNCHANGED vars
  BY <1>1, <1>2, <1>3, <1>10 DEF vars
<1> QED
  BY <1>4, <1>5, <1>6, <1>7, <1>8, <1>9, <1>10 DEF Next

LEMMA ModulesStep ==
  ASSUME ModulesInv, [Next]_vars
  PROVE  ModulesInv'
BY Parts, BusStep, ScreensStep, StopwatchStep, TideStep, DDayStep, OtpStep DEF ModulesInv

LEMMA ModulesHold == Spec => []ModulesInv
<1>1. Init => ModulesInv
  BY ModulesInit
<1>2. ModulesInv /\ [Next]_vars => ModulesInv'
  BY ModulesStep
<1> QED
  BY <1>1, <1>2, PTL DEF Spec

\* However contents travel between the LCD and the heap, a call of the driver
\* is the one it promises, or changes nothing that can be seen.
LEMMA ScreensImplement ==
  ASSUME ScreensInv, [S!Next]_(S!vars)
  PROVE  [S!Abstract!Next]_(S!Abstract!vars)
<1>1. ASSUME NEW nr \in S!Nr, S!lcd_screens_create(nr) PROVE S!Abstract!Next
  BY <1>1, CreateIsCreate DEF S!Abstract!Next, S!Abstract!Create, Contents, S!Nr
<1>2. CASE S!lcd_screens_destroy
  BY <1>2, DestroyIsDestroy DEF S!Abstract!Next, S!Abstract!Destroy, Contents
<1>3. CASE S!ActivateNext \/ \E scr \in 0..MaxScreens - 1 : S!lcd_screen_activate(scr)
  BY <1>3, ActivateSwaps, SwapIsActivate
  DEF S!Abstract!Next, S!Abstract!Activate, Contents, ScreensInv
<1>4. ASSUME NEW scr, NEW c \in Content, S!Draw(scr, c) PROVE S!Abstract!Next
  BY <1>4, DrawIsDraw DEF S!Abstract!Next, S!Abstract!Draw, Contents
<1>5. CASE UNCHANGED S!vars
  BY <1>5 DEF S!vars, S!Abstract!vars, S!Up, S!Scr, S!At
<1> QED
  BY <1>1, <1>2, <1>3, <1>4, <1>5 DEF S!Next

(***************************************************************************)
(* The state of every part keeps its type, for any heap, screens, dates    *)
(* and times: no node outside the heap, no field of a time or a date       *)
(* outside its range.                                                      *)
(***************************************************************************)
THEOREM TypeCorrect == Spec => []TypeOK
<1>1. ModulesInv => TypeOK
  BY OtpRight DEF ModulesInv, BusInv, ScreensInv, StopwatchInv, TideInv, DDayInv, TypeOK
<1> QED
  BY <1>1, ModulesHold, PTL

(***************************************************************************)
(* The message bus (core/openchronos.c) keeps its list sound, each live    *)
(* node on it once, for any number of listeners and nodes, and it          *)
(* implements Bus: each message goes to those that asked for its events.   *)
(***************************************************************************)
THEOREM BusIsSoundCorrect == Spec => BusIsSound
<1>1. ModulesInv => B!ListIsLive
  BY ListFacts, BusFacts DEF ModulesInv, B!ListIsLive
<1>2. Init => B!Abstract!Init
  BY BusInitImplements DEF Init
<1>3. ModulesInv /\ [Next]_vars => [B!Abstract!Next]_(B!Abstract!vars)
  BY Parts, BusStep DEF ModulesInv
<1>4. Spec => []B!ListIsLive
  BY <1>1, ModulesHold, PTL
<1>5. Spec => B!ImplementsBus
  BY <1>2, <1>3, ModulesHold, PTL DEF Spec, B!ImplementsBus, B!Abstract!Spec
<1> QED
  BY <1>4, <1>5 DEF BusIsSound

(***************************************************************************)
(* The virtual screens (drivers/display.c) keep what was drawn on them,    *)
(* with any contents and any number of screens: their buffers are apart,   *)
(* none is lost, and the driver implements VirtualScreens.                 *)
(***************************************************************************)
THEOREM ScreensAreKeptCorrect == Spec => ScreensAreKept
<1>1. ModulesInv => S!ScreensApart /\ S!NoLeak
  BY DEF ModulesInv, ScreensInv
<1>2. Init => S!Abstract!Init
  BY DEF Init, S!Init, S!Abstract!Init, S!Up
<1>3. ModulesInv /\ [Next]_vars => [S!Abstract!Next]_(S!Abstract!vars)
  BY Parts, ScreensImplement DEF ModulesInv
<1>4. Spec => []S!ScreensApart /\ []S!NoLeak
  BY <1>1, ModulesHold, PTL
<1>5. Spec => S!ImplementsScreens
  BY <1>2, <1>3, ModulesHold, PTL DEF Spec, S!ImplementsScreens, S!Abstract!Spec
<1> QED
  BY <1>4, <1>5 DEF ScreensAreKept

(***************************************************************************)
(* What the modules show of time is right, whenever they are started: the  *)
(* stopwatch's ticks and laps, the time until low water, the days to the   *)
(* d_day over leap years, the half minute of the password over midnights.  *)
(***************************************************************************)
THEOREM TimesAreRightCorrect == Spec => []TimesAreRight
<1>1. ModulesInv => TimesAreRight
  BY OtpRight DEF ModulesInv, StopwatchInv, TideInv, DDayInv, TimesAreRight
<1> QED
  BY <1>1, ModulesHold, PTL
=============================================================================
