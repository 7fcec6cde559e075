------------------------------ MODULE InfoStore ------------------------------
(* What the information memory promises the applications: a map from an       *)
(* application to the words it stored, bounded by a capacity that also pays   *)
(* one word for each application present.  A reset that interrupts an         *)
(* operation may leave the map as it was, leave it as the operation would,    *)
(* tear the words of an operation that moves nothing, or lose the whole       *)
(* store; it never returns one application's words as another's.              *)
EXTENDS Integers, Sequences, SequencesExt, FiniteSets, Functions

CONSTANTS Apps,        \* the identifiers applications use
          Values,      \* the words they store
          Erased,      \* a word of erased flash
          MaxData      \* bound: the longest data handed to an operation

VARIABLES status,      \* "none", "ready" or "damaged"
          apps,        \* the words of each application, <<>> when it has none
          capacity,    \* the words there are for data and headers
          resets       \* how often power was lost

map == <<status, apps, capacity>>
store == <<status, apps, capacity, resets>>

Empty == [a \in Apps |-> <<>>]

Words == Values \union {Erased}

\* every data an operation can be handed
Data == SeqOf(Values, MaxData)

Used(s) == FoldFunction(LAMBDA d, n : n + (IF d = <<>> THEN 0 ELSE 1 + Len(d)),
                        0, s)

\* an operation's result on the map it finds
Put(s, a, d) == [s EXCEPT ![a] = d]
Cut(s, a, k) == [s EXCEPT ![a] = SubSeq(@, 1, k)]
Change(s, a, d, k) ==
  [s EXCEPT ![a] = [i \in 1..(IF k + Len(d) > Len(@) THEN k + Len(d) ELSE Len(@)) |->
                      IF i \in k + 1 .. k + Len(d) THEN d[i - k] ELSE @[i]]]

\* the maps one operation can turn s into
Results(s) ==
       {Put(s, a, d) : a \in Apps, d \in Data}
  \cup UNION {{Cut(s, a, k) : k \in 0..Len(s[a]) - 1} : a \in Apps}
  \cup UNION {{Change(s, a, d, k) : d \in Data, k \in 0..Len(s[a])}
                : a \in {b \in Apps : s[b] # <<>>}}

Init ==
  /\ status = "none"
  /\ apps = Empty
  /\ capacity = 0
  /\ resets = 0

Format ==
  /\ status = "none"
  /\ status' = "ready"
  /\ capacity' > 0
  /\ apps' = Empty

Update ==
  /\ status = "ready"
  /\ apps' \in Results(apps)
  /\ Used(apps') <= capacity
  /\ UNCHANGED <<status, capacity>>

Resize ==
  /\ status = "ready"
  /\ capacity' >= Used(apps)
  /\ UNCHANGED <<status, apps>>

\* a store cut short by a reset may have left words past its end, and once
\* its capacity is reduced no operation reaches them: what remains after a
\* wipe is then not blank and cannot be formatted
Wipe ==
  /\ status = "ready"
  /\ \/ status' = "none"
     \/ status' = "damaged" /\ resets > 0
  /\ apps' = Empty
  /\ capacity' = 0

\* t has the shape of s or of r, the result of the operation interrupted, and
\* each word of it is the old one, the new one or erased
Torn(s, t, r) ==
  /\ \E x \in {s, r} : \A a \in Apps : Len(t[a]) = Len(x[a])
  /\ \A a \in Apps : \A i \in DOMAIN t[a] :
       t[a][i] \in {Erased} \union {x[a][i] : x \in {y \in {s, r} : i \in DOMAIN y[a]}}

Tear ==
  /\ status = "ready"
  /\ \E r \in Results(apps) : Torn(apps, apps', r)
  /\ UNCHANGED status
  /\ capacity' >= Used(apps')

\* a reset that is noticed: the store no longer passes its check
Lose ==
  /\ status' = "damaged"
  /\ apps' = Empty
  /\ capacity' = 0

Operation == Format \/ Update \/ Resize \/ Wipe

Next ==
  \/ Operation /\ UNCHANGED resets
  \/ /\ Operation \/ Tear \/ Lose \/ UNCHANGED map
     /\ resets' = resets + 1

Spec == Init /\ [][Next]_store
=============================================================================
