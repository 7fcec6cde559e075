------------------------------- MODULE Infomem -------------------------------
(* drivers/infomem.c: a small store in the information flash, one word after  *)
(* another, that the applications read and change.  Flash can only be erased  *)
(* a segment at a time, so an operation copies each segment it touches to a   *)
(* buffer, erases it and writes it back, a long word (two words) at a time.   *)
(*                                                                            *)
(* A word is the pair of its two bytes, low first.  The store is              *)
(*   identifier, <<size, maximum>>, the applications, terminator              *)
(* where an application is its header <<identifier, length>> and its words.   *)
(*                                                                            *)
(* Power may be lost between any two flash operations; what is in RAM goes,   *)
(* what is in flash stays.                                                    *)
EXTENDS Integers, Sequences, SequencesExt, FiniteSets, FiniteSetsExt, Functions, TLC

CONSTANTS SegmentWords,    \* INFOMEM_SEGMENT_WORDS
          Segments,        \* the segments of the information memory
          Apps, Values,    \* identifiers in use, and the words stored
          Other,           \* a word somebody else keeps outside of the store
          BootStart, BootEnd,  \* the range main() formats
          Ranges,          \* the ranges a caller relocates the store to
          MinWords,        \* infomem_init refuses less
          MaxData,         \* bound: the longest data handed to an operation
          MaxLosses        \* bound: losses of power in a behaviour

ERASED     == <<255, 255>>
IDENTIFIER == <<116, 90>>
TERMINATOR == <<244, 218>>

Size  == SegmentWords * Segments
Addrs == 0 .. Size - 1
NoAddr == -1

ASSUME RangesAreInMemory ==
  /\ SegmentWords % 2 = 0
  /\ \A r \in Ranges \union {<<BootStart, BootEnd>>} :
       r[1] \in Addrs /\ r[2] \in 0..Size

VARIABLES mem,       \* the flash
          ram,       \* sInfomem
          job,       \* the infomem_insert_delete_modify under way
          up,        \* main() has checked the store since the reset
          losses,
          seen       \* history: the store as the last completed step left it

vars == <<mem, ram, job, up, losses, seen>>

NoRam == [start |-> NoAddr, size |-> 0, max |-> 0, free |-> FALSE, sane |-> FALSE]
NoJob == [stage |-> "none"]
Idle  == job = NoJob

Data == SeqOf(Values, MaxData)

-----------------------------------------------------------------------------
(* Reading the flash. *)

\* the header of application a in a store at start, NoAddr when it has none
AppAddr(m, start, size, a) ==
  LET end == start + 2 + size
      walk[p \in 0..end + 256] ==
        IF p >= end THEN NoAddr
        ELSE IF m[p][1] = a THEN p
        ELSE walk[p + m[p][2] + 1]
  IN  walk[start + 2]

\* infomem_ready on the flash alone: the error it returns, 0 for none, and
\* the store it found
Found(m, hint) ==
  LET marked == {p \in Addrs : m[p] = IDENTIFIER}
      start  == IF hint \in marked THEN hint
                ELSE IF marked = {} THEN NoAddr ELSE Min(marked)
      size   == m[start + 1][1]
      max    == m[start + 1][2]
      end    == start + 2 + size
      walk[p \in 0..end + 256] == IF p >= end THEN p ELSE walk[p + m[p][2] + 1]
      error  == IF marked = {} THEN -2
                ELSE IF start + 1 \notin Addrs \/ size > max \/ max > Size - 3 - start THEN -3
                ELSE IF walk[start + 2] # end THEN -4
                ELSE IF m[end] # TERMINATOR THEN -5
                ELSE 0
  IN  [error |-> error, start |-> start,
       size |-> IF error = -2 \/ start + 1 \notin Addrs THEN 0 ELSE size,
       max  |-> IF error = -2 \/ start + 1 \notin Addrs THEN 0 ELSE max]

\* infomem_app_amount
Amount(m, r, a) ==
  LET p == AppAddr(m, r.start, r.size, a)
  IN  IF p = NoAddr THEN 0 ELSE m[p][2]

\* infomem_app_read of count words from an offset
Read(m, r, a, count, offset) ==
  LET p == AppAddr(m, r.start, r.size, a)
      n == Amount(m, r, a)
  IN  IF offset >= n THEN <<>>
      ELSE [i \in 1..(IF count + offset > n THEN n - offset ELSE count) |->
              m[p + offset + i]]

\* the store as an application sees it, from what a fresh check finds
Decoded(m) ==
  LET f == Found(m, NoAddr)
      blank == \A p \in BootStart..BootEnd - 1 : m[p] = ERASED
  IN  [status   |-> IF f.error = 0 THEN "ready"
                    ELSE IF f.error = -2 /\ blank THEN "none" ELSE "damaged",
       apps     |-> [a \in Apps |-> IF f.error = 0 THEN Read(m, f, a, Size, 0) ELSE <<>>],
       capacity |-> IF f.error = 0 THEN f.max ELSE 0]

-----------------------------------------------------------------------------
(* Writing it: infomem_insert_delete_modify, segment by segment. *)

SegmentOf(p) == p \div SegmentWords

\* the first and the last segment an operation touches
SegmentSpan(j) ==
  LET more == j.ins - j.del
      mods == DOMAIN j.mods
      behind == mods # {} /\ Max(mods) >= j.start + j.ins
  IN  <<SegmentOf(IF mods # {} /\ Min(mods) < j.start THEN Min(mods) ELSE j.start),
        SegmentOf(CASE more > 0 -> j.fstart + more - 1
                    [] more < 0 -> j.fstart - 1
                    [] more = 0 /\ behind -> Max(mods)
                    [] more = 0 /\ ~behind -> j.start + j.ins - 1)>>

\* mutant: the segments upward, whichever way the words move
Upward(j) ==
  LET span == SegmentSpan(j)
  IN  [i \in 1..span[2] - span[1] + 1 |-> span[1] + i - 1]

\* words that move up are taken from segments not yet written, so the last
\* segment goes first, and the reverse
SegmentOrder(j) ==
  LET span == SegmentSpan(j)
      upward == [i \in 1..span[2] - span[1] + 1 |-> span[1] + i - 1]
  IN  IF j.ins > j.del THEN Reverse(upward) ELSE upward

\* the word the store will have at p
NewWord(j, m, p) ==
  LET more == j.ins - j.del
  IN  IF p \in DOMAIN j.mods THEN j.mods[p]                \* a header
      ELSE IF p >= j.fstart + more THEN ERASED             \* free
      ELSE IF p < j.start THEN m[p]
      ELSE IF p >= j.start + j.ins THEN m[p - more]        \* moved
      ELSE IF p - j.start \in DOMAIN j.data THEN j.data[p - j.start]
      ELSE ERASED

\* mutant: the words of others behind the store are not looked at
ClearsBehind(j, m, seg) ==
  [i \in 0..SegmentWords - 1 |-> NewWord(j, m, seg * SegmentWords + i)]

\* what a segment is rewritten with; behind free_stop the words are not ours
Buffer(j, m, seg) ==
  [i \in 0..SegmentWords - 1 |->
     LET p == seg * SegmentWords + i
     IN  IF p >= j.fstop THEN m[p] ELSE NewWord(j, m, p)]

\* a word can be written over another only by clearing bits
Clears(old, new) ==
  \/ old = new
  \/ \A b \in 1..2, k \in 0..7 : (new[b] \div 2^k) % 2 <= (old[b] \div 2^k) % 2

NoWords == [i \in {} |-> ERASED]

\* start the job and say what sInfomem holds once it is done
Begin(j, done) ==
  job' = j @@ [segs |-> SegmentOrder(j), buf |-> NoWords, stage |-> "copy", done |-> done]

AsData(d, from) == [i \in from..from + Len(d) - 1 |-> d[i - from + 1]]

\* the next segment into the buffer, and whether it must be erased
CopySegment ==
  /\ job.stage = "copy" /\ job.segs # <<>>
  /\ LET seg == Head(job.segs)
         buf == Buffer(job, mem, seg)
         clean == \A i \in DOMAIN buf : Clears(mem[seg * SegmentWords + i], buf[i])
     IN  job' = [job EXCEPT !.buf = buf, !.stage = IF clean THEN "write" ELSE "erase"]
  /\ UNCHANGED <<mem, ram, up, losses, seen>>

EraseSegment ==
  /\ job.stage = "erase"
  /\ mem' = [p \in Addrs |-> IF SegmentOf(p) = Head(job.segs) THEN ERASED ELSE mem[p]]
  /\ job' = [job EXCEPT !.stage = "write"]
  /\ UNCHANGED <<ram, up, losses, seen>>

\* the first long word that differs, if one does
WriteSegment ==
  /\ job.stage = "write"
  /\ LET base == Head(job.segs) * SegmentWords
         pairs == {i \in 0..SegmentWords \div 2 - 1 :
                     \E k \in {2 * i, 2 * i + 1} : mem[base + k] # job.buf[k]}
         i == 2 * Min(pairs)
     IN  IF pairs # {}
         THEN /\ mem' = [mem EXCEPT ![base + i] = job.buf[i],
                                    ![base + i + 1] = job.buf[i + 1]]
              /\ UNCHANGED job
         ELSE /\ job' = [job EXCEPT !.segs = Tail(@), !.stage = "copy"]
              /\ UNCHANGED mem
  /\ UNCHANGED <<ram, up, losses, seen>>

\* the caller's last lines: the new size, and the lock released
Finish ==
  /\ job.stage = "copy" /\ job.segs = <<>>
  /\ ram' = job.done
  /\ job' = NoJob
  /\ seen' = Decoded(mem)
  /\ UNCHANGED <<mem, up, losses>>

-----------------------------------------------------------------------------
(* The operations.  Each is called with the memory idle: sInfomem.not_lock    *)
(* is what keeps a second one out.                                            *)

\* mutant: the new size is not kept
KeepsOldSize(size) == [ram EXCEPT !.free = TRUE]

\* sInfomem when an operation on a store of the given size is done
Done(size) == [ram EXCEPT !.size = size, !.free = TRUE]

FreeStart == ram.start + 3 + ram.size
FreeStop  == ram.start + 3 + ram.max

Ready == up /\ Idle /\ ram.sane /\ ram.free

Take ==
  /\ ram' = [ram EXCEPT !.free = FALSE]
  /\ UNCHANGED <<mem, up, losses, seen>>

\* infomem_write_data: words over words, nothing moves
WriteData(start, data, n, done) ==
  Begin([start |-> start, data |-> data, del |-> n, ins |-> n, mods |-> NoWords,
         fstart |-> done.start + 3 + done.size, fstop |-> done.start + 3 + done.max], done)

\* main() after a reset: check, and format a memory that holds nothing
Boot ==
  LET f == Found(mem, ram.start)
      n == BootEnd - BootStart
      format == /\ f.error = -2
                /\ n >= MinWords
                /\ \A p \in BootStart..BootEnd - 1 : mem[p] = ERASED
      sound == f.error = 0
      fresh == [start |-> BootStart, size |-> 0, max |-> n - 3, free |-> TRUE, sane |-> TRUE]
  IN  /\ ~up /\ Idle
      /\ up' = TRUE
      /\ \/ /\ format
            /\ ram' = [fresh EXCEPT !.free = FALSE, !.sane = FALSE]
            /\ WriteData(BootStart, AsData(<<IDENTIFIER, <<0, n - 3>>, TERMINATOR>>, 0), 3, fresh)
         \/ /\ ~format
            /\ ram' = [start |-> f.start, size |-> f.size, max |-> f.max,
                       free |-> sound, sane |-> sound]
            /\ UNCHANGED job
      /\ UNCHANGED <<mem, losses, seen>>

\* infomem_app_delete: all of an application, header and words, ...
AppDelete(a) ==
  LET p == AppAddr(mem, ram.start, ram.size, a)
      n == Amount(mem, ram, a)
      size == ram.size - n - 1
  IN  /\ Ready /\ p # NoAddr
      /\ Take
      /\ Begin([start |-> p, data |-> NoWords, del |-> n + 1, ins |-> 0,
                mods |-> (ram.start + 1 :> <<size, ram.max>>),
                fstart |-> FreeStart, fstop |-> FreeStop], Done(size))

\* ... or its words from an offset on
AppCut(a, offset) ==
  LET p == AppAddr(mem, ram.start, ram.size, a)
      n == Amount(mem, ram, a)
      size == ram.size - (n - offset)
  IN  /\ Ready /\ p # NoAddr /\ offset # 0 /\ offset < n
      /\ Take
      /\ Begin([start |-> p + 1 + offset, data |-> NoWords, del |-> n - offset, ins |-> 0,
                mods |-> (ram.start + 1 :> <<size, ram.max>> @@ p :> <<a, offset>>),
                fstart |-> FreeStart, fstop |-> FreeStop], Done(size))

\* infomem_app_replace: new words for old, ...
AppReplace(a, d) ==
  LET p == AppAddr(mem, ram.start, ram.size, a)
      n == Amount(mem, ram, a)
      size == ram.size + Len(d) - n
  IN  /\ Ready /\ d # <<>> /\ p # NoAddr
      /\ size <= ram.max
      /\ Take
      /\ Begin([start |-> p + 1, data |-> AsData(d, 0), del |-> n, ins |-> Len(d),
                mods |-> (ram.start + 1 :> <<size, ram.max>> @@ p :> <<a, Len(d)>>),
                fstart |-> FreeStart, fstop |-> FreeStop], Done(size))

\* mutant: no check that a new application fits
AppendUnchecked(a, d) ==
  LET p == ram.start + 2 + ram.size
      size == ram.size + Len(d) + 1
  IN  /\ Ready /\ d # <<>> /\ AppAddr(mem, ram.start, ram.size, a) = NoAddr
      /\ Take
      /\ Begin([start |-> p, data |-> AsData(d, 1), del |-> 0, ins |-> Len(d) + 1,
                mods |-> (ram.start + 1 :> <<size, ram.max>> @@ p :> <<a, Len(d)>>),
                fstart |-> FreeStart, fstop |-> FreeStop], Done(size))

\* ... or a new application behind the last, its header put before its words
AppAppend(a, d) ==
  LET p == ram.start + 2 + ram.size
      size == ram.size + Len(d) + 1
  IN  /\ Ready /\ d # <<>> /\ AppAddr(mem, ram.start, ram.size, a) = NoAddr
      /\ size <= ram.max
      /\ Take
      /\ Begin([start |-> p, data |-> AsData(d, 1), del |-> 0, ins |-> Len(d) + 1,
                mods |-> (ram.start + 1 :> <<size, ram.max>> @@ p :> <<a, Len(d)>>),
                fstart |-> FreeStart, fstop |-> FreeStop], Done(size))

\* infomem_app_modify: within the words there are, ...
AppOverwrite(a, d, offset) ==
  LET p == AppAddr(mem, ram.start, ram.size, a)
  IN  /\ Ready /\ p # NoAddr
      /\ offset + Len(d) <= Amount(mem, ram, a)
      /\ Take
      /\ WriteData(p + 1 + offset, AsData(d, 0), Len(d), Done(ram.size))

\* ... or past them
AppGrow(a, d, offset) ==
  LET p == AppAddr(mem, ram.start, ram.size, a)
      n == Amount(mem, ram, a)
      gone == n - offset
      size == ram.size - gone + Len(d)
  IN  /\ Ready /\ p # NoAddr
      /\ offset <= n /\ offset + Len(d) > n
      /\ size <= ram.max
      /\ Take
      /\ Begin([start |-> p + 1 + offset, data |-> AsData(d, 0), del |-> gone, ins |-> Len(d),
                mods |-> (ram.start + 1 :> <<size, ram.max>> @@ p :> <<a, n - gone + Len(d)>>),
                fstart |-> FreeStart, fstop |-> FreeStop], Done(size))

\* infomem_relocate: only the maximum changes, or the store moves down, or up
Relocate(start, end) ==
  LET max == end - start - 3
      header == (start + 1 :> <<ram.size, max>>)
      done == [ram EXCEPT !.start = start, !.max = max]
  IN  /\ Ready /\ end >= start + ram.size + 3
      /\ Take
      /\ CASE start = ram.start ->
                WriteData(start + 1, AsData(<<<<ram.size, max>>>>, 0), 1, done)
           [] start < ram.start ->
                Begin([start |-> start, data |-> NoWords, del |-> ram.start - start, ins |-> 0,
                       mods |-> header, fstart |-> FreeStart, fstop |-> FreeStop], done)
           [] start > ram.start ->
                Begin([start |-> ram.start, data |-> NoWords, del |-> 0,
                       ins |-> start - ram.start, mods |-> header,
                       fstart |-> FreeStart, fstop |-> start + 3 + max], done)

\* infomem_delete_all: every word of the range erased
DeleteAll ==
  /\ Ready
  /\ Take
  /\ Begin([start |-> ram.start, data |-> NoWords, del |-> ram.max + 3, ins |-> ram.max + 3,
            mods |-> NoWords, fstart |-> FreeStart, fstop |-> FreeStop], NoRam)

\* a reset: RAM is cleared, flash keeps what it held
PowerLoss ==
  /\ losses < MaxLosses
  /\ losses' = losses + 1
  /\ ram' = NoRam /\ job' = NoJob /\ up' = FALSE
  /\ seen' = Decoded(mem)
  /\ UNCHANGED mem

Init ==
  /\ mem = [p \in Addrs |-> IF p \in BootStart..BootEnd - 1 THEN ERASED ELSE Other]
  /\ ram = NoRam /\ job = NoJob
  /\ up = FALSE /\ losses = 0
  /\ seen = Decoded(mem)

AppStep ==
  \E a \in Apps :
    \/ AppDelete(a)
    \/ \E k \in 1..MaxData : AppCut(a, k)
    \/ \E d \in Data \ {<<>>} :
         \/ AppReplace(a, d) \/ AppAppend(a, d)
         \/ \E k \in 0..MaxData : AppOverwrite(a, d, k) \/ AppGrow(a, d, k)

FlashStep == CopySegment \/ EraseSegment \/ WriteSegment \/ Finish

Next ==
  \/ Boot \/ AppStep \/ FlashStep
  \/ \E r \in Ranges : Relocate(r[1], r[2])
  \/ DeleteAll
  \/ PowerLoss

Spec == Init /\ [][Next]_vars

-----------------------------------------------------------------------------
Words == (0..255) \X (0..255)

TypeOK ==
  /\ DOMAIN mem = Addrs /\ \A p \in Addrs : mem[p] \in Words
  /\ ram.start \in Addrs \union {NoAddr}
  /\ ram.size \in 0..255 /\ ram.max \in 0..255
  /\ ram.sane => ram.size <= ram.max /\ FreeStop <= Size
  /\ ram.free \in BOOLEAN /\ ram.sane \in BOOLEAN
  /\ job.stage \in {"none", "copy", "erase", "write"}
  /\ up \in BOOLEAN
  /\ losses \in 0..MaxLosses

\* Between operations the sizes sInfomem keeps, which every operation trusts
\* without looking again, are those a fresh check of the flash would find.
RamIsFlash ==
  Idle /\ ram.sane =>
    LET f == Found(mem, NoAddr)
    IN  f.error = 0 /\ <<f.start, f.size, f.max>> = <<ram.start, ram.size, ram.max>>

\* Rewriting a segment, erased whole, gives back the words in it that belong
\* to somebody else, those no range of the store ever reached.
NeighboursKept ==
  LET ranges == Ranges \union {<<BootStart, BootEnd>>}
  IN  Idle /\ losses = 0 =>
        \A p \in Addrs :
          (\A r \in ranges : p \notin r[1]..r[2] - 1) => mem[p] = Other

\* Every operation, once done, is one operation of the promised map, and a
\* reset in the middle of one tears nothing but the words it overwrites, or
\* is noticed.
Promise == INSTANCE InfoStore WITH Erased <- ERASED, status <- seen.status,
             apps <- seen.apps, capacity <- seen.capacity, resets <- losses
KeepsPromise == Promise!Spec

\* The store never harms itself or its neighbours: sizes and words have their
\* types, the sizes kept are the flash's, and the words around are left alone.
StoreIsSound == TypeOK /\ RamIsFlash /\ NeighboursKept
=============================================================================
