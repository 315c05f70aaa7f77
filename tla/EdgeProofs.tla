----------------------------- MODULE EdgeProofs ------------------------------
(***************************************************************************)
(* What the parts at the edges promise.                                    *)
(*                                                                         *)
(*   CommittedStays   a batch of the JSON-lines journal that was reported  *)
(*                    committed and asked for sync is in the file, whole   *)
(*                    and in its place                                     *)
(*   ProgramsAccount  an effect of a generated program is planned and      *)
(*                    recorded as started right before it is had, and only *)
(*                    one of a resumption that was lost is had again; the  *)
(*                    program stays within its limits                      *)
(*   VoiceCoheres     a delegate call of a voice session is answered with  *)
(*                    what became of its own run, and each tool result is  *)
(*                    spoken                                               *)
(*   RetriesBounded   a post is retried only after a failure that may pass,*)
(*                    as often as it may be, after waits that are as long  *)
(*                    as the backoff or the server says, within a quarter  *)
(*                                                                         *)
(* The first is for any number of processes, batches of any size and any   *)
(* number of failures, the second for any calls, limits and executors, the *)
(* third for any number of calls, responses and answers, the last for any  *)
(* number of retries that a Duration has room for.                         *)
(***************************************************************************)
EXTENDS JournalStore, CodeMode, VoiceBridge, HttpRetry, WellFoundedInduction, FiniteSetTheorems,
        TLAPS

-----------------------------------------------------------------------------
(***************************************************************************)
(* The journal. What is reported must be below the line to which the file  *)
(* is synced, and nothing torn may be there, because loading the file cuts *)
(* a torn line off: Durable says so, and that only the last line can be    *)
(* torn.                                                                   *)
(***************************************************************************)
Lines == Nat \X Nat

Before(a, b) == a[1] < b[1] \/ (a[1] = b[1] /\ a[2] < b[2])

\* the last line may be torn; the others are of batches up to the last one, in order
Ordered(file, last) ==
  /\ \A i \in DOMAIN file : file[i] = Partial => i = Len(file)
  /\ \A i \in DOMAIN file : file[i] # Partial => file[i][1] \in 1..last
  /\ \A i, j \in DOMAIN file : j < i /\ file[i] # Partial => Before(file[j], file[i])

Untorn(file, count) == \A i \in 1..count : file[i] # Partial

\* a batch is among the first lines of a file
Among(file, count, batch) ==
  \E at \in Nat : /\ at + BatchSize <= count
                  /\ \A part \in 1..BatchSize : file[at + part] = <<batch, part>>

Durable ==
  /\ lines \in Seq(Lines) /\ batches \in Nat /\ Ordered(lines, batches)
  /\ synced \in 0..Len(lines) /\ Untorn(lines, synced)
  /\ told \subseteq 1..batches
  /\ \A batch \in told : Syncs(batch) => Among(lines, synced, batch)

-----------------------------------------------------------------------------
(***************************************************************************)
(* What happens to the file.                                               *)
(***************************************************************************)
\* A batch stays among the lines of a file that keeps them.
LEMMA AmongKept ==
  ASSUME NEW file, NEW count \in Nat, NEW batch, Among(file, count, batch),
         NEW other, NEW more \in Nat, count <= more, \A i \in 1..count : other[i] = file[i]
  PROVE  Among(other, more, batch)
<1>1. BatchSize \in Nat BY StoreAssumption
<1>2. PICK at \in Nat : /\ at + BatchSize <= count
                        /\ \A part \in 1..BatchSize : file[at + part] = <<batch, part>>
  BY DEF Among
<1>3. \A part \in 1..BatchSize : at + part \in 1..count BY <1>1, <1>2
<1>4. \A part \in 1..BatchSize : other[at + part] = <<batch, part>> BY <1>2, <1>3
<1>5. at + BatchSize <= more BY <1>1, <1>2
<1> QED BY <1>4, <1>5 DEF Among

\* Lines behind lines.
LEMMA Joined ==
  ASSUME NEW front \in Seq(Lines), NEW back \in Seq(Lines)
  PROVE  /\ front \o back \in Seq(Lines) /\ Len(front \o back) = Len(front) + Len(back)
         /\ DOMAIN (front \o back) = 1..(Len(front) + Len(back))
         /\ \A i \in 1..Len(front) : (front \o back)[i] = front[i]
         /\ \A i \in 1..Len(back) : (front \o back)[Len(front) + i] = back[i]
<1> HIDE DEF Lines
<1> QED OBVIOUS

\* What a write or a loss of power may leave behind the whole lines.
LEMMA Rest ==
  ASSUME NEW rest \in {<<>>, <<Partial>>}
  PROVE  /\ rest \in Seq(Lines) /\ Len(rest) \in {0, 1}
         /\ \A i \in 1..Len(rest) : rest[i] = Partial
         /\ rest = <<>> <=> Len(rest) = 0
<1>1. Partial \in Lines BY DEF Partial, Lines
<1>2. CASE rest = <<>>
  <2> HIDE DEF Lines
  <2> QED BY <1>2
<1>3. CASE rest = <<Partial>>
  <2>1. Len(rest) = 1 /\ rest[1] = Partial BY <1>3
  <2>2. <<Partial>> \in Seq(Lines) BY <1>1
  <2> QED BY <1>3, <2>1, <2>2
<1> QED BY <1>2, <1>3

\* Loading cuts off a torn line, and nothing but a torn line.
LEMMA Recovered ==
  ASSUME NEW file \in Seq(Lines), NEW last \in Nat, Ordered(file, last)
  PROVE  LET whole == RecoverPartial(file)
         IN /\ whole \in Seq(Lines) /\ Untorn(whole, Len(whole)) /\ Ordered(whole, last)
            /\ Len(whole) <= Len(file)
            /\ \A i \in 1..Len(whole) : whole[i] = file[i]
            /\ whole # file => file # <<>> /\ Len(whole) = Len(file) - 1
                               /\ file[Len(file)] = Partial
<1> DEFINE whole == RecoverPartial(file)
           n == Len(file)
<1>1. n \in Nat /\ DOMAIN file = 1..n
  OBVIOUS
<1>2. CASE file # <<>> /\ file[n] = Partial
  <2>1. whole = SubSeq(file, 1, n - 1) BY <1>2 DEF RecoverPartial, Last, Front
  <2>2. n > 0 BY <1>1, <1>2
  <2>3. /\ whole \in Seq(Lines) /\ Len(whole) = n - 1 /\ DOMAIN whole = 1..(n - 1)
        /\ \A i \in 1..(n - 1) : whole[i] = file[i]
    BY <1>1, <2>1, <2>2
  <2> HIDE DEF whole
  <2>4. \A i \in 1..(n - 1) : file[i] # Partial BY <1>1 DEF Ordered
  <2> HIDE DEF n
  <2>5. Untorn(whole, n - 1) BY <2>3, <2>4 DEF Untorn
  <2>6. Ordered(whole, last)
    <3>1. \A i \in 1..(n - 1) : i \in DOMAIN file BY <1>1
    <3>2. \A i \in DOMAIN whole : whole[i] # Partial /\ whole[i][1] \in 1..last
      BY <2>3, <2>4, <3>1 DEF Ordered
    <3>3. \A i, j \in DOMAIN whole : j < i => Before(whole[j], whole[i])
      BY <2>3, <2>4, <3>1 DEF Ordered
    <3> QED BY <3>2, <3>3 DEF Ordered
  <2> QED BY <1>1, <1>2, <2>2, <2>3, <2>5, <2>6 DEF whole, n
<1>3. CASE file = <<>> \/ file[n] # Partial
  <2>1. whole = file BY <1>3 DEF RecoverPartial, Last
  <2>2. Untorn(file, n) BY <1>1, <1>3 DEF Untorn, Ordered
  <2> QED BY <1>1, <2>1, <2>2
<1> QED BY <1>2, <1>3

\* A place beyond the first a of a sequence with at most one more is its last.
LEMMA LastOfOne ==
  ASSUME NEW a \in Nat, NEW r \in {0, 1}, NEW i \in 1..(a + r), i > a
  PROVE  i = a + r
OBVIOUS

\* A write adds lines of its batch, in order, and perhaps a torn one.
LEMMA Written ==
  ASSUME NEW file \in Seq(Lines), NEW last \in Nat, Ordered(file, last),
         Untorn(file, Len(file)), NEW count \in Nat, NEW rest \in {<<>>, <<Partial>>}
  PROVE  LET longer == file \o Entries(last + 1, count) \o rest
         IN /\ longer \in Seq(Lines) /\ Ordered(longer, last + 1)
            /\ Len(longer) = Len(file) + count + Len(rest)
            /\ \A i \in 1..Len(file) : longer[i] = file[i]
            /\ \A part \in 1..count : longer[Len(file) + part] = <<last + 1, part>>
<1> DEFINE entries == Entries(last + 1, count)
           longer == file \o entries \o rest
           n == Len(file)
<1>1. n \in Nat /\ DOMAIN file = 1..n
  OBVIOUS
<1>2. /\ entries \in Seq(Lines) /\ Len(entries) = count
      /\ \A part \in 1..count : entries[part] = <<last + 1, part>>
  <2>1. \A part \in 1..count : <<last + 1, part>> \in Lines BY DEF Lines
  <2>2. entries = [part \in 1..count |-> <<last + 1, part>>] BY DEF Entries
  <2> HIDE DEF entries
  <2>3. entries \in [1..count -> Lines] BY <2>1, <2>2
  <2> QED BY <2>2, <2>3
<1>3. rest \in Seq(Lines) /\ Len(rest) \in {0, 1} /\ \A i \in 1..Len(rest) : rest[i] = Partial
  BY Rest
<1> HIDE DEF entries
<1>4. /\ longer \in Seq(Lines) /\ Len(longer) = n + count + Len(rest)
      /\ DOMAIN longer = 1..(n + count + Len(rest))
      /\ \A i \in 1..n : longer[i] = file[i]
      /\ \A part \in 1..count : longer[n + part] = entries[part]
      /\ \A i \in 1..Len(rest) : longer[n + count + i] = rest[i]
  <2> DEFINE written == file \o entries
  <2>1. /\ written \in Seq(Lines) /\ Len(written) = n + count
        /\ \A i \in 1..n : written[i] = file[i]
        /\ \A part \in 1..count : written[n + part] = entries[part]
    BY <1>1, <1>2, Joined
  <2>2. longer = written \o rest
    OBVIOUS
  <2> HIDE DEF written, longer, n
  <2>3. /\ longer \in Seq(Lines) /\ Len(longer) = n + count + Len(rest)
        /\ DOMAIN longer = 1..(n + count + Len(rest))
        /\ \A i \in 1..(n + count) : longer[i] = written[i]
        /\ \A i \in 1..Len(rest) : longer[n + count + i] = rest[i]
    <3>1. Len(written) = n + count /\ n + count \in Nat /\ written \in Seq(Lines)
      BY <1>1, <2>1
    <3>2. rest \in Seq(Lines) /\ Len(rest) \in Nat BY <1>3
    <3> HIDE DEF Lines
    <3>3. /\ longer \in Seq(Lines) /\ Len(longer) = Len(written) + Len(rest)
          /\ DOMAIN longer = 1..(Len(written) + Len(rest))
          /\ \A i \in 1..Len(written) : longer[i] = written[i]
          /\ \A i \in 1..Len(rest) : longer[Len(written) + i] = rest[i]
      BY <2>2, <3>1, <3>2, Joined, Zenon
    <3> QED BY <3>1, <3>3, Zenon
  <2>4. \A part \in 1..count : n + part \in 1..(n + count) BY <1>1
  <2>5. \A i \in 1..n : i \in 1..(n + count) BY <1>1
  <2> QED BY <2>1, <2>3, <2>4, <2>5
<1> HIDE DEF longer, n
<1>5. \A i \in DOMAIN longer :
        \/ i \in 1..n /\ longer[i] = file[i]
        \/ i - n \in 1..count /\ longer[i] = <<last + 1, i - n>>
        \/ i = Len(longer) /\ i > n + count /\ longer[i] = Partial
  <2> SUFFICES ASSUME NEW i \in DOMAIN longer
               PROVE  \/ i \in 1..n /\ longer[i] = file[i]
                      \/ i - n \in 1..count /\ longer[i] = <<last + 1, i - n>>
                      \/ i = Len(longer) /\ i > n + count /\ longer[i] = Partial
    OBVIOUS
  <2>1. i \in 1..(n + count + Len(rest)) BY <1>4
  <2>2. CASE i <= n BY <1>1, <1>4, <2>1, <2>2
  <2>3. CASE i > n /\ i <= n + count
    <3>1. i - n \in 1..count /\ n + (i - n) = i BY <1>1, <2>1, <2>3
    <3> QED BY <1>2, <1>4, <3>1
  <2>4. CASE i > n + count
    <3>1. i - (n + count) \in 1..Len(rest) /\ n + count + (i - (n + count)) = i
      BY <1>1, <1>3, <2>1, <2>4
    <3>2. longer[i] = Partial BY <1>3, <1>4, <3>1
    <3>3. i = Len(longer)
      <4>1. Len(longer) = n + count + Len(rest) BY <1>4
      <4>2. Len(rest) \in {0, 1} BY <1>3
      <4>3. n + count \in Nat BY <1>1
      <4>4. i = n + count + Len(rest) BY <2>1, <2>4, <4>2, <4>3, LastOfOne, Zenon
      <4> QED BY <4>1, <4>4, Zenon
    <3> QED BY <2>4, <3>2, <3>3
  <2> QED BY <1>1, <2>1, <2>2, <2>3, <2>4
<1>6. /\ \A i \in 1..n : file[i] # Partial /\ file[i][1] \in 1..last
      /\ \A i, j \in 1..n : j < i => Before(file[j], file[i])
  BY <1>1 DEF Ordered, Untorn, n
<1>7. Ordered(longer, last + 1)
  <2>1. \A i \in 1..count : <<last + 1, i>> # Partial BY DEF Partial
  <2>2. ASSUME NEW i \in DOMAIN longer, longer[i] = Partial PROVE i = Len(longer)
    BY <1>5, <1>6, <2>1, <2>2
  <2>3. ASSUME NEW i \in DOMAIN longer, longer[i] # Partial PROVE longer[i][1] \in 1..(last + 1)
    BY <1>5, <1>6, <2>3
  <2>4. ASSUME NEW i \in DOMAIN longer, NEW j \in DOMAIN longer, j < i, longer[i] # Partial
        PROVE  Before(longer[j], longer[i])
    <3>1. i \in Nat /\ j \in Nat BY <1>1, <1>3, <1>4
    <3>2. CASE i \in 1..n /\ longer[i] = file[i]
      <4>1. j \in 1..n /\ longer[j] = file[j] BY <1>1, <1>4, <2>4, <3>1, <3>2
      <4> QED BY <1>6, <2>4, <3>2, <4>1
    <3>3. CASE i - n \in 1..count /\ longer[i] = <<last + 1, i - n>>
      <4>1. CASE j \in 1..n
        <5>1. longer[j][1] \in 1..last BY <1>4, <1>6, <4>1
        <5> QED BY <3>3, <5>1 DEF Before
      <4>2. CASE j - n \in 1..count /\ longer[j] = <<last + 1, j - n>>
        BY <1>1, <2>4, <3>1, <3>3, <4>2 DEF Before
      <4>3. CASE j > n + count BY <1>1, <2>4, <3>1, <3>3, <4>3
      <4> QED BY <1>5, <4>1, <4>2, <4>3
    <3> QED BY <1>5, <2>4, <3>2, <3>3
  <2> QED BY <2>2, <2>3, <2>4 DEF Ordered
<1> QED BY <1>2, <1>4, <1>7 DEF longer, entries, n

\* A write that ends well adds the lines of its batch and leaves nothing torn.
LEMMA Appended ==
  ASSUME NEW file \in Seq(Lines), NEW last \in Nat, Ordered(file, last),
         Untorn(file, Len(file)), NEW count \in Nat
  PROVE  LET longer == file \o Entries(last + 1, count)
         IN /\ longer \in Seq(Lines) /\ Ordered(longer, last + 1)
            /\ Len(longer) = Len(file) + count
            /\ \A i \in 1..Len(file) : longer[i] = file[i]
            /\ \A part \in 1..count : longer[Len(file) + part] = <<last + 1, part>>
            /\ \A i \in 1..Len(longer) : longer[i] # Partial
<1> DEFINE entries == Entries(last + 1, count)
           longer == file \o entries
           n == Len(file)
<1>1. entries \in Seq(Lines)
  <2>1. \A part \in 1..count : <<last + 1, part>> \in Lines BY DEF Lines
  <2>2. entries = [part \in 1..count |-> <<last + 1, part>>] BY DEF Entries
  <2> HIDE DEF entries
  <2> QED BY <2>1, <2>2
<1> HIDE DEF entries
<1>2. longer \in Seq(Lines) BY <1>1, Joined
<1>3. longer \o <<>> = longer BY <1>2
<1>4. /\ longer \o <<>> \in Seq(Lines) /\ Ordered(longer \o <<>>, last + 1)
      /\ Len(longer \o <<>>) = n + count + Len(<<>>)
      /\ \A i \in 1..n : (longer \o <<>>)[i] = file[i]
      /\ \A part \in 1..count : (longer \o <<>>)[n + part] = <<last + 1, part>>
  BY Written, Zenon DEF entries
<1> HIDE DEF longer
<1>5. /\ Ordered(longer, last + 1) /\ Len(longer) = n + count
      /\ \A i \in 1..n : longer[i] = file[i]
      /\ \A part \in 1..count : longer[n + part] = <<last + 1, part>>
  <2>1. n + count + Len(<<>>) = n + count
    OBVIOUS
  <2> HIDE DEF n
  <2> QED BY <1>3, <1>4, <2>1, Zenon
<1>6. n \in Nat
  OBVIOUS
<1>7. ASSUME NEW i \in 1..Len(longer) PROVE longer[i] # Partial
  <2>1. CASE i <= n BY <1>5, <1>6, <2>1 DEF Untorn
  <2>2. CASE i > n
    <3>1. i - n \in 1..count /\ n + (i - n) = i BY <1>5, <1>6, <2>2
    <3>2. longer[i] = <<last + 1, i - n>> BY <1>5, <3>1
    <3> QED BY <3>2 DEF Partial
  <2> QED BY <1>5, <1>6, <2>1, <2>2
<1> QED BY <1>2, <1>5, <1>7 DEF longer, entries, n

\* A loss of power leaves a beginning of the file, and perhaps a torn line of it.
LEMMA Shortened ==
  ASSUME NEW file \in Seq(Lines), NEW last \in Nat, Ordered(file, last),
         NEW kept \in 0..Len(file), NEW rest \in {<<>>, <<Partial>>},
         rest = <<>> \/ kept < Len(file)
  PROVE  LET shorter == SubSeq(file, 1, kept) \o rest
         IN /\ shorter \in Seq(Lines) /\ Ordered(shorter, last)
            /\ kept <= Len(shorter)
            /\ \A i \in 1..kept : shorter[i] = file[i]
<1> DEFINE front == SubSeq(file, 1, kept)
           shorter == front \o rest
<1>1. kept \in Nat /\ DOMAIN file = 1..Len(file) /\ Len(file) \in Nat
  OBVIOUS
<1>2. /\ front \in Seq(Lines) /\ Len(front) = kept
      /\ \A i \in 1..kept : front[i] = file[i]
  <2> HIDE DEF Lines
  <2>1. \A i \in 1..kept : i \in 1..Len(file) BY <1>1
  <2>2. front \in Seq(Lines) BY <1>1, <2>1, SMTT(30)
  <2>3. Len(front) = kept /\ \A i \in 1..kept : front[i] = file[i] BY <1>1, <2>1
  <2> QED BY <2>2, <2>3
<1>3. rest \in Seq(Lines) /\ Len(rest) \in {0, 1} /\ \A i \in 1..Len(rest) : rest[i] = Partial
  BY Rest
<1>4. rest # <<>> => kept < Len(file)
  OBVIOUS
<1>5. Len(rest) = 1 => rest # <<>> BY Rest
<1> HIDE DEF front
<1>6. /\ shorter \in Seq(Lines) /\ Len(shorter) = kept + Len(rest)
      /\ DOMAIN shorter = 1..(kept + Len(rest))
      /\ \A i \in 1..kept : shorter[i] = front[i]
      /\ \A i \in 1..Len(rest) : shorter[kept + i] = rest[i]
  BY <1>1, <1>2, <1>3, Joined
<1> HIDE DEF shorter
<1>7. \A i \in DOMAIN shorter :
        \/ i \in 1..kept /\ shorter[i] = file[i]
        \/ i = kept + 1 /\ i = Len(shorter) /\ shorter[i] = Partial
  <2> SUFFICES ASSUME NEW i \in 1..(kept + Len(rest))
               PROVE  \/ i \in 1..kept /\ shorter[i] = file[i]
                      \/ i = kept + 1 /\ i = Len(shorter) /\ shorter[i] = Partial
    BY <1>6
  <2>1. CASE i <= kept
    <3>1. i \in 1..kept BY <1>1, <1>3, <2>1
    <3> QED BY <1>2, <1>6, <3>1
  <2>2. CASE i > kept
    <3>1. Len(rest) = 1 /\ i = kept + 1 BY <1>1, <1>3, <2>2
    <3>2. shorter[kept + 1] = rest[1] /\ rest[1] = Partial BY <1>3, <1>6, <3>1
    <3> QED BY <1>6, <3>1, <3>2
  <2> QED BY <1>1, <1>3, <2>1, <2>2
<1>8. \A i \in 1..kept : i \in DOMAIN file /\ (file[i] = Partial => Len(rest) = 0 /\ i = kept)
  <2> SUFFICES ASSUME NEW i \in 1..kept
               PROVE  i \in DOMAIN file /\ (file[i] = Partial => Len(rest) = 0 /\ i = kept)
    OBVIOUS
  <2>1. i \in DOMAIN file BY <1>1
  <2>2. file[i] = Partial => i = Len(file) BY <2>1 DEF Ordered
  <2>3. i <= kept /\ kept <= Len(file) /\ i \in Nat BY <1>1
  <2>4. i = Len(file) => ~(kept < Len(file)) /\ i = kept
    <3>1. \A a, b, c \in Nat : a <= b /\ b <= c /\ a = c => ~(b < c) /\ a = b
      OBVIOUS
    <3> QED BY <1>1, <2>3, <3>1, Zenon
  <2>5. ~(kept < Len(file)) => rest = <<>> BY <1>4, Zenon
  <2>6. rest = <<>> => Len(rest) = 0 BY Rest
  <2> QED BY <2>1, <2>2, <2>4, <2>5, <2>6, Zenon
<1>9. Ordered(shorter, last)
  <2>1. ASSUME NEW i \in DOMAIN shorter, shorter[i] = Partial PROVE i = Len(shorter)
    BY <1>1, <1>6, <1>7, <1>8, <2>1
  <2>2. ASSUME NEW i \in DOMAIN shorter, shorter[i] # Partial PROVE shorter[i][1] \in 1..last
    BY <1>7, <1>8, <2>2 DEF Ordered
  <2>3. ASSUME NEW i \in DOMAIN shorter, NEW j \in DOMAIN shorter, j < i, shorter[i] # Partial
        PROVE  Before(shorter[j], shorter[i])
    <3>1. i \in 1..kept /\ shorter[i] = file[i] BY <1>7, <2>3
    <3>2. j \in 1..kept /\ shorter[j] = file[j] BY <1>1, <1>2, <1>6, <2>3, <3>1
    <3> QED BY <1>8, <2>3, <3>1, <3>2 DEF Ordered
  <2> QED BY <2>1, <2>2, <2>3 DEF Ordered
<1> QED BY <1>1, <1>2, <1>3, <1>6, <1>9 DEF shorter, front

-----------------------------------------------------------------------------
(***************************************************************************)
(* No step loses what was synced.                                          *)
(***************************************************************************)
\* Whatever is cut off a file when it is loaded lies above what is synced.
LEMMA SyncedIsWhole ==
  ASSUME Durable
  PROVE  LET whole == RecoverPartial(lines)
         IN /\ whole \in Seq(Lines) /\ Ordered(whole, batches) /\ Untorn(whole, Len(whole))
            /\ synced <= Len(whole) /\ \A i \in 1..synced : whole[i] = lines[i]
            /\ whole # lines => Len(whole) = Len(lines) - 1
<1> DEFINE whole == RecoverPartial(lines)
<1>1. /\ lines \in Seq(Lines) /\ batches \in Nat /\ Ordered(lines, batches)
      /\ synced \in 0..Len(lines) /\ Untorn(lines, synced)
  BY DEF Durable
<1>2. /\ whole \in Seq(Lines) /\ Untorn(whole, Len(whole)) /\ Ordered(whole, batches)
      /\ \A i \in 1..Len(whole) : whole[i] = lines[i]
      /\ whole # lines => lines # <<>> /\ Len(whole) = Len(lines) - 1
                          /\ lines[Len(lines)] = Partial
  BY <1>1, Recovered, Zenon
<1> HIDE DEF whole
<1>3. Len(lines) \in Nat /\ Len(whole) \in Nat BY <1>1, <1>2
<1>4. synced <= Len(whole)
  <2>1. CASE whole = lines BY <1>1, <1>3, <2>1
  <2>2. CASE whole # lines
    <3>1. lines[Len(lines)] = Partial /\ Len(whole) = Len(lines) - 1 /\ Len(lines) > 0
      BY <1>2, <1>3, <2>2
    <3>2. synced # Len(lines) BY <1>1, <1>3, <3>1 DEF Untorn
    <3> QED BY <1>1, <1>3, <3>1, <3>2
  <2> QED BY <2>1, <2>2
<1>5. \A i \in 1..synced : whole[i] = lines[i] BY <1>1, <1>2, <1>3, <1>4
<1> QED BY <1>2, <1>4, <1>5 DEF whole

\* A file that keeps its synced lines keeps what was promised of them.
LEMMA PromisesKept ==
  ASSUME Durable, synced' \in Nat, synced <= synced',
         \A i \in 1..synced : lines'[i] = lines[i],
         NEW batch \in told, Syncs(batch)
  PROVE  Among(lines', synced', batch)
<1>1. synced \in Nat /\ Among(lines, synced, batch) BY DEF Durable
<1> QED BY <1>1, AmongKept, Zenon

LEMMA InitDurable == StoreInit => Durable
<1> SUFFICES ASSUME StoreInit PROVE Durable
  OBVIOUS
<1>1. lines = <<>> /\ synced = 0 /\ batches = 0 /\ told = {} BY DEF StoreInit
<1>2. lines \in Seq(Lines) /\ DOMAIN lines = {} /\ Len(lines) = 0 BY <1>1
<1>3. Ordered(lines, batches) /\ Untorn(lines, synced) BY <1>1, <1>2 DEF Ordered, Untorn
<1> QED BY <1>1, <1>2, <1>3 DEF Durable

LEMMA LoadsKeepDurable ==
  ASSUME Durable, Loads, UNCHANGED <<told, batches>>
  PROVE  Durable'
<1> DEFINE whole == RecoverPartial(lines)
<1>1. /\ whole \in Seq(Lines) /\ Ordered(whole, batches) /\ Untorn(whole, Len(whole))
      /\ synced <= Len(whole) /\ \A i \in 1..synced : whole[i] = lines[i]
  BY SyncedIsWhole, Zenon
<1> HIDE DEF whole
<1>2. lines' = whole /\ synced' = IF whole = lines THEN synced ELSE Len(whole)
  BY DEF Loads, whole
<1>3. /\ synced \in Nat /\ batches \in Nat /\ told \subseteq 1..batches
      /\ Untorn(lines, synced)
  BY DEF Durable
<1>4. Len(whole) \in Nat BY <1>1
<1>5. /\ synced' \in Nat /\ synced <= synced' /\ synced' <= Len(whole)
      /\ Untorn(whole, synced')
  BY <1>1, <1>2, <1>3, <1>4
<1>6. ASSUME NEW batch \in told, Syncs(batch) PROVE Among(lines', synced', batch)
  BY <1>1, <1>2, <1>5, <1>6, PromisesKept
<1> QED BY <1>1, <1>2, <1>3, <1>4, <1>5, <1>6 DEF Durable

LEMMA AppendCommitsKeepsDurable ==
  ASSUME Durable, NEW p \in Processes, AppendCommits(p)
  PROVE  Durable'
<1> DEFINE whole == RecoverPartial(lines)
           n == Len(whole)
<1>1. /\ whole \in Seq(Lines) /\ Ordered(whole, batches) /\ Untorn(whole, n)
      /\ synced <= n /\ \A i \in 1..synced : whole[i] = lines[i]
      /\ whole # lines => n = Len(lines) - 1
  BY SyncedIsWhole, Zenon
<1>2. /\ batches' = batches + 1 /\ told' = told \union {batches'}
      /\ lines' = whole \o Entries(batches + 1, BatchSize)
      /\ synced' = IF Syncs(batches') THEN Len(lines')
                   ELSE IF whole = lines THEN synced ELSE Len(lines) - 1
  BY DEF AppendCommits, Writes
<1> HIDE DEF whole, n
<1>3. /\ synced \in Nat /\ batches \in Nat /\ told \subseteq 1..batches
      /\ BatchSize \in Nat
  BY StoreAssumption DEF Durable
<1>4. n \in Nat /\ n = Len(whole) BY <1>1 DEF n
<1>5. /\ lines' \in Seq(Lines) /\ Ordered(lines', batches') /\ Len(lines') = n + BatchSize
      /\ \A i \in 1..n : lines'[i] = whole[i]
      /\ \A part \in 1..BatchSize : lines'[n + part] = <<batches', part>>
      /\ \A i \in 1..Len(lines') : lines'[i] # Partial
  <2> DEFINE longer == whole \o Entries(batches + 1, BatchSize)
  <2>1. /\ longer \in Seq(Lines) /\ Ordered(longer, batches + 1)
        /\ Len(longer) = Len(whole) + BatchSize
        /\ \A i \in 1..Len(whole) : longer[i] = whole[i]
        /\ \A part \in 1..BatchSize : longer[Len(whole) + part] = <<batches + 1, part>>
        /\ \A i \in 1..Len(longer) : longer[i] # Partial
    BY <1>1, <1>3, <1>4, Appended
  <2> HIDE DEF longer
  <2>2. lines' = longer /\ batches' = batches + 1 /\ n = Len(whole) BY <1>2, <1>4 DEF longer
  <2> QED BY <2>1, <2>2, Zenon
<1>6. synced' \in Nat /\ synced <= synced' /\ synced' <= Len(lines')
  BY <1>1, <1>2, <1>3, <1>4, <1>5
<1>7. \A i \in 1..synced : lines'[i] = lines[i] BY <1>1, <1>3, <1>4, <1>5
<1>8. Untorn(lines', synced') BY <1>3, <1>4, <1>5, <1>6 DEF Untorn
<1>9. ASSUME NEW batch \in told', Syncs(batch) PROVE Among(lines', synced', batch)
  <2>1. CASE batch \in told BY <1>6, <1>7, <1>9, <2>1, PromisesKept
  <2>2. CASE batch = batches'
    <3>1. synced' = n + BatchSize BY <1>2, <1>5, <1>9, <2>2
    <3>2. n + BatchSize <= synced' /\ n \in Nat BY <1>3, <1>4, <3>1
    <3>3. \A part \in 1..BatchSize : lines'[n + part] = <<batch, part>> BY <1>5, <2>2
    <3> QED BY <3>2, <3>3 DEF Among
  <2> QED BY <1>2, <1>9, <2>1, <2>2
<1>10. batches' \in Nat /\ told' \subseteq 1..batches' BY <1>2, <1>3
<1> QED BY <1>3, <1>4, <1>5, <1>6, <1>8, <1>9, <1>10 DEF Durable

LEMMA AppendFailsKeepsDurable ==
  ASSUME Durable, NEW p \in Processes, AppendFails(p)
  PROVE  Durable'
<1> DEFINE whole == RecoverPartial(lines)
           n == Len(whole)
<1>1. /\ whole \in Seq(Lines) /\ Ordered(whole, batches) /\ Untorn(whole, n)
      /\ synced <= n /\ \A i \in 1..synced : whole[i] = lines[i]
      /\ whole # lines => n = Len(lines) - 1
  BY SyncedIsWhole, Zenon
<1>2. PICK count \in 0..BatchSize :
        \E rest \in {<<>>} \union (IF count < BatchSize THEN {<<Partial>>} ELSE {}) :
          lines' = whole \o Entries(batches', count) \o rest
  BY DEF AppendFails
<1>3. PICK rest \in {<<>>, <<Partial>>} : lines' = whole \o Entries(batches', count) \o rest
  BY <1>2
<1>4. /\ batches' = batches + 1 /\ told' = told
      /\ synced' = IF whole = lines THEN synced ELSE Len(lines) - 1
  BY DEF AppendFails, Writes
<1> HIDE DEF whole, n
<1>5. /\ synced \in Nat /\ batches \in Nat /\ told \subseteq 1..batches /\ count \in Nat
  BY StoreAssumption DEF Durable
<1>6. n \in Nat /\ n = Len(whole) BY <1>1 DEF n
<1>7. /\ lines' \in Seq(Lines) /\ Ordered(lines', batches')
      /\ Len(lines') = n + count + Len(rest)
      /\ \A i \in 1..n : lines'[i] = whole[i]
  <2> DEFINE longer == whole \o Entries(batches + 1, count) \o rest
  <2>1. /\ longer \in Seq(Lines) /\ Ordered(longer, batches + 1)
        /\ Len(longer) = Len(whole) + count + Len(rest)
        /\ \A i \in 1..Len(whole) : longer[i] = whole[i]
    <3>1. whole \in Seq(Lines) /\ Ordered(whole, batches) /\ Untorn(whole, Len(whole))
      BY <1>1, <1>6
    <3> QED BY <1>5, <3>1, Written, Zenon
  <2> HIDE DEF longer
  <2>2. lines' = longer /\ batches' = batches + 1 /\ n = Len(whole)
    BY <1>3, <1>4, <1>6 DEF longer
  <2> QED BY <2>1, <2>2, Zenon
<1>8. Len(rest) \in Nat BY Rest
<1>9. synced' \in Nat /\ synced <= synced' /\ synced' <= n BY <1>1, <1>4, <1>5, <1>6
<1>10. \A i \in 1..synced : lines'[i] = lines[i] BY <1>1, <1>5, <1>6, <1>7
<1>11. Untorn(lines', synced') BY <1>1, <1>6, <1>7, <1>9 DEF Untorn
<1>12. ASSUME NEW batch \in told', Syncs(batch) PROVE Among(lines', synced', batch)
  BY <1>4, <1>9, <1>10, <1>12, PromisesKept
<1>13. batches' \in Nat /\ told' \subseteq 1..batches' /\ synced' \in 0..Len(lines')
  BY <1>4, <1>5, <1>6, <1>7, <1>8, <1>9
<1> QED BY <1>7, <1>11, <1>12, <1>13 DEF Durable

LEMMA PowerLossKeepsDurable ==
  ASSUME Durable, PowerLoss
  PROVE  Durable'
<1>1. /\ lines \in Seq(Lines) /\ Ordered(lines, batches) /\ synced \in 0..Len(lines)
      /\ Untorn(lines, synced) /\ batches \in Nat /\ told \subseteq 1..batches
  BY DEF Durable
<1>2. PICK kept \in synced..Len(lines) :
        \E rest \in {<<>>} \union (IF kept < Len(lines) THEN {<<Partial>>} ELSE {}) :
          lines' = SubSeq(lines, 1, kept) \o rest
  BY DEF PowerLoss
<1>3. PICK rest \in {<<>>, <<Partial>>} :
        (rest = <<>> \/ kept < Len(lines)) /\ lines' = SubSeq(lines, 1, kept) \o rest
  BY <1>2
<1>4. Len(lines) \in Nat /\ kept \in 0..Len(lines) /\ synced <= kept /\ synced \in Nat
  BY <1>1
<1>5. /\ lines' \in Seq(Lines) /\ Ordered(lines', batches) /\ kept <= Len(lines')
      /\ \A i \in 1..kept : lines'[i] = lines[i]
  BY <1>1, <1>3, <1>4, Shortened, Zenon
<1>6. synced' = synced /\ told' = told /\ batches' = batches BY DEF PowerLoss
<1>7. \A i \in 1..synced : lines'[i] = lines[i] BY <1>4, <1>5
<1>8. Untorn(lines', synced') BY <1>1, <1>6, <1>7 DEF Untorn
<1>9. ASSUME NEW batch \in told', Syncs(batch) PROVE Among(lines', synced', batch)
  BY <1>4, <1>6, <1>7, <1>9, PromisesKept
<1>10. Len(lines') \in Nat BY <1>5
<1>11. synced' \in 0..Len(lines') BY <1>4, <1>5, <1>6, <1>10
<1> QED BY <1>1, <1>5, <1>6, <1>8, <1>9, <1>11 DEF Durable

LEMMA StepKeepsDurable == Durable /\ [StoreNext]_storeVars => Durable'
<1> SUFFICES ASSUME Durable, [StoreNext]_storeVars PROVE Durable'
  OBVIOUS
<1>1. ASSUME UNCHANGED <<lines, synced, told, batches>> PROVE Durable' BY <1>1 DEF Durable
<1>2. ASSUME NEW p \in Processes, Open(p) PROVE Durable' BY <1>2, LoadsKeepDurable DEF Open
<1>3. ASSUME NEW p \in Processes, Load(p) PROVE Durable' BY <1>3, LoadsKeepDurable DEF Load
<1>4. ASSUME NEW p \in Processes, CloseBegins(p) PROVE Durable'
  BY <1>1, <1>4 DEF CloseBegins
<1>5. ASSUME NEW p \in Processes, CloseEnds(p) PROVE Durable' BY <1>1, <1>5 DEF CloseEnds
<1>6. ASSUME NEW p \in Processes, Revoke(p) PROVE Durable' BY <1>1, <1>6 DEF Revoke
<1>7. CASE UNCHANGED storeVars BY <1>1, <1>7 DEF storeVars
<1> QED BY <1>2, <1>3, <1>4, <1>5, <1>6, <1>7, AppendCommitsKeepsDurable,
           AppendFailsKeepsDurable, PowerLossKeepsDurable DEF StoreNext

\* What is below the synced line is in the file, and the order is that of the batches.
LEMMA DurableIsKept == Durable => CommittedIsKept
<1> SUFFICES ASSUME Durable PROVE CommittedIsKept
  OBVIOUS
<1>1. /\ lines \in Seq(Lines) /\ Ordered(lines, batches) /\ synced \in 0..Len(lines)
      /\ \A batch \in told : Syncs(batch) => Among(lines, synced, batch)
  BY DEF Durable
<1>2. Len(lines) \in Nat /\ DOMAIN lines = 1..Len(lines) /\ BatchSize \in Nat
  BY <1>1, StoreAssumption
<1>3. ASSUME NEW batch \in told, Syncs(batch) PROVE Holds(lines, batch)
  <2>1. PICK at \in Nat : /\ at + BatchSize <= synced
                          /\ \A part \in 1..BatchSize : lines[at + part] = <<batch, part>>
    BY <1>1, <1>3 DEF Among
  <2>2. at \in 0..Len(lines) /\ \A part \in 1..BatchSize : at + part <= Len(lines)
    BY <1>1, <1>2, <2>1
  <2> QED BY <2>1, <2>2 DEF Holds
<1>4. ASSUME NEW i \in DOMAIN lines, NEW j \in 1..(i - 1)
      PROVE  \/ lines[j][1] < lines[i][1]
             \/ lines[j][1] = lines[i][1] /\ lines[j][2] < lines[i][2]
             \/ i = Len(lines) /\ lines[i] = Partial
  <2>1. j \in DOMAIN lines /\ j < i BY <1>2
  <2> QED BY <1>1, <2>1 DEF Ordered, Before
<1> QED BY <1>3, <1>4 DEF CommittedIsKept

-----------------------------------------------------------------------------
\* For any number of processes, of failed writes, of crashes and of losses of
\* power, a batch that was reported committed and asked for sync stays in the
\* file whole, and batches stay in their order (Append, loadLocked, Close).
THEOREM CommittedStays == StoreSpec => []CommittedIsKept
<1>1. StoreSpec => []Durable BY InitDurable, StepKeepsDurable, PTL DEF StoreSpec
<1> QED BY <1>1, DurableIsKept, PTL

-----------------------------------------------------------------------------
(***************************************************************************)
(* Generated programs. Two effects are the same call only when they are of *)
(* one step and one name. The calls of a step have names of their own, and *)
(* every effect that is kept or of the resumption at hand is of a step     *)
(* before the one at hand or of a call of it that was reached (Owned); a   *)
(* step that was suspended is the deferral's, in another process too       *)
(* (Held). A resumption that is not yet announced may fold back, so the    *)
(* deferral must stay one to go on from (Resumable).                       *)
(***************************************************************************)
\* what the variables hold
Phases == {"starts", "resumes", "given", "advances", "gate", "suspends", "suspended", "batch",
           "runs", "ran", "returned", "done", "failed", "settled", "lost"}
Whats == {"planned", "started", "effect", "announced"}
LogEntries == [what : Whats, step : Nat, id : NestedCalls \cup {""}, attempt : Nat]
Steps == [done : BOOLEAN, calls : Seq(NestedCalls), stdout : Nat]
Programs ==
  [phase : Phases, executor : Executors, given : Steps, attempt : Nat, step : Nat, stdout : Nat,
   calls : Seq(NestedCalls), dispositions : Seq(Dispositions),
   resolutions : [NestedCalls -> {"none", "execute", "return"}],
   results : Seq([id : NestedCalls, what : {"ran", "returned"}]), printed : Nat]
Deferrals == [step : Nat, calls : Seq(NestedCalls), dispositions : Seq(Dispositions), stdout : Nat]

\* the batch at hand, which a suspended program has left with its deferral
InHand == {"gate", "suspends", "suspended", "batch", "runs", "ran", "returned"}
Held(p, d) == IF p.phase = "suspended" THEN d ELSE [step |-> p.step, calls |-> p.calls, stdout |-> p.stdout]
\* the calls whose effects the program may have had in it
Done(p) == IF p.phase \in {"batch", "runs", "returned"} THEN Len(p.results)
           ELSE IF p.phase = "ran" THEN Len(p.results) + 1 ELSE 0
Had(p, d) == {Held(p, d).calls[i] : i \in 1..Done(p)}

\* a batch of the step is planned in the first entries
Planned(entries, k, step) == \E j \in 1..k : entries[j].what = "planned" /\ entries[j].step = step

\* the resumptions that are never repeated (Kept), and the one at hand
KeptIn(entries) ==
  {0} \cup {entries[j].attempt : j \in {k \in DOMAIN entries : entries[k].what = "announced"}}
Trusted(p, entries) == KeptIn(entries) \cup (IF p.phase = "suspended" THEN {} ELSE {p.attempt})

CodeTyped == program \in Programs /\ deferred \in Deferrals /\ log \in Seq(LogEntries)

\* the calls of a batch have names of their own, and a call that runs is one of them
Batched(p, d, entries) ==
  /\ p.phase \in InHand =>
       IsInjective(Held(p, d).calls) /\ Planned(entries, Len(entries), Held(p, d).step)
  /\ p.phase \in {"runs", "ran", "returned"} => Len(p.results) + 1 <= Len(p.calls)

Limited(p, d) ==
  /\ p.printed = Held(p, d).stdout /\ p.printed <= MaxStdout
  /\ p.step <= MaxSteps
  /\ p.phase \in InHand => Held(p, d).step < MaxSteps

\* an effect is written ahead, and one of its name before it was of a resumption given up
Repeats(entries, j, k) ==
  entries[j].what = "effect" /\ entries[j].step = entries[k].step /\ entries[j].id = entries[k].id
SoundAt(entries, k, kept) ==
  /\ k > 1 /\ entries[k - 1] = [entries[k] EXCEPT !.what = "started"]
  /\ Planned(entries, k, entries[k].step)
  /\ \A j \in 1..k - 1 : Repeats(entries, j, k) =>
       entries[j].attempt < entries[k].attempt /\ entries[j].attempt \notin kept
Sound(entries) ==
  \A k \in DOMAIN entries : entries[k].what = "effect" => SoundAt(entries, k, KeptIn(entries))

\* every effect of these resumptions is of a step before, or of a call of the batch that
\* was reached
Owned(entries, kept, step, names) ==
  \A k \in DOMAIN entries : entries[k].what = "effect" /\ entries[k].attempt \in kept =>
    entries[k].step < step \/ (entries[k].step = step /\ entries[k].id \in names)

\* a call runs right after its start was recorded
StartIsLast(p, entries) ==
  p.phase = "runs" =>
    /\ Len(entries) > 0
    /\ entries[Len(entries)] = [what |-> "started", step |-> p.step,
                                id |-> p.calls[Len(p.results) + 1], attempt |-> p.attempt]

\* no entry is of a resumption to come
Dated(entries, attempt) == \A k \in DOMAIN entries : entries[k].attempt <= attempt

\* what can be resumed from a deferral
Resumable(d, entries) ==
  /\ IsInjective(d.calls) /\ Planned(entries, Len(entries), d.step)
  /\ d.stdout <= MaxStdout /\ d.step < MaxSteps
  /\ Owned(entries, KeptIn(entries), d.step, {})
AtEnd == {"suspended", "settled", "lost"}
Safe(p, d, entries) ==
  /\ Dated(entries, p.attempt)
  /\ p.phase \notin AtEnd /\ p.attempt \notin KeptIn(entries) => Resumable(d, entries)

Accounts(p, d, entries) ==
  /\ Batched(p, d, entries) /\ Limited(p, d) /\ StartIsLast(p, entries) /\ Safe(p, d, entries)
  /\ p.phase \notin {"done", "failed", "settled", "lost"} =>
       Owned(entries, Trusted(p, entries), Held(p, d).step, Had(p, d))

CodeInv == CodeTyped /\ Sound(log) /\ Accounts(program, deferred, log) /\ FrontiersAreReleased

-----------------------------------------------------------------------------
\* A longer log has the old entries in their places.
LEMMA Grown ==
  ASSUME NEW entries \in Seq(LogEntries), NEW e \in LogEntries, NEW more, more = entries \o <<e>>
  PROVE  /\ more \in Seq(LogEntries) /\ Len(more) = Len(entries) + 1
         /\ \A k \in 1..Len(entries) : more[k] = entries[k]
         /\ more[Len(entries) + 1] = e
<1> HIDE DEF LogEntries
<1> QED OBVIOUS

\* What is planned stays planned.
LEMMA PlannedGrown ==
  ASSUME NEW entries \in Seq(LogEntries), NEW e \in LogEntries, NEW more, more = entries \o <<e>>,
         NEW step, Planned(entries, Len(entries), step)
  PROVE  Planned(more, Len(more), step)
<1>1. /\ Len(more) = Len(entries) + 1 /\ Len(entries) \in Nat
      /\ \A k \in 1..Len(entries) : more[k] = entries[k]
  BY Grown
<1>2. PICK j \in 1..Len(entries) : entries[j].what = "planned" /\ entries[j].step = step
  BY DEF Planned
<1>3. j \in 1..Len(more) /\ more[j] = entries[j] BY <1>1
<1> QED BY <1>2, <1>3 DEF Planned

\* The resumptions that are kept grow with those that are announced.
LEMMA KeptGrown ==
  ASSUME NEW entries \in Seq(LogEntries), NEW e \in LogEntries, NEW more, more = entries \o <<e>>
  PROVE  /\ KeptIn(entries) \subseteq KeptIn(more)
         /\ KeptIn(more) \subseteq KeptIn(entries) \cup {e.attempt}
         /\ e.what = "announced" => KeptIn(more) = KeptIn(entries) \cup {e.attempt}
         /\ e.what # "announced" => KeptIn(more) = KeptIn(entries)
<1>1. /\ Len(more) = Len(entries) + 1 /\ Len(entries) \in Nat
      /\ DOMAIN more = 1..Len(entries) + 1 /\ DOMAIN entries = 1..Len(entries)
      /\ \A k \in 1..Len(entries) : more[k] = entries[k]
      /\ more[Len(entries) + 1] = e
  BY Grown
<1>2. DOMAIN more = DOMAIN entries \cup {Len(entries) + 1} BY <1>1
<1>3. ASSUME NEW a, a \in KeptIn(entries)
      PROVE  a \in KeptIn(more)
  BY <1>1, <1>2, <1>3 DEF KeptIn
<1>4. ASSUME NEW a, a \in KeptIn(more), a \notin KeptIn(entries)
      PROVE  e.what = "announced" /\ a = e.attempt
  BY <1>1, <1>2, <1>4 DEF KeptIn
<1>5. ASSUME e.what = "announced"
      PROVE  e.attempt \in KeptIn(more)
  BY <1>1, <1>2, <1>5 DEF KeptIn
<1> QED BY <1>3, <1>4, <1>5

\* An effect of the log is written ahead in the longer one.
LEMMA SoundOld ==
  ASSUME NEW entries \in Seq(LogEntries), NEW e \in LogEntries, NEW more, more = entries \o <<e>>,
         Sound(entries), NEW k \in 1..Len(entries), more[k].what = "effect"
  PROVE  SoundAt(more, k, KeptIn(entries))
<1>1. Len(entries) \in Nat /\ DOMAIN entries = 1..Len(entries)
  OBVIOUS
<1>2. \A j \in 1..Len(entries) : more[j] = entries[j] BY Grown
<1>3. SoundAt(entries, k, KeptIn(entries)) BY <1>1, <1>2 DEF Sound
<1>4. /\ k > 1 /\ entries[k - 1] = [entries[k] EXCEPT !.what = "started"]
      /\ Planned(entries, k, entries[k].step)
      /\ \A j \in 1..k - 1 : Repeats(entries, j, k) =>
           entries[j].attempt < entries[k].attempt /\ entries[j].attempt \notin KeptIn(entries)
  BY <1>3 DEF SoundAt
<1>5. k - 1 \in 1..Len(entries) BY <1>1, <1>4
<1>6. more[k - 1] = [more[k] EXCEPT !.what = "started"] BY <1>2, <1>4, <1>5
<1>7. PICK j \in 1..k : entries[j].what = "planned" /\ entries[j].step = entries[k].step
  BY <1>4 DEF Planned
<1>8. j \in 1..Len(entries) BY <1>1
<1>9. more[j].what = "planned" /\ more[j].step = more[k].step BY <1>2, <1>7, <1>8
<1>10. Planned(more, k, more[k].step) BY <1>9 DEF Planned
<1>11. ASSUME NEW i \in 1..k - 1, Repeats(more, i, k)
       PROVE  more[i].attempt < more[k].attempt /\ more[i].attempt \notin KeptIn(entries)
  <2>1. i \in 1..Len(entries) /\ more[i] = entries[i] /\ more[k] = entries[k] BY <1>1, <1>2
  <2> QED BY <1>4, <1>11, <2>1 DEF Repeats
<1> QED BY <1>4, <1>6, <1>10, <1>11 DEF SoundAt

\* An entry that is no effect keeps the effects as they were, and is an announcement
\* of a resumption that no later one can have repeated.
LEMMA Noted ==
  ASSUME NEW entries \in Seq(LogEntries), NEW e \in LogEntries, NEW more, more = entries \o <<e>>,
         Sound(entries), e.what # "effect", Dated(entries, e.attempt)
  PROVE  /\ Sound(more)
         /\ \A kept, step, names : Owned(entries, kept, step, names) => Owned(more, kept, step, names)
<1>1. /\ Len(more) = Len(entries) + 1 /\ Len(entries) \in Nat
      /\ DOMAIN more = 1..Len(entries) + 1 /\ DOMAIN entries = 1..Len(entries)
      /\ \A k \in 1..Len(entries) : more[k] = entries[k]
      /\ more[Len(entries) + 1] = e
  BY Grown
<1>2. \A k \in DOMAIN more : k \in 1..Len(entries) \/ k = Len(entries) + 1 BY <1>1
<1>3. ASSUME NEW k \in DOMAIN more, more[k].what = "effect"
      PROVE  k \in 1..Len(entries)
  BY <1>1, <1>2, <1>3
<1>4. ASSUME NEW k \in DOMAIN more, more[k].what = "effect"
      PROVE  SoundAt(more, k, KeptIn(more))
  <2>1. k \in 1..Len(entries) BY <1>3, <1>4
  <2>2. SoundAt(more, k, KeptIn(entries)) BY <1>4, <2>1, SoundOld, ZenonT(30)
  <2>3. KeptIn(more) \subseteq KeptIn(entries) \cup {e.attempt} BY KeptGrown
  <2>4. more[k].attempt <= e.attempt /\ more[k].attempt \in Nat /\ e.attempt \in Nat
    <3>1. more[k] = entries[k] /\ entries[k] \in LogEntries BY <1>1, <2>1
    <3> QED BY <1>1, <2>1, <3>1 DEF Dated, LogEntries
  <2>5. ASSUME NEW j \in 1..k - 1, Repeats(more, j, k)
        PROVE  more[j].attempt < more[k].attempt /\ more[j].attempt \notin KeptIn(more)
    <3>1. more[j].attempt < more[k].attempt /\ more[j].attempt \notin KeptIn(entries)
      BY <2>2, <2>5 DEF SoundAt
    <3>2. more[j].attempt \in Nat
      <4>1. j \in 1..Len(entries) BY <1>1, <2>1
      <4>2. more[j] \in LogEntries BY <1>1, <4>1
      <4> QED BY <4>2 DEF LogEntries
    <3>3. more[j].attempt # e.attempt BY <2>4, <3>1, <3>2
    <3> QED BY <2>3, <3>1, <3>3
  <2> QED BY <2>2, <2>5 DEF SoundAt
<1>5. ASSUME NEW kept, NEW step, NEW names, Owned(entries, kept, step, names)
      PROVE  Owned(more, kept, step, names)
  BY <1>1, <1>3, <1>5 DEF Owned
<1> QED BY <1>4, <1>5 DEF Sound

\* An effect behind the start of its call, by a name that no effect of the step has that
\* is kept or of the same resumption, is written ahead and no repetition of one of those.
LEMMA Effected ==
  ASSUME NEW entries \in Seq(LogEntries), NEW e \in LogEntries, NEW more, more = entries \o <<e>>,
         Sound(entries), e.what = "effect", Len(entries) > 0, Dated(entries, e.attempt),
         entries[Len(entries)] = [e EXCEPT !.what = "started"],
         Planned(entries, Len(entries), e.step),
         NEW kept, kept = KeptIn(entries) \cup {e.attempt},
         NEW names, Owned(entries, kept, e.step, names), e.id \notin names
  PROVE  Sound(more) /\ Owned(more, kept, e.step, names \cup {e.id}) /\ KeptIn(more) = KeptIn(entries)
<1>1. /\ Len(more) = Len(entries) + 1 /\ Len(entries) \in Nat
      /\ DOMAIN more = 1..Len(entries) + 1 /\ DOMAIN entries = 1..Len(entries)
      /\ \A k \in 1..Len(entries) : more[k] = entries[k]
      /\ more[Len(entries) + 1] = e
  BY Grown
<1>2. \A k \in DOMAIN more : k \in 1..Len(entries) \/ k = Len(entries) + 1 BY <1>1
<1>3. e.step \in Nat /\ e.attempt \in Nat BY DEF LogEntries
<1>4. KeptIn(more) = KeptIn(entries) BY KeptGrown
<1>5. ASSUME NEW k \in 1..Len(entries), more[k].what = "effect", more[k].step = e.step, more[k].id = e.id
      PROVE  more[k].attempt < e.attempt /\ more[k].attempt \notin KeptIn(entries)
  <2>1. more[k] = entries[k] /\ entries[k] \in LogEntries /\ k \in DOMAIN entries BY <1>1
  <2>2. entries[k].attempt <= e.attempt /\ entries[k].attempt \in Nat
    BY <2>1 DEF Dated, LogEntries
  <2>3. entries[k].attempt \notin kept BY <1>3, <1>5, <2>1 DEF Owned
  <2> QED BY <1>3, <2>1, <2>2, <2>3
<1>6. ASSUME NEW k \in DOMAIN more, more[k].what = "effect"
      PROVE  SoundAt(more, k, KeptIn(more))
  <2>1. CASE k \in 1..Len(entries) BY <1>4, <1>6, <2>1, SoundOld, ZenonT(30)
  <2>2. CASE k = Len(entries) + 1
    <3>1. k > 1 /\ k - 1 = Len(entries) /\ Len(entries) \in 1..Len(entries) /\ more[k] = e
      BY <1>1, <2>2
    <3>2. more[k - 1] = [more[k] EXCEPT !.what = "started"] BY <1>1, <3>1
    <3>3. Planned(more, Len(more), e.step) BY PlannedGrown
    <3>4. Len(more) = k BY <1>1, <2>2
    <3>5. \A j \in 1..k - 1 : Repeats(more, j, k) =>
            more[j].attempt < more[k].attempt /\ more[j].attempt \notin KeptIn(more)
      BY <1>4, <1>5, <3>1 DEF Repeats
    <3> QED BY <3>1, <3>2, <3>3, <3>4, <3>5 DEF SoundAt
  <2> QED BY <1>2, <2>1, <2>2
<1>7. ASSUME NEW k \in DOMAIN more, more[k].what = "effect", more[k].attempt \in kept
      PROVE  more[k].step < e.step \/ (more[k].step = e.step /\ more[k].id \in names \cup {e.id})
  <2>1. CASE k \in 1..Len(entries) BY <1>1, <1>7, <2>1 DEF Owned
  <2>2. CASE k = Len(entries) + 1 BY <1>1, <2>2
  <2> QED BY <1>2, <2>1, <2>2
<1> QED BY <1>4, <1>6, <1>7 DEF Sound, Owned

-----------------------------------------------------------------------------
\* phases without a batch at hand
InBetween == {"starts", "resumes", "given", "advances"}
Gone == {"failed", "settled", "lost"}
\* the frontier is let go, or there is none
Released == native' = "none" \/ (native' = native /\ program.phase # "advances")

\* the resumption, the step and what was printed are as before
KeepsCounts ==
  /\ program'.attempt = program.attempt
  /\ program'.step = program.step /\ program'.stdout = program.stdout
  /\ program'.printed = program.printed

\* A step that moves the program on only.
LEMMA PhaseFields ==
  ASSUME CodeTyped, NEW phase \in Phases, Becomes(phase)
  PROVE  /\ program' \in Programs /\ program'.phase = phase /\ KeepsCounts
         /\ program'.calls = program.calls /\ program'.results = program.results
<1>1. NoStep \in Steps
  <2>1. <<>> \in Seq(NestedCalls)
    OBVIOUS
  <2> QED BY <2>1 DEF NoStep, Step, Steps
<1> HIDE DEF NoStep
<1>2. program' = [program EXCEPT !.phase = phase, !.given = NoStep] BY DEF Becomes
<1> HIDE DEF Phases, Steps
<1> QED BY <1>1, <1>2 DEF CodeTyped, Programs, KeepsCounts

\* What may fold back stays resumable, whatever the resumption at hand records.
LEMMA KeepsSafe ==
  ASSUME CodeInv, program.phase \notin AtEnd, program'.attempt = program.attempt, deferred' = deferred,
         \/ log' = log
         \/ \E e \in LogEntries : e.attempt = program.attempt /\ log' = log \o <<e>>
  PROVE  Safe(program', deferred', log')
<1>1. /\ log \in Seq(LogEntries) /\ Dated(log, program.attempt) /\ program.attempt \in Nat
      /\ program.attempt \notin KeptIn(log) => Resumable(deferred, log)
  BY DEF CodeInv, CodeTyped, Accounts, Safe, Programs
<1>2. CASE log' = log BY <1>1, <1>2 DEF Safe
<1>3. ASSUME NEW e \in LogEntries, e.attempt = program.attempt, log' = log \o <<e>>
      PROVE  Safe(program', deferred', log')
  <2>1. /\ DOMAIN log' = 1..Len(log) + 1 /\ DOMAIN log = 1..Len(log) /\ Len(log) \in Nat
        /\ \A k \in 1..Len(log) : log'[k] = log[k]
        /\ log'[Len(log) + 1] = e
    BY <1>1, <1>3, Grown
  <2>2. \A k \in DOMAIN log' : k \in DOMAIN log \/ k = Len(log) + 1 BY <2>1
  <2>3. Dated(log', program'.attempt)
    <3>1. ASSUME NEW k \in DOMAIN log'
          PROVE  log'[k].attempt <= program.attempt
      <4>1. CASE k \in DOMAIN log
        <5>1. log'[k] = log[k] BY <2>1, <4>1
        <5> QED BY <1>1, <4>1, <5>1 DEF Dated
      <4>2. CASE k = Len(log) + 1
        <5>1. log'[k].attempt = program.attempt /\ program.attempt \in Nat
          BY <1>1, <1>3, <2>1, <4>2
        <5> QED BY <5>1
      <4> QED BY <2>2, <3>1, <4>1, <4>2
    <3> QED BY <3>1 DEF Dated
  <2>4. KeptIn(log) \subseteq KeptIn(log') /\ KeptIn(log') \subseteq KeptIn(log) \cup {e.attempt}
    BY <1>1, <1>3, KeptGrown
  <2>5. ASSUME program.attempt \notin KeptIn(log')
        PROVE  Resumable(deferred, log')
    <3>1. Resumable(deferred, log) /\ KeptIn(log') = KeptIn(log) BY <1>1, <1>3, <2>4, <2>5
    <3>2. Owned(log', KeptIn(log'), deferred.step, {})
      BY <1>3, <2>1, <2>2, <2>5, <3>1 DEF Resumable, Owned
    <3>3. Planned(log', Len(log'), deferred.step)
      BY <1>1, <1>3, <3>1, PlannedGrown DEF Resumable
    <3> QED BY <3>1, <3>2, <3>3 DEF Resumable
  <2> QED BY <2>3, <2>5 DEF Safe
<1> QED BY <1>2, <1>3

\* A program starts with nothing recorded.
LEMMA InitCodeInv == CodeInit => CodeInv
<1> SUFFICES ASSUME CodeInit PROVE CodeInv
  OBVIOUS
<1>1. PICK e \in Executors :
        program = [phase |-> "starts", executor |-> e, given |-> NoStep, attempt |-> 0,
                   step |-> 0, stdout |-> 0, calls |-> <<>>, dispositions |-> <<>>,
                   resolutions |-> NoResolutions, results |-> <<>>, printed |-> 0]
  BY DEF CodeInit
<1>2. MaxStdout \in Nat /\ MaxSteps \in Nat BY CodeAssumption
<1>3. CodeTyped
  BY <1>1 DEF CodeInit, CodeTyped, Programs, Deferrals, NoProgram, NoStep, Step, Steps, NoResolutions, Phases
<1>4. Sound(log) /\ Owned(log, Trusted(program, log), 0, Had(program, deferred))
  BY DEF CodeInit, Sound, Owned
<1>5. Safe(program, deferred, log) BY <1>1 DEF CodeInit, Safe, Dated, KeptIn
<1>6. Accounts(program, deferred, log)
  BY <1>1, <1>2, <1>4, <1>5 DEF Accounts, Batched, Limited, StartIsLast, InHand, Held
<1> QED BY <1>3, <1>4, <1>6 DEF CodeInv, FrontiersAreReleased, CodeInit

\* A program that fails, is settled or is lost counts for what it did until then.
LEMMA EndsKeepCodeInv ==
  ASSUME CodeInv, NEW phase \in Gone, Becomes(phase), UNCHANGED <<deferred, log>>,
         program.phase \notin AtEnd,
         Released
  PROVE  CodeInv'
<1>1. phase \in Phases BY DEF Gone, Phases
<1>2. /\ program' \in Programs /\ program'.phase = phase /\ KeepsCounts
  BY <1>1, PhaseFields DEF CodeInv
<1>3. CodeTyped' /\ Sound(log)' /\ FrontiersAreReleased'
  BY <1>2 DEF CodeInv, CodeTyped, FrontiersAreReleased, Released
<1>4. Limited(program, deferred)'
  BY <1>2 DEF CodeInv, Accounts, Limited, KeepsCounts, Held, Gone, InHand, AtEnd
<1>5. Batched(program, deferred, log)' /\ StartIsLast(program, log)'
  BY <1>2 DEF Batched, StartIsLast, Gone, InHand
<1>6. Safe(program, deferred, log)' BY <1>2, KeepsSafe DEF KeepsCounts
<1> QED BY <1>2, <1>3, <1>4, <1>5, <1>6 DEF CodeInv, Accounts, Gone

\* Between batches the executor has its way with the program, and nothing is recorded.
LEMMA MovesKeepCodeInv ==
  ASSUME CodeInv, program' \in Programs, KeepsCounts, UNCHANGED <<deferred, log>>,
         program.phase \in InBetween, program'.phase \in InBetween, FrontiersAreReleased'
  PROVE  CodeInv'
<1>1. CodeTyped' /\ Sound(log)' BY DEF CodeInv, CodeTyped
<1>2. /\ Held(program, deferred).step = program.step /\ Held(program', deferred').step = program.step
      /\ Held(program', deferred').stdout = Held(program, deferred).stdout
  BY DEF Held, InBetween, KeepsCounts
<1>3. Limited(program, deferred)'
  BY <1>2 DEF CodeInv, Accounts, Limited, KeepsCounts, InBetween, InHand
<1>4. Batched(program, deferred, log)' /\ StartIsLast(program, log)'
  BY DEF Batched, StartIsLast, InBetween, InHand
<1>5. Done(program) = 0 /\ Done(program') = 0 BY DEF Done, InBetween
<1>6. Had(program, deferred) = {} /\ Had(program', deferred') = {} BY <1>5 DEF Had
<1>7. Trusted(program, log)' = Trusted(program, log) BY DEF Trusted, InBetween, KeepsCounts
<1>8. Owned(log, Trusted(program, log), Held(program, deferred).step, Had(program, deferred))
  BY DEF CodeInv, Accounts, InBetween
<1>9. Owned(log, Trusted(program, log), Held(program, deferred).step, Had(program, deferred))'
  BY <1>2, <1>6, <1>7, <1>8
<1>10. Safe(program, deferred, log)' BY KeepsSafe DEF KeepsCounts, AtEnd, InBetween
<1> QED BY <1>1, <1>3, <1>4, <1>9, <1>10 DEF CodeInv, Accounts

\* A step that the executor gave.
LEMMA GivenFields ==
  ASSUME CodeTyped, NEW step \in Steps, Given(step)
  PROVE  program' \in Programs /\ program'.phase = "given" /\ KeepsCounts /\ program'.given = step
<1>1. "given" \in Phases BY DEF Phases
<1> QED BY <1>1 DEF CodeTyped, Given, Programs, KeepsCounts

\* Executors keep the invariant: a subprocess's answer, and what Monty does.
LEMMA AnswersKeepCodeInv ==
  ASSUME CodeInv, SubprocessAnswers \/ MontyRuns \/ ResolvesLookup \/ Completes \/ CheckpointsCall
  PROVE  CodeInv'
<1>1. CASE SubprocessAnswers
  <2>1. program.phase \in InBetween /\ program.phase \notin {"advances", "suspended"}
        /\ UNCHANGED <<deferred, log>> /\ native' = native
    BY <1>1 DEF SubprocessAnswers, Runnable, InBetween
  <2>2. ASSUME NEW done \in BOOLEAN, NEW calls \in Batches, NEW stdout \in 0..MaxStdout,
               Given(Step(done, calls, stdout))
        PROVE  CodeInv'
    <3>1. stdout \in Nat /\ calls \in Seq(NestedCalls) BY CodeAssumption DEF Batches
    <3>2. Step(done, calls, stdout) \in Steps BY <3>1 DEF Step, Steps
    <3>3. program' \in Programs /\ program'.phase = "given" /\ KeepsCounts
      BY <2>2, <3>2, GivenFields DEF CodeInv
    <3>4. FrontiersAreReleased' BY <2>1, <3>3 DEF CodeInv, FrontiersAreReleased
    <3>5. program'.phase \in InBetween BY <3>3 DEF InBetween
    <3> QED BY <2>1, <3>3, <3>4, <3>5, MovesKeepCodeInv
  <2>3. CASE Becomes("failed")
    BY <2>1, <2>3, EndsKeepCodeInv DEF Gone, Released, AtEnd, InBetween
  <2> QED BY <1>1, <2>2, <2>3 DEF SubprocessAnswers
<1>2. CASE MontyRuns
  <2>1. "advances" \in Phases BY DEF Phases
  <2>2. program' \in Programs /\ program'.phase = "advances" /\ KeepsCounts
    BY <1>2, <2>1, PhaseFields DEF CodeInv, MontyRuns
  <2>3. program.phase \in InBetween /\ program'.phase \in InBetween /\ FrontiersAreReleased'
    BY <1>2, <2>2 DEF MontyRuns, Runnable, InBetween, FrontiersAreReleased
  <2>4. UNCHANGED <<deferred, log>> BY <1>2 DEF MontyRuns
  <2> QED BY <2>2, <2>3, <2>4, MovesKeepCodeInv
<1>3. CASE ResolvesLookup
  <2>1. UNCHANGED <<program, deferred, log>> /\ program.phase = "advances"
    BY <1>3 DEF ResolvesLookup
  <2>2. program' \in Programs /\ KeepsCounts /\ program'.phase = "advances"
    BY <2>1 DEF CodeInv, CodeTyped, KeepsCounts
  <2>3. program.phase \in InBetween /\ program'.phase \in InBetween /\ FrontiersAreReleased'
    BY <2>1, <2>2 DEF InBetween, FrontiersAreReleased
  <2> QED BY <2>1, <2>2, <2>3, MovesKeepCodeInv
<1>4. CASE Completes
  <2>1. program.phase = "advances" /\ native' = "none" /\ UNCHANGED <<deferred, log>>
        /\ Given(Step(TRUE, <<>>, 0))
    BY <1>4 DEF Completes
  <2>2. Step(TRUE, <<>>, 0) \in Steps BY DEF Step, Steps
  <2>3. program' \in Programs /\ program'.phase = "given" /\ KeepsCounts
    BY <2>1, <2>2, GivenFields DEF CodeInv
  <2>4. program.phase \in InBetween /\ program'.phase \in InBetween /\ FrontiersAreReleased'
    BY <2>1, <2>3 DEF InBetween, FrontiersAreReleased
  <2> QED BY <2>1, <2>3, <2>4, MovesKeepCodeInv
<1>5. CASE CheckpointsCall
  <2>1. program.phase = "advances" /\ native' = "none" /\ UNCHANGED <<deferred, log>>
    BY <1>5 DEF CheckpointsCall, Abandons
  <2>2. ASSUME NEW id \in NestedCalls, Given(Step(FALSE, <<id>>, 0))
        PROVE  CodeInv'
    <3>1. <<id>> \in Seq(NestedCalls)
      OBVIOUS
    <3>2. Step(FALSE, <<id>>, 0) \in Steps BY <3>1 DEF Step, Steps
    <3>3. program' \in Programs /\ program'.phase = "given" /\ KeepsCounts
      BY <2>2, <3>2, GivenFields DEF CodeInv
    <3>4. program.phase \in InBetween /\ program'.phase \in InBetween /\ FrontiersAreReleased'
      BY <2>1, <3>3 DEF InBetween, FrontiersAreReleased
    <3> QED BY <2>1, <3>3, <3>4, MovesKeepCodeInv
  <2>3. CASE Becomes("failed") BY <2>1, <2>3, EndsKeepCodeInv DEF Gone, Released, AtEnd
  <2> QED BY <1>5, <2>2, <2>3 DEF CheckpointsCall
<1> QED BY <1>1, <1>2, <1>3, <1>4, <1>5

\* So do the ways a program ends badly, and the commit of its result.
LEMMA FailuresKeepCodeInv ==
  ASSUME CodeInv, AbandonsFrontier \/ Rejects \/ RecordFails \/ CommitsResult
  PROVE  CodeInv'
<1>1. CASE AbandonsFrontier
  BY <1>1, EndsKeepCodeInv DEF AbandonsFrontier, Abandons, Fails, Gone, Released, AtEnd
<1>2. CASE Rejects BY <1>2, EndsKeepCodeInv DEF Rejects, Fails, Gone, Released, AtEnd
<1>3. CASE RecordFails
  BY <1>3, EndsKeepCodeInv DEF RecordFails, Fails, Gone, Released, AtEnd
<1>4. CASE CommitsResult BY <1>4, EndsKeepCodeInv DEF CommitsResult, Gone, Released, AtEnd
<1> QED BY <1>1, <1>2, <1>3, <1>4

\* The entries of a log.
LEMMA EntryTyped ==
  ASSUME CodeTyped, NEW what \in Whats, NEW id \in NestedCalls \cup {""}
  PROVE  /\ Entry(what, id) \in LogEntries
         /\ Entry(what, id).what = what /\ Entry(what, id).step = program.step /\ Entry(what, id).id = id
         /\ Entry(what, id).attempt = program.attempt
BY DEF CodeTyped, Programs, Entry, LogEntries

\* A record that is no effect, from the invariant.
LEMMA NotedLog ==
  ASSUME CodeInv, NEW e \in LogEntries, e.what # "effect", e.attempt = program.attempt,
         log' = log \o <<e>>
  PROVE  /\ log' \in Seq(LogEntries) /\ Sound(log')
         /\ \A kept, step, names : Owned(log, kept, step, names) => Owned(log', kept, step, names)
         /\ \A step : Planned(log, Len(log), step) => Planned(log', Len(log'), step)
         /\ Len(log') \in Nat \ {0} /\ log'[Len(log')] = e
         /\ e.what # "announced" => KeptIn(log') = KeptIn(log)
         /\ e.what = "announced" => KeptIn(log') = KeptIn(log) \cup {e.attempt}
<1>1. log \in Seq(LogEntries) /\ Sound(log) /\ Dated(log, e.attempt)
  BY DEF CodeInv, CodeTyped, Accounts, Safe
<1>2. /\ log' \in Seq(LogEntries) /\ Len(log') = Len(log) + 1
      /\ log'[Len(log) + 1] = e
  BY <1>1, Grown
<1>3. Sound(log') /\ \A kept, step, names : Owned(log, kept, step, names) => Owned(log', kept, step, names)
  BY <1>1, Noted
<1>4. \A step : Planned(log, Len(log), step) => Planned(log', Len(log'), step)
  BY <1>1, PlannedGrown
<1>5. Len(log) \in Nat BY <1>1
<1>6. Len(log') \in Nat \ {0} /\ log'[Len(log')] = e BY <1>2, <1>5
<1>7. /\ e.what # "announced" => KeptIn(log') = KeptIn(log)
      /\ e.what = "announced" => KeptIn(log') = KeptIn(log) \cup {e.attempt}
  BY <1>1, KeptGrown
<1> QED BY <1>2, <1>3, <1>4, <1>6, <1>7

\* The last step's output is counted with what was printed.
LEMMA FinishKeepsCodeInv ==
  ASSUME CodeInv, Finishes
  PROVE  CodeInv'
<1>1. /\ program.phase = "given" /\ ~Exceeds(program.given.stdout)
      /\ program' = [program EXCEPT !.phase = "done", !.printed = @ + program.given.stdout,
                                    !.stdout = @ + program.given.stdout, !.given = NoStep]
      /\ UNCHANGED <<deferred, native, log>>
  BY DEF Finishes
<1>2. /\ program \in Programs /\ program.stdout \in Nat /\ program.given.stdout \in Nat
      /\ program.printed \in Nat
  BY DEF CodeInv, CodeTyped, Programs, Steps
<1>3. /\ program' \in Programs /\ program'.phase = "done" /\ program'.step = program.step
      /\ program'.stdout = program.stdout + program.given.stdout
      /\ program'.printed = program.printed + program.given.stdout
      /\ program'.attempt = program.attempt
  <2>1. program.stdout + program.given.stdout \in Nat /\ program.printed + program.given.stdout \in Nat
    BY <1>2
  <2>2. NoStep \in Steps /\ "done" \in Phases BY DEF NoStep, Step, Steps, Phases
  <2> HIDE DEF NoStep, Steps, Phases
  <2> QED BY <1>1, <1>2, <2>1, <2>2 DEF Programs
<1>4. CodeTyped' /\ Sound(log)' BY <1>1, <1>3 DEF CodeInv, CodeTyped
<1>5. Limited(program, deferred)'
  <2>1. program.printed = program.stdout /\ program.step <= MaxSteps
    BY <1>1 DEF CodeInv, Accounts, Limited, Held
  <2>2. program.stdout + program.given.stdout <= MaxStdout
    BY <1>1, <1>2, CodeAssumption DEF Exceeds
  <2> QED BY <1>3, <2>1, <2>2 DEF Limited, Held, InHand
<1>6. Batched(program, deferred, log)' /\ StartIsLast(program, log)'
  BY <1>3 DEF Batched, StartIsLast, InHand
<1>7. FrontiersAreReleased' BY <1>1 DEF CodeInv, FrontiersAreReleased
<1>8. Safe(program, deferred, log)' BY <1>1, <1>3, KeepsSafe DEF AtEnd
<1> QED BY <1>3, <1>4, <1>5, <1>6, <1>7, <1>8 DEF CodeInv, Accounts

\* A batch is planned when its calls have names of their own and a step is left.
LEMMA PlanKeepsCodeInv ==
  ASSUME CodeInv, PlansBatch
  PROVE  CodeInv'
<1> DEFINE e == Entry("planned", "")
<1>1. /\ program.phase = "given" /\ validateStep(program.given) /\ ~Exceeds(program.given.stdout)
      /\ program.step < MaxSteps
      /\ program' = [program EXCEPT !.phase = "gate", !.calls = program.given.calls,
                       !.printed = @ + program.given.stdout, !.stdout = @ + program.given.stdout,
                       !.given = NoStep]
      /\ log' = log \o <<e>> /\ UNCHANGED <<deferred, native>>
  BY DEF PlansBatch, Logged
<1>2. e \in LogEntries /\ e.what = "planned" /\ e.step = program.step /\ e.attempt = program.attempt
  <2>1. "planned" \in Whats BY DEF Whats
  <2> QED BY <2>1, EntryTyped DEF CodeInv
<1> HIDE DEF e
<1>3. /\ log' \in Seq(LogEntries) /\ Sound(log')
      /\ \A kept, step, names : Owned(log, kept, step, names) => Owned(log', kept, step, names)
      /\ KeptIn(log') = KeptIn(log)
      /\ Len(log') \in Nat \ {0} /\ log'[Len(log')] = e
  BY <1>1, <1>2, NotedLog
<1>4. /\ program \in Programs /\ program.stdout \in Nat /\ program.given.stdout \in Nat
      /\ program.printed \in Nat /\ program.given.calls \in Seq(NestedCalls)
  BY DEF CodeInv, CodeTyped, Programs, Steps
<1>5. /\ program' \in Programs /\ program'.phase = "gate" /\ program'.step = program.step
      /\ program'.stdout = program.stdout + program.given.stdout
      /\ program'.printed = program.printed + program.given.stdout
      /\ program'.calls = program.given.calls /\ program'.attempt = program.attempt
  <2>1. program.stdout + program.given.stdout \in Nat /\ program.printed + program.given.stdout \in Nat
    BY <1>4
  <2>2. "gate" \in Phases /\ NoStep \in Steps BY DEF Phases, NoStep, Step, Steps
  <2> HIDE DEF Phases, NoStep, Steps
  <2> QED BY <1>1, <1>4, <2>1, <2>2 DEF Programs
<1>6. CodeTyped' BY <1>1, <1>3, <1>5 DEF CodeInv, CodeTyped
<1>7. Limited(program, deferred)'
  <2>1. program.printed = program.stdout /\ program.step <= MaxSteps
    BY <1>1 DEF CodeInv, Accounts, Limited, Held
  <2>2. program.stdout + program.given.stdout <= MaxStdout
    BY <1>1, <1>4, CodeAssumption DEF Exceeds
  <2> QED BY <1>1, <1>5, <2>1, <2>2 DEF Limited, Held, InHand
<1>8. Batched(program, deferred, log)'
  <2>1. Len(log') \in 1..Len(log') /\ log'[Len(log')].what = "planned" /\ log'[Len(log')].step = program.step
    BY <1>3, <1>2
  <2>2. Planned(log', Len(log'), program.step) BY <2>1 DEF Planned
  <2>3. IsInjective(program'.calls) BY <1>1, <1>5 DEF validateStep
  <2> QED BY <1>5, <2>2, <2>3 DEF Batched, Held
<1>9. StartIsLast(program, log)' BY <1>5 DEF StartIsLast
<1>10. Owned(log, Trusted(program, log), Held(program, deferred).step, Had(program, deferred))'
  <2>1. Owned(log, Trusted(program, log), program.step, {})
    <3>1. Had(program, deferred) = {} /\ Held(program, deferred).step = program.step
      BY <1>1 DEF Had, Held, Done
    <3>2. Owned(log, Trusted(program, log), Held(program, deferred).step, Had(program, deferred))
      BY <1>1 DEF CodeInv, Accounts
    <3> QED BY <3>1, <3>2
  <2>2. Had(program', deferred') = {} /\ Held(program', deferred').step = program.step
    BY <1>5 DEF Had, Held, Done
  <2>3. Trusted(program', log') = Trusted(program, log) BY <1>1, <1>3, <1>5 DEF Trusted
  <2> QED BY <1>3, <2>1, <2>2, <2>3
<1>11. FrontiersAreReleased' BY <1>1 DEF CodeInv, FrontiersAreReleased
<1>12. Safe(program, deferred, log)' BY <1>1, <1>2, <1>5, KeepsSafe DEF AtEnd
<1> QED BY <1>3, <1>6, <1>7, <1>8, <1>9, <1>10, <1>11, <1>12 DEF CodeInv, Accounts

\* The gate lets a batch run or suspends the call.
LEMMA EvaluateKeepsCodeInv ==
  ASSUME CodeInv, EvaluateBatch
  PROVE  CodeInv'
<1>1. PICK dispositions \in [DOMAIN program.calls -> Dispositions] :
        program' = [program EXCEPT !.dispositions = dispositions,
                      !.phase = IF "suspend" \in Range(dispositions) THEN "suspends" ELSE "batch"]
  BY DEF EvaluateBatch
<1>2. PICK phase \in {"suspends", "batch"} :
        program' = [program EXCEPT !.dispositions = dispositions, !.phase = phase]
  BY <1>1
<1>3. /\ program.phase = "gate" /\ native' = native /\ native = "none"
      /\ deferred' = deferred /\ log' = log
  BY DEF EvaluateBatch, CodeInv, FrontiersAreReleased
<1>4. program \in Programs /\ deferred \in Deferrals /\ log \in Seq(LogEntries) /\ Sound(log)
  BY DEF CodeInv, CodeTyped
<1>5. dispositions \in Seq(Dispositions) BY <1>4 DEF Programs
<1>6. /\ program' \in Programs /\ program'.phase = phase /\ program'.step = program.step
      /\ program'.printed = program.printed /\ program'.stdout = program.stdout
      /\ program'.calls = program.calls /\ program'.attempt = program.attempt
      /\ program'.results = program.results
  BY <1>2, <1>4, <1>5 DEF Programs, Phases
<1>7. /\ Held(program, deferred) = [step |-> program.step, calls |-> program.calls, stdout |-> program.stdout]
      /\ Held(program', deferred') = Held(program, deferred)
  BY <1>2, <1>3, <1>6 DEF Held
<1>8. Batched(program, deferred, log)' /\ Limited(program, deferred)' /\ StartIsLast(program, log)'
  BY <1>3, <1>6, <1>7 DEF CodeInv, Accounts, Batched, Limited, InHand, StartIsLast
<1>9. Owned(log, Trusted(program, log), Held(program, deferred).step, Had(program, deferred))'
  <2>1. Owned(log, Trusted(program, log), Held(program, deferred).step, Had(program, deferred))
    BY <1>3 DEF CodeInv, Accounts
  <2>2. Had(program, deferred) = {} BY <1>3 DEF Had, Done
  <2>3. Trusted(program', log') = Trusted(program, log) BY <1>3, <1>6 DEF Trusted
  <2>4. Owned(log, Trusted(program, log), Held(program, deferred).step, Had(program', deferred'))
    BY <2>1, <2>2 DEF Owned
  <2> QED BY <1>3, <1>7, <2>3, <2>4
<1>10. CodeTyped' /\ FrontiersAreReleased'
  BY <1>3, <1>4, <1>6 DEF CodeTyped, FrontiersAreReleased
<1>11. Safe(program, deferred, log)' BY <1>3, <1>6, KeepsSafe DEF AtEnd
<1> QED BY <1>3, <1>4, <1>8, <1>9, <1>10, <1>11 DEF CodeInv, Accounts

\* The program a suspension leaves behind.
LEMMA RestFields ==
  ASSUME CodeTyped, NEW stdout \in Nat, program' = AtRest(stdout)
  PROVE  /\ program' \in Programs /\ program'.phase = "suspended" /\ program'.step = 0
         /\ program'.printed = stdout /\ program'.attempt = program.attempt
<1>1. /\ NoStep \in Steps /\ "suspended" \in Phases /\ <<>> \in Seq(NestedCalls)
      /\ <<>> \in Seq(Dispositions) /\ 0 \in Nat
      /\ NoResolutions \in [NestedCalls -> {"none", "execute", "return"}]
      /\ <<>> \in Seq([id : NestedCalls, what : {"ran", "returned"}])
  BY DEF NoStep, Step, Steps, Phases, NoResolutions
<1> HIDE DEF NoStep, Steps, Phases, Dispositions, NoResolutions
<1> QED BY <1>1 DEF CodeTyped, Programs, AtRest

\* A program at rest can be resumed from its deferral.
LEMMA RestKeepsCodeInv ==
  ASSUME CodeTyped, Sound(log), Dated(log, program.attempt), program' = AtRest(deferred'.stdout),
         deferred' \in Deferrals, log' = log, native' = "none", Resumable(deferred', log)
  PROVE  CodeInv'
<1>1. deferred'.stdout \in Nat BY DEF Deferrals
<1>2. /\ program' \in Programs /\ program'.phase = "suspended" /\ program'.step = 0
      /\ program'.printed = deferred'.stdout /\ program'.attempt = program.attempt
  BY <1>1, RestFields
<1>3. Held(program', deferred') = deferred' /\ Had(program', deferred') = {}
      /\ Trusted(program', log') = KeptIn(log)
  BY <1>2 DEF Held, Had, Done, Trusted
<1>4. CodeTyped' /\ Sound(log') /\ FrontiersAreReleased'
  BY <1>2 DEF CodeTyped, FrontiersAreReleased
<1>5. Batched(program, deferred, log)' /\ StartIsLast(program, log)'
  BY <1>2, <1>3 DEF Batched, StartIsLast, Resumable
<1>6. Limited(program, deferred)' BY <1>2, <1>3, CodeAssumption DEF Limited, Resumable
<1>7. Safe(program, deferred, log)' BY <1>2 DEF Safe, AtEnd
<1>8. Owned(log, Trusted(program, log), Held(program, deferred).step, Had(program, deferred))'
  BY <1>3 DEF Resumable
<1> QED BY <1>4, <1>5, <1>6, <1>7, <1>8 DEF CodeInv, Accounts

\* A resumed program is announced: what it did is never repeated.
LEMMA AnnounceKeepsCodeInv ==
  ASSUME CodeInv, Announces
  PROVE  CodeInv'
<1> DEFINE e == Entry("announced", "")
<1>1. /\ program.phase \in {"done", "failed", "suspends"} /\ log' = log \o <<e>>
      /\ UNCHANGED <<program, deferred, native>>
  BY DEF Announces, Logged
<1>2. e \in LogEntries /\ e.what = "announced" /\ e.attempt = program.attempt
  <2>1. "announced" \in Whats BY DEF Whats
  <2> QED BY <2>1, EntryTyped DEF CodeInv
<1> HIDE DEF e
<1>3. /\ log' \in Seq(LogEntries) /\ Sound(log')
      /\ \A kept, step, names : Owned(log, kept, step, names) => Owned(log', kept, step, names)
      /\ \A step : Planned(log, Len(log), step) => Planned(log', Len(log'), step)
      /\ KeptIn(log') = KeptIn(log) \cup {program.attempt}
  BY <1>1, <1>2, NotedLog
<1>4. Trusted(program', log') = Trusted(program, log) BY <1>1, <1>3 DEF Trusted
<1>5. Safe(program, deferred, log)' BY <1>1, <1>2, KeepsSafe DEF AtEnd
<1>6. CodeTyped' /\ FrontiersAreReleased' /\ Limited(program, deferred)' /\ StartIsLast(program, log)'
  BY <1>1, <1>3 DEF CodeInv, CodeTyped, FrontiersAreReleased, Accounts, Limited, StartIsLast
<1>7. Batched(program, deferred, log)'
  <2>1. Batched(program, deferred, log) BY DEF CodeInv, Accounts
  <2> QED BY <1>1, <1>3, <2>1 DEF Batched
<1>8. program.phase \notin {"done", "failed", "settled", "lost"} =>
        Owned(log', Trusted(program', log'), Held(program', deferred').step, Had(program', deferred'))
  <2>1. program.phase \notin {"done", "failed", "settled", "lost"} =>
          Owned(log, Trusted(program, log), Held(program, deferred).step, Had(program, deferred))
    BY DEF CodeInv, Accounts
  <2> QED BY <1>1, <1>3, <1>4, <2>1
<1> QED BY <1>1, <1>3, <1>5, <1>6, <1>7, <1>8 DEF CodeInv, Accounts

\* A durable suspension is one to go on from.
LEMMA SuspendKeepsCodeInv ==
  ASSUME CodeInv, CommitsSuspension
  PROVE  CodeInv'
<1>1. /\ program.phase = "suspends" /\ program.attempt \in KeptIn(log) /\ UNCHANGED <<native, log>>
      /\ deferred' = DeferredProgram(program.dispositions) /\ program' = AtRest(program.printed)
  BY DEF CommitsSuspension, Announced, Kept, KeptIn
<1>2. CodeTyped /\ Sound(log) /\ Dated(log, program.attempt) /\ native = "none"
  BY <1>1 DEF CodeInv, Accounts, Safe, FrontiersAreReleased
<1>3. Held(program, deferred) = [step |-> program.step, calls |-> program.calls, stdout |-> program.stdout]
      /\ Had(program, deferred) = {} /\ Trusted(program, log) = KeptIn(log)
  BY <1>1 DEF Held, Had, Done, Trusted
<1>4. /\ IsInjective(program.calls) /\ Planned(log, Len(log), program.step)
      /\ program.printed = program.stdout /\ program.printed <= MaxStdout /\ program.step < MaxSteps
      /\ Owned(log, KeptIn(log), program.step, {})
  BY <1>1, <1>3 DEF CodeInv, Accounts, Batched, Limited, InHand
<1>5. /\ deferred' \in Deferrals /\ deferred'.step = program.step /\ deferred'.calls = program.calls
      /\ deferred'.stdout = program.stdout
  BY <1>1, <1>2 DEF CodeTyped, Programs, DeferredProgram, Deferrals
<1>6. Resumable(deferred', log) BY <1>4, <1>5 DEF Resumable
<1> QED BY <1>1, <1>2, <1>4, <1>5, <1>6, RestKeepsCodeInv

\* So is the one that a crash folds back to; otherwise the program is lost.
LEMMA CrashKeepsCodeInv ==
  ASSUME CodeInv, Crash
  PROVE  CodeInv'
<1>1. program.phase \notin AtEnd /\ native' = "none" /\ UNCHANGED <<deferred, log>>
  BY DEF Crash, AtEnd
<1>2. CASE FoldsBack
  <2>1. program' = AtRest(deferred.stdout) /\ program.attempt \notin KeptIn(log)
    BY <1>2 DEF Crash, FoldsBack, Announced, Kept, KeptIn
  <2>2. CodeTyped /\ Sound(log) /\ Dated(log, program.attempt) /\ Resumable(deferred, log)
    BY <1>1, <2>1 DEF CodeInv, Accounts, Safe
  <2>3. deferred \in Deferrals BY <2>2 DEF CodeTyped
  <2> QED BY <1>1, <2>1, <2>2, <2>3, RestKeepsCodeInv
<1>3. CASE ~FoldsBack
  <2>1. Becomes("lost") BY <1>3 DEF Crash
  <2> QED BY <1>1, <2>1, EndsKeepCodeInv DEF Gone, Released
<1> QED BY <1>2, <1>3

\* A resumed program goes on with the batch, the output and the step of its deferral.
LEMMA ResumeKeepsCodeInv ==
  ASSUME CodeInv, Resumes
  PROVE  CodeInv'
<1>1. PICK resolutions \in [NestedCalls -> {"none", "execute", "return"}] : program' = Resumed(resolutions)
  BY DEF Resumes
<1>2. program.phase = "suspended" /\ UNCHANGED <<deferred, native, log>> BY DEF Resumes
<1>3. program \in Programs /\ deferred \in Deferrals /\ log \in Seq(LogEntries) /\ Sound(log)
  BY DEF CodeInv, CodeTyped
<1>4. /\ IsInjective(deferred.calls) /\ Planned(log, Len(log), deferred.step)
      /\ program.printed = deferred.stdout /\ program.printed <= MaxStdout
      /\ deferred.step < MaxSteps /\ Dated(log, program.attempt)
  BY <1>2 DEF CodeInv, Accounts, Batched, Limited, Held, InHand, Safe
<1>5. Owned(log, KeptIn(log), deferred.step, {})
  <2>1. Had(program, deferred) = {} /\ Held(program, deferred).step = deferred.step
        /\ Trusted(program, log) = KeptIn(log)
    BY <1>2 DEF Had, Held, Done, Trusted
  <2>2. Owned(log, Trusted(program, log), Held(program, deferred).step, Had(program, deferred))
    BY <1>2 DEF CodeInv, Accounts
  <2> QED BY <2>1, <2>2
<1>6. /\ program' \in Programs /\ program'.phase = "batch" /\ program'.step = deferred.step
      /\ program'.printed = program.printed /\ program'.stdout = deferred.stdout
      /\ program'.calls = deferred.calls /\ program'.results = program.results
      /\ program'.attempt = program.attempt + 1 /\ program.attempt \in Nat
  <2>1. /\ "batch" \in Phases /\ program.attempt \in Nat /\ program.attempt + 1 \in Nat
        /\ deferred.step \in Nat /\ deferred.stdout \in Nat /\ deferred.calls \in Seq(NestedCalls)
        /\ deferred.dispositions \in Seq(Dispositions)
    BY <1>3 DEF Programs, Deferrals, Phases
  <2>2. program' = [program EXCEPT !.phase = "batch", !.attempt = program.attempt + 1,
                      !.step = deferred.step, !.stdout = deferred.stdout, !.calls = deferred.calls,
                      !.dispositions = deferred.dispositions, !.resolutions = resolutions]
    BY <1>1, <1>3 DEF Resumed, Programs
  <2> DEFINE N == program.attempt + 1
  <2>3. N \in Nat BY <2>1
  <2> HIDE DEF Phases, Steps, Dispositions, N
  <2>4. program' \in Programs BY <1>3, <2>1, <2>2, <2>3 DEF Programs, N
  <2>5. /\ program'.phase = "batch" /\ program'.step = deferred.step
        /\ program'.printed = program.printed /\ program'.stdout = deferred.stdout
        /\ program'.calls = deferred.calls /\ program'.results = program.results
        /\ program'.attempt = program.attempt + 1
    BY <1>3, <2>2 DEF Programs
  <2> QED BY <2>1, <2>4, <2>5
<1>7. CodeTyped' BY <1>2, <1>3, <1>6 DEF CodeTyped
<1>8. /\ Held(program', deferred').step = deferred.step /\ Held(program', deferred').calls = deferred.calls
      /\ Held(program', deferred').stdout = deferred.stdout
  BY <1>6 DEF Held
<1>9. Batched(program, deferred, log)' BY <1>2, <1>4, <1>6, <1>8 DEF Batched
<1>10. Limited(program, deferred)'
  <2>1. deferred.step <= MaxSteps BY <1>3, <1>4, CodeAssumption DEF Deferrals
  <2> QED BY <1>4, <1>6, <1>8, <2>1 DEF Limited
<1>11. \A k \in DOMAIN log : log[k].attempt \in Nat /\ log[k].attempt < program'.attempt
  <2>1. \A k \in DOMAIN log : log[k] \in LogEntries BY <1>3
  <2>2. \A k \in DOMAIN log : log[k].attempt \in Nat BY <2>1 DEF LogEntries
  <2>3. \A k \in DOMAIN log : log[k].attempt <= program.attempt BY <1>4 DEF Dated
  <2> QED BY <1>6, <2>2, <2>3
<1>12. Owned(log, Trusted(program, log), Held(program, deferred).step, Had(program, deferred))'
  <2>1. Trusted(program', log') = KeptIn(log) \cup {program'.attempt}
    BY <1>2, <1>6 DEF Trusted
  <2>2. \A k \in DOMAIN log : log[k].attempt # program'.attempt BY <1>6, <1>11
  <2> QED BY <1>2, <1>5, <1>8, <2>1, <2>2 DEF Owned
<1>13. Safe(program, deferred, log)'
  <2>1. Dated(log, program'.attempt) BY <1>6, <1>11 DEF Dated
  <2>2. Resumable(deferred, log) BY <1>4, <1>5 DEF Resumable
  <2> QED BY <1>2, <2>1, <2>2 DEF Safe
<1>14. StartIsLast(program, log)' /\ FrontiersAreReleased'
  BY <1>2, <1>6 DEF StartIsLast, FrontiersAreReleased, CodeInv
<1> QED BY <1>2, <1>3, <1>7, <1>9, <1>10, <1>12, <1>13, <1>14 DEF CodeInv, Accounts

\* phases of a batch that runs, and the names of its first calls
Running == {"batch", "runs", "ran", "returned"}
CallsTo(n) == {program.calls[i] : i \in 1..n}
Results == Seq([id : NestedCalls, what : {"ran", "returned"}])

\* what the invariant says of a batch that runs
RunningFacts ==
  /\ IsInjective(program.calls) /\ Planned(log, Len(log), program.step)
  /\ program.printed = program.stdout /\ program.printed <= MaxStdout
  /\ program.step < MaxSteps /\ program.step <= MaxSteps
  /\ Owned(log, KeptIn(log) \cup {program.attempt}, program.step, CallsTo(Done(program)))
  /\ program.phase # "batch" => Len(program.results) + 1 <= Len(program.calls)

\* The invariant says this of a batch that runs,
LEMMA RunningHas ==
  ASSUME CodeInv, program.phase \in Running
  PROVE  RunningFacts /\ native = "none"
<1>1. /\ Held(program, deferred).step = program.step /\ Held(program, deferred).calls = program.calls
      /\ Held(program, deferred).stdout = program.stdout
  BY DEF Held, Running
<1>2. Had(program, deferred) = CallsTo(Done(program)) BY <1>1 DEF Had, CallsTo
<1>3. Batched(program, deferred, log) /\ Limited(program, deferred)
      /\ Owned(log, Trusted(program, log), Held(program, deferred).step, Had(program, deferred))
  BY DEF CodeInv, Accounts, Running
<1>4. native = "none" BY DEF CodeInv, FrontiersAreReleased, Running
<1>5. Trusted(program, log) = KeptIn(log) \cup {program.attempt} BY DEF Trusted, Running
<1> QED BY <1>1, <1>2, <1>3, <1>4, <1>5 DEF RunningFacts, Batched, Limited, InHand, Running

\* and this is enough for it.
LEMMA RunningKeepsCodeInv ==
  ASSUME CodeTyped', Sound(log'), program'.phase \in Running, RunningFacts', native' = "none",
         StartIsLast(program', log'), Safe(program', deferred', log')
  PROVE  CodeInv'
<1>1. /\ Held(program', deferred').step = program'.step
      /\ Held(program', deferred').calls = program'.calls
      /\ Held(program', deferred').stdout = program'.stdout
  BY DEF Held, Running
<1>2. Had(program', deferred') = CallsTo(Done(program))' BY <1>1 DEF Had, CallsTo
<1>3. Batched(program, deferred, log)' /\ Limited(program, deferred)'
  BY <1>1, <1>2 DEF RunningFacts, Batched, Limited, InHand, Running
<1>4. FrontiersAreReleased' BY DEF FrontiersAreReleased
<1>5. Trusted(program', log') = KeptIn(log') \cup {program'.attempt} BY DEF Trusted, Running
<1>6. Owned(log, Trusted(program, log), Held(program, deferred).step, Had(program, deferred))'
  BY <1>1, <1>2, <1>5 DEF RunningFacts
<1> QED BY <1>3, <1>4, <1>6 DEF CodeInv, Accounts

\* The call after the results so far.
LEMMA CallAtHand ==
  ASSUME CodeTyped, Len(program.results) + 1 <= Len(program.calls)
  PROVE  /\ Len(program.results) \in Nat /\ At = Len(program.results) + 1
         /\ At \in DOMAIN program.calls /\ program.calls[At] \in NestedCalls
<1>1. program.results \in Results /\ program.calls \in Seq(NestedCalls)
  BY DEF CodeTyped, Programs, Results
<1>2. Len(program.results) \in Nat BY <1>1 DEF Results
<1> QED BY <1>1, <1>2 DEF At

\* The start is the last record when its call runs.
LEMMA StartKeepsCodeInv ==
  ASSUME CodeInv, StartsCall
  PROVE  CodeInv'
<1> DEFINE e == Entry("started", program.calls[At])
<1>1. /\ program.phase = "batch" /\ At <= Len(program.calls) /\ Becomes("runs")
      /\ log' = log \o <<e>> /\ UNCHANGED <<deferred, native>>
  BY DEF StartsCall, InBatch, Started, Logged
<1>2. CodeTyped /\ RunningFacts /\ native = "none" BY <1>1, RunningHas DEF Running, CodeInv
<1>3. /\ Len(program.results) \in Nat /\ At = Len(program.results) + 1 /\ program.calls[At] \in NestedCalls
  BY <1>1, <1>2, CallAtHand DEF At
<1>4. /\ e \in LogEntries /\ e.what = "started"
      /\ e = [what |-> "started", step |-> program.step, id |-> program.calls[Len(program.results) + 1],
              attempt |-> program.attempt]
      /\ e.attempt = program.attempt
  <2>1. "started" \in Whats BY DEF Whats
  <2> QED BY <1>2, <1>3, <2>1, EntryTyped DEF Entry
<1> HIDE DEF e
<1>5. /\ log' \in Seq(LogEntries) /\ Sound(log')
      /\ \A kept, step, names : Owned(log, kept, step, names) => Owned(log', kept, step, names)
      /\ KeptIn(log') = KeptIn(log)
      /\ \A step : Planned(log, Len(log), step) => Planned(log', Len(log'), step)
      /\ Len(log') \in Nat \ {0} /\ log'[Len(log')] = e
  BY <1>1, <1>4, NotedLog
<1>6. /\ program' \in Programs /\ program'.phase = "runs" /\ KeepsCounts
      /\ program'.calls = program.calls /\ program'.results = program.results
  <2>1. "runs" \in Phases BY DEF Phases
  <2> QED BY <1>1, <1>2, <2>1, PhaseFields
<1>7. Done(program') = Done(program) /\ CallsTo(Done(program))' = CallsTo(Done(program))
  BY <1>1, <1>6 DEF Done, CallsTo
<1>8. CodeTyped' BY <1>1, <1>2, <1>5, <1>6 DEF CodeTyped
<1>9. /\ Planned(log, Len(log), program.step)'
      /\ Owned(log, KeptIn(log) \cup {program.attempt}, program.step, CallsTo(Done(program)))'
  BY <1>2, <1>5, <1>6, <1>7 DEF RunningFacts, KeepsCounts
<1>10. RunningFacts' BY <1>1, <1>2, <1>3, <1>6, <1>9 DEF RunningFacts, KeepsCounts
<1>11. StartIsLast(program', log') BY <1>4, <1>5, <1>6 DEF StartIsLast, KeepsCounts
<1>12. native' = "none" /\ program'.phase \in Running BY <1>1, <1>2, <1>6 DEF Running
<1>13. Safe(program', deferred', log') BY <1>1, <1>4, <1>6, KeepsSafe DEF KeepsCounts, AtEnd
<1> QED BY <1>5, <1>8, <1>10, <1>11, <1>12, <1>13, RunningKeepsCodeInv

\* The effect of the call at hand is new: the calls before it have other names.
LEMMA ExecuteKeepsCodeInv ==
  ASSUME CodeInv, ExecutesCall
  PROVE  CodeInv'
<1> DEFINE e == Entry("effect", program.calls[At])
           names == CallsTo(Len(program.results))
           kept == KeptIn(log) \cup {e.attempt}
<1> HIDE DEF kept
<1>1. /\ program.phase = "runs" /\ Becomes("ran")
      /\ log' = log \o <<e>> /\ UNCHANGED <<deferred, native>>
  BY DEF ExecutesCall, Logged
<1>2. CodeTyped /\ RunningFacts /\ native = "none" /\ Sound(log) /\ StartIsLast(program, log)
  BY <1>1, RunningHas DEF Running, CodeInv, Accounts
<1>3. /\ Len(program.results) \in Nat /\ At = Len(program.results) + 1
      /\ At \in DOMAIN program.calls /\ program.calls[At] \in NestedCalls
      /\ Len(program.results) + 1 <= Len(program.calls)
  BY <1>1, <1>2, CallAtHand DEF RunningFacts
<1>4. /\ e \in LogEntries /\ e.what = "effect" /\ e.step = program.step /\ e.id = program.calls[At]
      /\ [e EXCEPT !.what = "started"]
           = [what |-> "started", step |-> program.step, id |-> program.calls[Len(program.results) + 1],
              attempt |-> program.attempt]
      /\ e.attempt = program.attempt
  <2>1. "effect" \in Whats BY DEF Whats
  <2>2. /\ e \in LogEntries /\ e.what = "effect" /\ e.step = program.step /\ e.id = program.calls[At]
        /\ e.attempt = program.attempt
    <3>1. program.calls[At] \in NestedCalls \cup {""} BY <1>3
    <3> QED BY <1>2, <2>1, <3>1, EntryTyped
  <2>3. [e EXCEPT !.what = "started"]
           = [what |-> "started", step |-> program.step, id |-> program.calls[Len(program.results) + 1],
              attempt |-> program.attempt]
    BY <1>3 DEF Entry
  <2> QED BY <2>2, <2>3
<1> HIDE DEF e
<1>5. log \in Seq(LogEntries) /\ Len(log) > 0 /\ log[Len(log)] = [e EXCEPT !.what = "started"]
  BY <1>1, <1>2, <1>4 DEF CodeTyped, StartIsLast
<1>6. Planned(log, Len(log), e.step) /\ Owned(log, kept, e.step, names) /\ Dated(log, e.attempt)
  <2>1. Planned(log, Len(log), e.step) /\ Dated(log, e.attempt)
    BY <1>2, <1>4 DEF RunningFacts, CodeInv, Accounts, Safe
  <2>2. Done(program) = Len(program.results) BY <1>1 DEF Done
  <2> QED BY <1>2, <1>4, <2>1, <2>2 DEF RunningFacts, kept
<1>7. e.id \notin names
  <2>1. ASSUME NEW i \in 1..Len(program.results)
        PROVE  program.calls[i] # program.calls[At]
    <3>1. i \in DOMAIN program.calls /\ i # At
      <4>1. program.calls \in Seq(NestedCalls) BY <1>2 DEF CodeTyped, Programs
      <4>2. DOMAIN program.calls = 1..Len(program.calls) /\ Len(program.calls) \in Nat
        BY <4>1
      <4> QED BY <1>3, <4>2
    <3> QED BY <1>2, <1>3, <3>1 DEF RunningFacts, IsInjective
  <2> QED BY <1>4, <2>1 DEF CallsTo
<1> HIDE DEF names
<1>8. Sound(log') /\ Owned(log', kept, e.step, names \cup {e.id}) /\ KeptIn(log') = KeptIn(log)
  BY <1>1, <1>2, <1>4, <1>5, <1>6, <1>7, Effected DEF kept
<1>9. log' \in Seq(LogEntries) /\ Planned(log', Len(log'), e.step)
  <2>1. log' \in Seq(LogEntries) BY <1>1, <1>4, <1>5, Grown
  <2>2. Planned(log', Len(log'), e.step) BY <1>1, <1>4, <1>5, <1>6, PlannedGrown
  <2> QED BY <2>1, <2>2
<1>10. /\ program' \in Programs /\ program'.phase = "ran" /\ KeepsCounts
       /\ program'.calls = program.calls /\ program'.results = program.results
  <2>1. "ran" \in Phases BY DEF Phases
  <2> QED BY <1>1, <1>2, <2>1, PhaseFields
<1>11. CallsTo(Done(program))' = names \cup {e.id}
  <2>1. Done(program') = Len(program.results) + 1 BY <1>10 DEF Done
  <2>2. 1..Len(program.results) + 1 = 1..Len(program.results) \cup {Len(program.results) + 1}
    BY <1>3
  <2>3. CallsTo(Done(program))' = {program.calls[i] : i \in 1..Len(program.results) + 1}
    BY <1>10, <2>1 DEF CallsTo
  <2>4. names = {program.calls[i] : i \in 1..Len(program.results)} BY DEF names, CallsTo
  <2>5. e.id = program.calls[Len(program.results) + 1] BY <1>3, <1>4
  <2> QED BY <2>2, <2>3, <2>4, <2>5
<1>12. CodeTyped' BY <1>1, <1>2, <1>9, <1>10 DEF CodeTyped
<1>13. /\ Planned(log, Len(log), program.step)'
       /\ Owned(log, KeptIn(log) \cup {program.attempt}, program.step, CallsTo(Done(program)))'
  BY <1>4, <1>8, <1>9, <1>10, <1>11 DEF KeepsCounts, kept
<1>14. RunningFacts' BY <1>2, <1>3, <1>10, <1>13 DEF RunningFacts, KeepsCounts
<1>15. StartIsLast(program', log') /\ native' = "none" /\ program'.phase \in Running
  BY <1>1, <1>2, <1>10 DEF StartIsLast, Running
<1>16. Safe(program', deferred', log')
  BY <1>1, <1>4, <1>10, KeepsSafe DEF KeepsCounts, AtEnd
<1> QED BY <1>8, <1>12, <1>14, <1>15, <1>16, RunningKeepsCodeInv

\* A call that is answered for has no effect.
LEMMA ReturnKeepsCodeInv ==
  ASSUME CodeInv, ReturnsCall
  PROVE  CodeInv'
<1>1. /\ program.phase = "batch" /\ At <= Len(program.calls) /\ Becomes("returned")
      /\ UNCHANGED <<deferred, native, log>>
  BY DEF ReturnsCall, InBatch
<1>2. CodeTyped /\ RunningFacts /\ native = "none" /\ Sound(log)
  BY <1>1, RunningHas DEF Running, CodeInv
<1>3. /\ program' \in Programs /\ program'.phase = "returned" /\ KeepsCounts
      /\ program'.calls = program.calls /\ program'.results = program.results
  <2>1. "returned" \in Phases BY DEF Phases
  <2> QED BY <1>1, <1>2, <2>1, PhaseFields
<1>4. Done(program') = Done(program) /\ CallsTo(Done(program))' = CallsTo(Done(program))
  BY <1>1, <1>3 DEF Done, CallsTo
<1>5. CodeTyped' /\ Sound(log') BY <1>1, <1>2, <1>3 DEF CodeTyped
<1>6. /\ Planned(log, Len(log), program.step)'
      /\ Owned(log, KeptIn(log) \cup {program.attempt}, program.step, CallsTo(Done(program)))'
  BY <1>1, <1>2, <1>3, <1>4 DEF RunningFacts, KeepsCounts
<1>7. RunningFacts' BY <1>1, <1>2, <1>3, <1>6 DEF RunningFacts, KeepsCounts, At
<1>8. StartIsLast(program', log') /\ native' = "none" /\ program'.phase \in Running
  BY <1>1, <1>2, <1>3 DEF StartIsLast, Running
<1>9. Safe(program', deferred', log') BY <1>1, <1>3, KeepsSafe DEF KeepsCounts, AtEnd
<1> QED BY <1>5, <1>7, <1>8, <1>9, RunningKeepsCodeInv

\* The next call is at hand once a result is recorded.
LEMMA RecordKeepsCodeInv ==
  ASSUME CodeInv, RecordsResult
  PROVE  CodeInv'
<1> DEFINE result == ResultOf(program.calls[At], program.phase)
<1>1. /\ program.phase \in {"ran", "returned"} /\ UNCHANGED <<deferred, native, log>>
      /\ program' = [program EXCEPT !.phase = "batch", !.results = Append(@, result)]
  BY DEF RecordsResult
<1>2. CodeTyped /\ RunningFacts /\ native = "none" /\ Sound(log)
  BY <1>1, RunningHas DEF Running, CodeInv
<1>3. /\ Len(program.results) \in Nat /\ program.calls[At] \in NestedCalls
  BY <1>1, <1>2, CallAtHand DEF RunningFacts
<1>4. result \in [id : NestedCalls, what : {"ran", "returned"}] BY <1>1, <1>3 DEF ResultOf
<1> HIDE DEF result
<1>5. /\ Append(program.results, result) \in Results
      /\ Len(Append(program.results, result)) = Len(program.results) + 1
  BY <1>2, <1>4 DEF CodeTyped, Programs, Results
<1>6. /\ program' \in Programs /\ program'.phase = "batch" /\ KeepsCounts
      /\ program'.calls = program.calls /\ Len(program'.results) = Len(program.results) + 1
  <2>1. "batch" \in Phases BY DEF Phases
  <2> HIDE DEF Results
  <2>2. program'.results = Append(program.results, result)
    BY <1>1, <1>2 DEF CodeTyped, Programs
  <2>3. program' \in Programs BY <1>1, <1>2, <1>5, <2>1 DEF CodeTyped, Programs, Results
  <2>4. program'.phase = "batch" /\ KeepsCounts /\ program'.calls = program.calls
    BY <1>1, <1>2 DEF CodeTyped, Programs, KeepsCounts
  <2> QED BY <1>5, <2>2, <2>3, <2>4
<1>7. Owned(log, KeptIn(log) \cup {program.attempt}, program.step, CallsTo(Done(program)))'
  <2>1. Owned(log, KeptIn(log) \cup {program.attempt}, program.step, CallsTo(Done(program)))
    BY <1>2 DEF RunningFacts
  <2>2. Done(program) \in {Len(program.results), Len(program.results) + 1} BY <1>1 DEF Done
  <2>3. Done(program') = Len(program.results) + 1 BY <1>6 DEF Done
  <2>4. 1..Done(program) \subseteq 1..Done(program') BY <1>3, <2>2, <2>3
  <2>5. CallsTo(Done(program)) \subseteq CallsTo(Done(program))' BY <1>6, <2>4 DEF CallsTo
  <2>6. program'.step = program.step /\ program'.attempt = program.attempt /\ log' = log
    BY <1>1, <1>6 DEF KeepsCounts
  <2>7. Owned(log, KeptIn(log) \cup {program.attempt}, program.step, CallsTo(Done(program))')
    BY <2>1, <2>5 DEF Owned
  <2> QED BY <2>6, <2>7
<1>8. CodeTyped' /\ Sound(log') BY <1>1, <1>2, <1>6 DEF CodeTyped
<1>9. Planned(log, Len(log), program.step)'
  BY <1>1, <1>2, <1>6 DEF RunningFacts, KeepsCounts
<1>10. RunningFacts' BY <1>2, <1>6, <1>7, <1>9 DEF RunningFacts, KeepsCounts
<1>11. StartIsLast(program', log') /\ native' = "none" /\ program'.phase \in Running
  BY <1>1, <1>2, <1>6 DEF StartIsLast, Running
<1>12. Safe(program', deferred', log') BY <1>1, <1>6, KeepsSafe DEF KeepsCounts, AtEnd
<1> QED BY <1>8, <1>10, <1>11, <1>12, RunningKeepsCodeInv

\* The effects of a batch are of an earlier step when the executor goes on.
LEMMA NextStepKeepsCodeInv ==
  ASSUME CodeInv, ResumesExecutor
  PROVE  CodeInv'
<1>1. /\ program.phase = "batch" /\ UNCHANGED <<deferred, native, log>>
      /\ program' = [program EXCEPT !.phase = "resumes", !.step = @ + 1, !.calls = <<>>,
                       !.dispositions = <<>>, !.resolutions = NoResolutions, !.results = <<>>]
  BY DEF ResumesExecutor
<1>2. CodeTyped /\ RunningFacts /\ native = "none" /\ Sound(log)
  BY <1>1, RunningHas DEF Running, CodeInv
<1>3. program.step \in Nat /\ program.step + 1 \in Nat /\ log \in Seq(LogEntries)
  BY <1>2 DEF CodeTyped, Programs
<1>4. /\ program' \in Programs /\ program'.phase = "resumes" /\ program'.step = program.step + 1
      /\ program'.printed = program.printed /\ program'.stdout = program.stdout
      /\ program'.attempt = program.attempt
  <2>1. /\ "resumes" \in Phases /\ <<>> \in Seq(NestedCalls) /\ <<>> \in Seq(Dispositions)
        /\ NoResolutions \in [NestedCalls -> {"none", "execute", "return"}]
        /\ <<>> \in Seq([id : NestedCalls, what : {"ran", "returned"}])
    BY DEF Phases, NoResolutions
  <2> HIDE DEF Phases, Steps, Dispositions, NoResolutions
  <2> QED BY <1>1, <1>2, <1>3, <2>1 DEF CodeTyped, Programs
<1>5. CodeTyped' /\ Sound(log') /\ FrontiersAreReleased'
  BY <1>1, <1>2, <1>4 DEF CodeTyped, FrontiersAreReleased
<1>6. /\ Held(program', deferred').step = program.step + 1
      /\ Held(program', deferred').stdout = program.stdout
  BY <1>4 DEF Held
<1>7. Limited(program, deferred)'
  <2>1. program.step + 1 <= MaxSteps BY <1>2, <1>3, CodeAssumption DEF RunningFacts
  <2> QED BY <1>2, <1>4, <1>6, <2>1 DEF Limited, RunningFacts, InHand
<1>8. Batched(program, deferred, log)' /\ StartIsLast(program, log)'
  BY <1>4 DEF Batched, StartIsLast, InHand
<1>9. Trusted(program', log') = KeptIn(log) \cup {program.attempt} BY <1>1, <1>4 DEF Trusted
<1>10. Owned(log', Trusted(program', log'), program.step + 1, Had(program', deferred'))
  <2>1. \A k \in DOMAIN log : log[k].step \in Nat
    <3>1. \A k \in DOMAIN log : log[k] \in LogEntries BY <1>3
    <3> QED BY <3>1 DEF LogEntries
  <2>2. \A k \in DOMAIN log : log[k].what = "effect" /\ log[k].attempt \in KeptIn(log) \cup {program.attempt}
          => log[k].step <= program.step
    BY <1>2, <1>3, <2>1 DEF RunningFacts, Owned
  <2> QED BY <1>1, <1>3, <1>9, <2>1, <2>2 DEF Owned
<1>11. Safe(program, deferred, log)' BY <1>1, <1>4, KeepsSafe DEF AtEnd
<1> QED BY <1>4, <1>5, <1>6, <1>7, <1>8, <1>10, <1>11 DEF CodeInv, Accounts

\* Every step keeps the invariant.
LEMMA StepKeepsCodeInv == CodeInv /\ [CodeNext]_codeVars => CodeInv'
<1> SUFFICES ASSUME CodeInv, [CodeNext]_codeVars PROVE CodeInv'
  OBVIOUS
<1>1. CASE SubprocessAnswers \/ MontyRuns \/ ResolvesLookup \/ Completes \/ CheckpointsCall
  BY <1>1, AnswersKeepCodeInv
<1>2. CASE AbandonsFrontier \/ Rejects \/ RecordFails \/ CommitsResult
  BY <1>2, FailuresKeepCodeInv
<1>3. CASE Finishes BY <1>3, FinishKeepsCodeInv
<1>4. CASE PlansBatch BY <1>4, PlanKeepsCodeInv
<1>5. CASE EvaluateBatch BY <1>5, EvaluateKeepsCodeInv
<1>6. CASE Resumes BY <1>6, ResumeKeepsCodeInv
<1>7. CASE StartsCall BY <1>7, StartKeepsCodeInv
<1>8. CASE ExecutesCall BY <1>8, ExecuteKeepsCodeInv
<1>9. CASE ReturnsCall BY <1>9, ReturnKeepsCodeInv
<1>10. CASE RecordsResult BY <1>10, RecordKeepsCodeInv
<1>11. CASE ResumesExecutor BY <1>11, NextStepKeepsCodeInv
<1>12. CASE Announces BY <1>12, AnnounceKeepsCodeInv
<1>13. CASE CommitsSuspension BY <1>13, SuspendKeepsCodeInv
<1>14. CASE Crash BY <1>14, CrashKeepsCodeInv
<1>15. CASE UNCHANGED codeVars
  <2>1. UNCHANGED <<program, deferred, native, log>> BY <1>15 DEF codeVars
  <2> QED BY <2>1 DEF CodeInv, CodeTyped, FrontiersAreReleased
<1> QED BY <1>1, <1>2, <1>3, <1>4, <1>5, <1>6, <1>7, <1>8, <1>9, <1>10, <1>11, <1>12, <1>13, <1>14,
          <1>15 DEF CodeNext

\* The invariant implies the property.
LEMMA CodeInvAccounts == CodeInv => ProgramsAreAccountable
<1> SUFFICES ASSUME CodeInv PROVE ProgramsAreAccountable
  OBVIOUS
<1>1. log \in Seq(LogEntries) /\ Sound(log) /\ Limited(program, deferred)
  BY DEF CodeInv, CodeTyped, Accounts
<1>2. DOMAIN log = 1..Len(log) BY <1>1
<1>3. ASSUME NEW k \in DOMAIN log, log[k].what = "effect"
      PROVE  /\ k > 1 /\ log[k - 1] = [log[k] EXCEPT !.what = "started"]
             /\ \E j \in 1..k : log[j].what = "planned" /\ log[j].step = log[k].step
             /\ \A j \in 1..k - 1 :
                  log[j].what = "effect" /\ log[j].step = log[k].step /\ log[j].id = log[k].id =>
                    log[j].attempt < log[k].attempt /\ log[j].attempt \notin Kept
  <2>1. SoundAt(log, k, KeptIn(log)) /\ Kept = KeptIn(log)
    BY <1>1, <1>3 DEF Sound, Kept, KeptIn
  <2> QED BY <2>1 DEF SoundAt, Planned, Repeats
<1>4. EffectsAreWrittenAhead BY <1>3 DEF EffectsAreWrittenAhead
<1>5. ProgramIsBounded BY <1>1 DEF ProgramIsBounded, Limited
<1> QED BY <1>4, <1>5 DEF ProgramsAreAccountable, CodeInv

\* A program of the code-execution tool has every effect planned and recorded as started
\* right before it. No effect of a resumption that was announced, or of the run that began
\* the call, is had again; one of a resumption that crashed before it was announced may be
\* had again by a later one, never twice by the same. What the program prints into its
\* result and its steps stay within their limits, and the interpreter keeps no frontier
\* (drive, recordCall, nestedCallID, abandon; driveLoop, applyRecoveredEvent).
THEOREM ProgramsAccount == CodeSpec => []ProgramsAreAccountable
<1>1. CodeSpec => []CodeInv BY InitCodeInv, StepKeepsCodeInv, PTL DEF CodeSpec
<1> QED BY <1>1, CodeInvAccounts, PTL
-----------------------------------------------------------------------------
(***************************************************************************)
(* The voice call. A response that is due is under way, or deferred behind *)
(* one that will be reported done, or about to be asked for (Spoken). What *)
(* the watcher has folded of a run, with the events it has not read, is    *)
(* what the run told (Historic, Followed), so that the call which takes    *)
(* the entry takes a report of that run (Outputted). Each call is handed   *)
(* to the session once (CallsAskedOnce), so the runs are enough (Counted). *)
(***************************************************************************)
\* what the variables hold
Outcomes == {"completed", "interrupted"}
RunStates == [answer : Nat, outcome : Outcomes \cup {"none"}, reported : BOOLEAN]
Books == UNION {[known -> RunStates] : known \in SUBSET Runs}
VoiceEvents == [kind : {"started", "done"}] \cup [kind : {"call"}, id : ToolCalls]
Told == {<<"entry", n>> : n \in Nat} \cup {<<"suspended">>} \cup {<<"settled", o>> : o \in Outcomes}
LoopEvents == {<<r, "entry", n>> : r \in Runs, n \in Nat} \cup {<<r, "suspended">> : r \in Runs}
                 \cup {<<r, "settled", o>> : r \in Runs, o \in Outcomes}
Pcs == {"none", "asked", "dispatch", "accepted", "busy", "steer", "waiting", "result", "respond",
        "ask", "done"}
Spoke == {<<>>, <<"refused">>, <<"busy">>, <<"paused">>, <<"interrupted">>}
           \cup {<<"added", n>> : n \in Nat} \cup {<<"answer", n>> : n \in Nat}

Voices == [speaking : BOOLEAN, turns : Nat, events : Seq(VoiceEvents), told : SUBSET ToolCalls,
           heard : SUBSET ToolCalls, rejected : BOOLEAN]
Bridges == [responding : BOOLEAN, deferred : BOOLEAN, owes : BOOLEAN, runs : Books]
Calls == [pc : Pcs, run : Nat, output : Spoke]
Loops == [active : Nat, last : Nat, state : [Runs -> {"none", "running", "suspended", "settled"}],
          entries : [Runs -> Nat], events : Seq(LoopEvents), told : [Runs -> Seq(Told)]]

VoiceTyped ==
  /\ voice \in Voices /\ bridge \in Bridges /\ call \in [ToolCalls -> Calls] /\ loop \in Loops
  /\ loop.active <= loop.last /\ loop.last <= Cardinality(ToolCalls)
  /\ \A c \in ToolCalls : call[c].run <= loop.last

\* calls the receive loop has not handed to the session, and their number
Fresh == {c \in ToolCalls : call[c].pc \in {"none", "asked", "dispatch"}}
Counted == loop.last + Cardinality(Fresh) <= Cardinality(ToolCalls)
Asking(i) == voice.events[i].kind = "call"
CallsAskedOnce ==
  /\ \A i \in DOMAIN voice.events : Asking(i) => call[voice.events[i].id].pc = "asked"
  /\ \A i, j \in DOMAIN voice.events : Asking(i) /\ voice.events[i] = voice.events[j] => i = j

\* responses
EndIsAhead(k) == \E j \in DOMAIN voice.events : j > k /\ voice.events[j].kind = "done"
StartsEnd == \A i \in DOMAIN voice.events : voice.events[i].kind = "started" => voice.speaking \/ EndIsAhead(i)
SomeoneAt(pcs) == \E c \in ToolCalls : call[c].pc \in pcs
ResponseGoesOn == bridge.responding => voice.speaking \/ EndIsAhead(0) \/ bridge.owes \/ SomeoneAt({"ask"})
ResultsAreDue == voice.rejected \/ voice.told \subseteq voice.heard \/ bridge.owes \/ bridge.deferred
                   \/ SomeoneAt({"respond", "ask"})
Spoken == StartsEnd /\ ResponseGoesOn /\ (bridge.deferred => bridge.responding) /\ ResultsAreDue

\* what a run told, and what of it is not yet watched
ToldOf(r, e) == \E n \in DOMAIN loop.told[r] : loop.told[r][n] = e
History(r) ==
  /\ \A n \in DOMAIN loop.told[r] : loop.told[r][n][1] = "entry" => loop.told[r][n][2] <= loop.entries[r]
  /\ loop.entries[r] = 0 \/ ToldOf(r, <<"entry", loop.entries[r]>>)
  /\ \A n \in DOMAIN loop.told[r] : loop.told[r][n][1] = "settled" =>
       n = Len(loop.told[r]) /\ loop.state[r] = "settled"
  /\ r > loop.last => loop.told[r] = <<>> /\ loop.entries[r] = 0 /\ r \notin DOMAIN bridge.runs
Unwatched(i) ==
  LET e == loop.events[i] IN
  /\ e[1] <= loop.last
  /\ e[2] = "entry" =>
       \/ e[3] = loop.entries[e[1]]
       \/ \E j \in DOMAIN loop.events : j > i /\ loop.events[j] = <<e[1], "entry", loop.entries[e[1]]>>
  /\ e[2] = "suspended" => ToldOf(e[1], <<"suspended">>)
  /\ e[2] = "settled" =>
       /\ ToldOf(e[1], <<"settled", e[3]>>)
       /\ \A j \in DOMAIN loop.events : loop.events[j][1] = e[1] => j <= i
Ongoing == loop.active # 0 => loop.state[loop.active] \in {"running", "suspended"}
Historic == (\A r \in Runs : History(r)) /\ (\A i \in DOMAIN loop.events : Unwatched(i)) /\ Ongoing

\* a run that a call waits for
View(r) == IF r \in DOMAIN bridge.runs THEN bridge.runs[r] ELSE NewRun
Tracked(c) == call[c].pc \in {"accepted", "waiting"}
Coming(r, kinds) == \E i \in DOMAIN loop.events : loop.events[i][1] = r /\ loop.events[i][2] \in kinds
Followed(r) ==
  /\ \/ View(r).answer = loop.entries[r]
     \/ \E i \in DOMAIN loop.events : loop.events[i] = <<r, "entry", loop.entries[r]>>
  /\ View(r).outcome # "none" =>
       /\ ToldOf(r, <<"settled", View(r).outcome>>) /\ View(r).reported
       /\ \A i \in DOMAIN loop.events : loop.events[i][1] # r
  /\ View(r).reported /\ View(r).outcome = "none" => ToldOf(r, <<"suspended">>)
  /\ loop.state[r] # "running" => View(r).reported \/ Coming(r, {"suspended", "settled"})
Waited ==
  /\ \A c \in ToolCalls : Tracked(c) => \E r \in Runs : call[c].run = r /\ Followed(r)
  /\ \A c \in ToolCalls : call[c].pc = "waiting" => call[c].run \in DOMAIN bridge.runs
  /\ \A c, d \in ToolCalls : Tracked(c) /\ Tracked(d) /\ call[c].run = call[d].run => c = d

Outputted ==
  \A c \in ToolCalls : call[c].output # <<>> =>
    /\ call[c].pc \in {"result", "respond", "ask", "done"}
    /\ \/ call[c].output[1] \in {"refused", "busy", "added"}
       \/ call[c].run # 0 /\ call[c].output \in Reports(loop.told[call[c].run])

VoiceInv ==
  VoiceTyped /\ Counted /\ CallsAskedOnce /\ Spoken /\ Historic /\ Waited /\ Outputted

-----------------------------------------------------------------------------
\* The names of runs are numbers, as many as there are tool calls.
LEMMA RunsAre == Runs = 1..Cardinality(ToolCalls) /\ Cardinality(ToolCalls) \in Nat
BY BridgeAssumption, FS_CardinalityType DEF Runs

\* What the events of the watched stream look like, element by element.
LEMMA Prefixed ==
  ASSUME NEW a, NEW b, NEW c
  PROVE  <<a>> \o <<b>> = <<a, b>> /\ <<a>> \o <<b, c>> = <<a, b, c>>
<1> DEFINE X == {a, b, c}
<1>1. <<a>> \in Seq(X) /\ <<b>> \in Seq(X) /\ <<b, c>> \in Seq(X)
  OBVIOUS
<1> HIDE DEF X
<1>2. ASSUME NEW s \in Seq(X)
      PROVE  /\ <<a>> \o s \in Seq(X) /\ Len(<<a>> \o s) = Len(s) + 1 /\ (<<a>> \o s)[1] = a
             /\ \A i \in 1..Len(s) : (<<a>> \o s)[i + 1] = s[i]
  BY <1>1
<1>3. ASSUME NEW s \in Seq(X), NEW t \in Seq(X), Len(s) = Len(t), \A i \in 1..Len(s) : s[i] = t[i]
      PROVE  s = t
  BY <1>3
<1>4. <<a>> \o <<b>> = <<a, b>>
  <2> DEFINE s == <<a>> \o <<b>>
  <2>1. s \in Seq(X) /\ Len(s) = 2 /\ s[1] = a /\ s[2] = b BY <1>1, <1>2
  <2>2. <<a, b>> \in Seq(X) BY DEF X
  <2> HIDE DEF s
  <2>3. s = <<a, b>> BY <2>1, <2>2, <1>3
  <2> QED BY <2>3 DEF s
<1>5. <<a>> \o <<b, c>> = <<a, b, c>>
  <2> DEFINE s == <<a>> \o <<b, c>>
  <2>1. s \in Seq(X) /\ Len(s) = 3 /\ s[1] = a /\ s[2] = b /\ s[3] = c BY <1>1, <1>2
  <2>2. <<a, b, c>> \in Seq(X) BY DEF X
  <2> HIDE DEF s
  <2>3. s = <<a, b, c>> BY <2>1, <2>2, <1>3
  <2> QED BY <2>3 DEF s
<1> QED BY <1>4, <1>5

\* An event names its run, then says what was told.
LEMMA Named ==
  ASSUME NEW r \in Runs, NEW e \in Told
  PROVE  /\ <<r>> \o e \in LoopEvents
         /\ (<<r>> \o e)[1] = r /\ (<<r>> \o e)[2] = e[1]
<1>1. CASE \E n \in Nat : e = <<"entry", n>>
  <2>1. PICK n \in Nat : e = <<"entry", n>> BY <1>1
  <2>2. <<r>> \o e = <<r, "entry", n>> BY <2>1, Prefixed
  <2> QED BY <2>1, <2>2 DEF LoopEvents
<1>2. CASE e = <<"suspended">>
  <2>1. <<r>> \o e = <<r, "suspended">> BY <1>2, Prefixed
  <2> QED BY <1>2, <2>1 DEF LoopEvents
<1>3. CASE \E o \in Outcomes : e = <<"settled", o>>
  <2>1. PICK o \in Outcomes : e = <<"settled", o>> BY <1>3
  <2>2. <<r>> \o e = <<r, "settled", o>> BY <2>1, Prefixed
  <2> QED BY <2>1, <2>2 DEF LoopEvents
<1> QED BY <1>1, <1>2, <1>3 DEF Told

\* The elements of a sequence that grew by one.
LEMMA OneMore ==
  ASSUME NEW S, NEW seq \in Seq(S), NEW e \in S
  PROVE  /\ Append(seq, e) \in Seq(S) /\ Len(seq) \in Nat
         /\ Len(Append(seq, e)) = Len(seq) + 1
         /\ DOMAIN seq = 1..Len(seq) /\ DOMAIN Append(seq, e) = 1..Len(seq) + 1
         /\ \A i \in DOMAIN seq : Append(seq, e)[i] = seq[i]
         /\ Append(seq, e)[Len(seq) + 1] = e
OBVIOUS

\* The elements of a sequence without its first.
LEMMA Rested ==
  ASSUME NEW S, NEW seq \in Seq(S), seq # <<>>
  PROVE  /\ Tail(seq) \in Seq(S) /\ Len(seq) \in Nat \ {0}
         /\ Head(seq) = seq[1] /\ Head(seq) \in S /\ 1 \in DOMAIN seq
         /\ DOMAIN seq = 1..Len(seq) /\ DOMAIN Tail(seq) = 1..Len(seq) - 1
         /\ \A i \in DOMAIN Tail(seq) : i + 1 \in DOMAIN seq /\ Tail(seq)[i] = seq[i + 1]
         /\ \A i \in DOMAIN seq : i # 1 => i - 1 \in DOMAIN Tail(seq) /\ Tail(seq)[i - 1] = seq[i]
OBVIOUS

\* The maximum of a set of numbers is the member that none exceeds.
LEMMA MaxIs ==
  ASSUME NEW S \in SUBSET Nat, NEW m \in S, \A n \in S : n <= m
  PROVE  Max(S) = m
<1>1. \A y \in S : m >= y
  OBVIOUS
<1>2. \A x \in S : (\A y \in S : x >= y) => x = m
  OBVIOUS
<1> QED BY <1>1, <1>2, Zenon DEF Max

\* A run that tells more can still be reported as before.
LEMMA ReportsGrow ==
  ASSUME NEW tale \in Seq(Told), NEW e \in Told
  PROVE  Reports(tale) \subseteq Reports(Append(tale, e))
<1> DEFINE more == Append(tale, e)
<1>1. DOMAIN tale \subseteq DOMAIN more /\ \A n \in DOMAIN tale : more[n] = tale[n]
  BY OneMore
<1>2. \A n \in DOMAIN tale : 1..n \subseteq DOMAIN tale BY OneMore
<1> HIDE DEF more
<1>3. ASSUME NEW n \in DOMAIN tale
      PROVE  AnswerBefore(more, n) = AnswerBefore(tale, n)
  <2>1. {x \in 1..n : more[x][1] = "entry"} = {x \in 1..n : tale[x][1] = "entry"}
    BY <1>1, <1>2
  <2>2. {more[m][2] : m \in {x \in 1..n : more[x][1] = "entry"}}
          = {tale[m][2] : m \in {x \in 1..n : tale[x][1] = "entry"}}
    BY <1>1, <1>2, <2>1
  <2> QED BY <2>2 DEF AnswerBefore
<1>4. ASSUME NEW o \in Reports(tale) PROVE o \in Reports(more)
  <2>1. CASE o \in {<<"paused">> : n \in {x \in DOMAIN tale : tale[x][1] = "suspended"}}
    BY <1>1, <2>1 DEF Reports
  <2>2. CASE \E n \in {x \in DOMAIN tale : tale[x][1] = "settled"} :
               o = IF tale[n][2] = "completed" THEN <<"answer", AnswerBefore(tale, n)>> ELSE <<tale[n][2]>>
    <3>1. PICK n \in {x \in DOMAIN tale : tale[x][1] = "settled"} :
               o = IF tale[n][2] = "completed" THEN <<"answer", AnswerBefore(tale, n)>> ELSE <<tale[n][2]>>
      BY <2>2
    <3>2. n \in DOMAIN more /\ more[n] = tale[n] /\ AnswerBefore(more, n) = AnswerBefore(tale, n)
      BY <1>1, <1>3
    <3>3. n \in {x \in DOMAIN more : more[x][1] = "settled"} BY <3>2
    <3>4. o = IF more[n][2] = "completed" THEN <<"answer", AnswerBefore(more, n)>> ELSE <<more[n][2]>>
      BY <3>1, <3>2
    <3> QED BY <3>3, <3>4 DEF Reports
  <2> QED BY <2>1, <2>2 DEF Reports
<1> QED BY <1>4 DEF more

-----------------------------------------------------------------------------
\* one call moves to another place and keeps its run and its output
Moves(c, pc) ==
  /\ call' \in [ToolCalls -> Calls] /\ call'[c].pc = pc
  /\ \A d \in ToolCalls : call'[d].run = call[d].run /\ call'[d].output = call[d].output
  /\ \A d \in ToolCalls \ {c} : call'[d] = call[d]
\* one call has an output
CallOver(c, output) ==
  /\ call' \in [ToolCalls -> Calls] /\ call'[c].pc = "result" /\ call'[c].output = output
  /\ \A d \in ToolCalls : call'[d].run = call[d].run
  /\ \A d \in ToolCalls \ {c} : call'[d] = call[d]

\* Setting the place of a call moves that call alone.
LEMMA CallMoves ==
  ASSUME VoiceTyped, NEW c \in ToolCalls, NEW pc \in Pcs, call' = [call EXCEPT ![c].pc = pc]
  PROVE  Moves(c, pc)
<1>1. call \in [ToolCalls -> Calls] /\ call[c] \in Calls BY DEF VoiceTyped
<1>2. call' = [call EXCEPT ![c] = [call[c] EXCEPT !.pc = pc]] BY <1>1
<1>3. /\ [call[c] EXCEPT !.pc = pc] \in Calls /\ [call[c] EXCEPT !.pc = pc].pc = pc
      /\ [call[c] EXCEPT !.pc = pc].run = call[c].run /\ [call[c] EXCEPT !.pc = pc].output = call[c].output
  BY <1>1 DEF Calls
<1> HIDE DEF Calls
<1>4. call' \in [ToolCalls -> Calls] /\ call'[c] = [call[c] EXCEPT !.pc = pc]
      /\ \A d \in ToolCalls \ {c} : call'[d] = call[d]
  BY <1>1, <1>2, <1>3
<1> QED BY <1>3, <1>4 DEF Moves

\* An output ends that call alone.
LEMMA CallEnds ==
  ASSUME VoiceTyped, NEW c \in ToolCalls, NEW output \in Spoke, Outputs(c, output)
  PROVE  CallOver(c, output)
<1>1. call \in [ToolCalls -> Calls] /\ call[c] \in Calls BY DEF VoiceTyped
<1> DEFINE n == [call[c] EXCEPT !.pc = "result", !.output = output]
<1>2. call' = [call EXCEPT ![c] = n] BY <1>1 DEF Outputs
<1>3. n \in Calls /\ n.pc = "result" /\ n.run = call[c].run /\ n.output = output
  BY <1>1 DEF Calls, Pcs
<1> HIDE DEF Calls, n
<1>4. call' \in [ToolCalls -> Calls] /\ call'[c] = n /\ \A d \in ToolCalls \ {c} : call'[d] = call[d]
  BY <1>1, <1>2, <1>3
<1> QED BY <1>3, <1>4 DEF CallOver

\* what a request for a response does
LEMMA AskedFields ==
  ASSUME VoiceTyped
  PROVE  /\ Asked(voice) \in Voices /\ Asked(voice).speaking /\ Asked(voice).told = voice.told
         /\ \/ voice.speaking /\ Asked(voice).rejected /\ Asked(voice).events = voice.events
            \/ /\ ~voice.speaking /\ Asked(voice).rejected = voice.rejected
               /\ voice.told \subseteq Asked(voice).heard
               /\ Asked(voice).events = Append(voice.events, [kind |-> "started"])
<1>1. voice \in Voices BY DEF VoiceTyped
<1>2. CASE voice.speaking BY <1>1, <1>2 DEF Asked, Voices
<1>3. CASE ~voice.speaking
  <2>1. [kind |-> "started"] \in VoiceEvents BY DEF VoiceEvents
  <2>2. Append(voice.events, [kind |-> "started"]) \in Seq(VoiceEvents)
    BY <1>1, <2>1, OneMore DEF Voices
  <2> HIDE DEF VoiceEvents
  <2> QED BY <1>1, <1>3, <2>2 DEF Asked, Voices
<1> QED BY <1>2, <1>3

-----------------------------------------------------------------------------
(* Responses *)
SameFlags ==
  /\ bridge'.responding = bridge.responding /\ bridge'.deferred = bridge.deferred
  /\ bridge'.owes = bridge.owes
SpeakersStay == \A c \in ToolCalls : call[c].pc \in {"respond", "ask"} => call'[c].pc = call[c].pc

\* What the bridge does that has nothing to do with speech.
LEMMA SpokenApart ==
  ASSUME Spoken, voice' = voice, SameFlags, SpeakersStay
  PROVE  Spoken'
<1>1. ASSUME NEW pcs \in {{"ask"}, {"respond", "ask"}}, SomeoneAt(pcs) PROVE SomeoneAt(pcs)'
  BY <1>1 DEF SomeoneAt, SpeakersStay
<1>2. SomeoneAt({"ask"}) => SomeoneAt({"ask"})' BY <1>1
<1>3. SomeoneAt({"respond", "ask"}) => SomeoneAt({"respond", "ask"})' BY <1>1
<1>4. StartsEnd' /\ (bridge.deferred => bridge.responding)'
  BY DEF Spoken, StartsEnd, EndIsAhead, SameFlags
<1>5. ResponseGoesOn' BY <1>2 DEF Spoken, ResponseGoesOn, EndIsAhead, SameFlags
<1>6. ResultsAreDue' BY <1>3 DEF Spoken, ResultsAreDue, SameFlags
<1> QED BY <1>4, <1>5, <1>6 DEF Spoken

\* Something is appended to the events of the voice model.
LEMMA StartsEndGrown ==
  ASSUME VoiceTyped, StartsEnd, NEW e \in VoiceEvents, voice'.events = Append(voice.events, e),
         e.kind = "done" \/ voice'.speaking
  PROVE  StartsEnd' /\ \A k : EndIsAhead(k) => EndIsAhead(k)'
<1>1. voice.events \in Seq(VoiceEvents) BY DEF VoiceTyped, Voices
<1>2. /\ DOMAIN voice.events = 1..Len(voice.events) /\ DOMAIN voice'.events = 1..Len(voice.events) + 1
      /\ \A i \in DOMAIN voice.events : voice'.events[i] = voice.events[i]
      /\ voice'.events[Len(voice.events) + 1] = e /\ Len(voice.events) \in Nat
  BY <1>1, OneMore
<1>3. \A k : EndIsAhead(k) => EndIsAhead(k)' BY <1>2 DEF EndIsAhead
<1>4. CASE voice'.speaking BY <1>3, <1>4 DEF StartsEnd
<1>5. CASE e.kind = "done"
  <2>1. ASSUME NEW i \in DOMAIN voice'.events, voice'.events[i].kind = "started"
        PROVE  EndIsAhead(i)'
    <3>1. i < Len(voice.events) + 1 BY <1>2, <1>5, <2>1
    <3> QED BY <1>2, <1>5, <3>1 DEF EndIsAhead
  <2> QED BY <1>3, <2>1 DEF StartsEnd
<1> QED BY <1>3, <1>4, <1>5

\* A response of the voice model's own.
LEMMA VoiceStartsSpoken ==
  ASSUME VoiceTyped, Spoken, VoiceStarts
  PROVE  Spoken' /\ voice' \in Voices
<1>1. voice \in Voices /\ UNCHANGED <<bridge, call, loop>>
      /\ voice' = [voice EXCEPT !.speaking = TRUE, !.turns = @ + 1,
                                !.events = Append(@, [kind |-> "started"])]
  BY DEF VoiceTyped, VoiceStarts
<1>2. [kind |-> "started"] \in VoiceEvents BY DEF VoiceEvents
<1>3. Append(voice.events, [kind |-> "started"]) \in Seq(VoiceEvents)
  BY <1>1, <1>2, OneMore DEF Voices
<1> HIDE DEF VoiceEvents
<1>4. /\ voice' \in Voices /\ voice'.speaking = TRUE /\ voice'.told = voice.told
      /\ voice'.heard = voice.heard /\ voice'.rejected = voice.rejected
      /\ voice'.events = Append(voice.events, [kind |-> "started"])
  <2>1. voice.turns + 1 \in Nat BY <1>1 DEF Voices
  <2> QED BY <1>1, <1>3, <2>1 DEF Voices
<1>5. StartsEnd' BY <1>2, <1>4, StartsEndGrown DEF Spoken
<1>6. ResponseGoesOn' BY <1>4 DEF ResponseGoesOn
<1>7. ResultsAreDue' /\ (bridge.deferred => bridge.responding)'
  BY <1>1, <1>4 DEF Spoken, ResultsAreDue, SomeoneAt
<1> QED BY <1>4, <1>5, <1>6, <1>7 DEF Spoken

\* The end of a response is on its way to the receive loop.
LEMMA VoiceEndsSpoken ==
  ASSUME VoiceTyped, Spoken, VoiceEnds
  PROVE  Spoken' /\ voice' \in Voices
<1>1. voice \in Voices /\ UNCHANGED <<bridge, call, loop>>
      /\ voice' = [voice EXCEPT !.speaking = FALSE, !.events = Append(@, [kind |-> "done"])]
  BY DEF VoiceTyped, VoiceEnds
<1>2. [kind |-> "done"] \in VoiceEvents BY DEF VoiceEvents
<1>3. Append(voice.events, [kind |-> "done"]) \in Seq(VoiceEvents)
  BY <1>1, <1>2, OneMore DEF Voices
<1> HIDE DEF VoiceEvents
<1>4. /\ voice' \in Voices /\ voice'.told = voice.told
      /\ voice'.heard = voice.heard /\ voice'.rejected = voice.rejected
      /\ voice'.events = Append(voice.events, [kind |-> "done"])
  BY <1>1, <1>3 DEF Voices
<1>5. StartsEnd' BY <1>2, <1>4, StartsEndGrown DEF Spoken
<1>6. EndIsAhead(0)'
  <2>1. voice.events \in Seq(VoiceEvents) BY <1>1 DEF Voices
  <2>2. /\ Len(voice.events) + 1 \in DOMAIN voice'.events /\ Len(voice.events) + 1 > 0
        /\ voice'.events[Len(voice.events) + 1] = [kind |-> "done"]
    BY <1>2, <1>4, <2>1, OneMore
  <2> QED BY <2>2 DEF EndIsAhead
<1>7. ResponseGoesOn' BY <1>6 DEF ResponseGoesOn
<1>8. ResultsAreDue' /\ (bridge.deferred => bridge.responding)'
  BY <1>1, <1>4 DEF Spoken, ResultsAreDue, SomeoneAt
<1> QED BY <1>4, <1>5, <1>7, <1>8 DEF Spoken

\* A tool call is part of a response that goes on.
LEMMA VoiceCallsSpoken ==
  ASSUME VoiceTyped, Spoken, NEW c \in ToolCalls, VoiceCalls(c)
  PROVE  Spoken' /\ voice' \in Voices /\ Moves(c, "asked")
<1>1. voice \in Voices /\ UNCHANGED <<bridge, loop>> /\ voice.speaking /\ call[c].pc = "none"
      /\ voice' = [voice EXCEPT !.events = Append(@, [kind |-> "call", id |-> c])]
      /\ call' = [call EXCEPT ![c].pc = "asked"]
  BY DEF VoiceTyped, VoiceCalls
<1>2. [kind |-> "call", id |-> c] \in VoiceEvents BY DEF VoiceEvents
<1>3. Append(voice.events, [kind |-> "call", id |-> c]) \in Seq(VoiceEvents)
  BY <1>1, <1>2, OneMore DEF Voices
<1> HIDE DEF VoiceEvents
<1>4. /\ voice' \in Voices /\ voice'.told = voice.told /\ voice'.speaking
      /\ voice'.heard = voice.heard /\ voice'.rejected = voice.rejected
      /\ voice'.events = Append(voice.events, [kind |-> "call", id |-> c])
  BY <1>1, <1>3 DEF Voices
<1>5. StartsEnd' BY <1>2, <1>4, StartsEndGrown DEF Spoken
<1>6. ResponseGoesOn' BY <1>4 DEF ResponseGoesOn
<1>7. Moves(c, "asked") BY <1>1, CallMoves DEF Pcs
<1>8. SomeoneAt({"respond", "ask"}) => SomeoneAt({"respond", "ask"})'
  BY <1>1, <1>7 DEF SomeoneAt, Moves
<1>9. ResultsAreDue' /\ (bridge.deferred => bridge.responding)'
  BY <1>1, <1>4, <1>8 DEF Spoken, ResultsAreDue
<1> QED BY <1>4, <1>5, <1>6, <1>7, <1>9 DEF Spoken

\* After a request the voice model speaks, and has been told of all results or rejects it.
LEMMA AskedSpoken ==
  ASSUME VoiceTyped, Spoken, voice' = Asked(voice),
         bridge'.deferred = bridge.deferred, bridge'.responding = bridge.responding
  PROVE  Spoken' /\ voice' \in Voices
<1>1. [kind |-> "started"] \in VoiceEvents /\ [kind |-> "started"].kind = "started"
  BY DEF VoiceEvents
<1> HIDE DEF VoiceEvents
<1>2. voice' \in Voices /\ voice'.speaking /\ voice'.told = voice.told BY AskedFields
<1>3. StartsEnd'
  <2>1. CASE voice'.events = voice.events BY <1>2, <2>1 DEF StartsEnd
  <2>2. CASE voice'.events = Append(voice.events, [kind |-> "started"])
    BY <1>1, <1>2, <2>2, StartsEndGrown DEF Spoken
  <2> QED BY <2>1, <2>2, AskedFields
<1>4. ResponseGoesOn' BY <1>2 DEF ResponseGoesOn
<1>5. ResultsAreDue' BY <1>2, AskedFields DEF ResultsAreDue
<1> QED BY <1>2, <1>3, <1>4, <1>5 DEF Spoken

\* The receive loop asks for the deferred response.
LEMMA LoopAsksSpoken ==
  ASSUME VoiceTyped, Spoken, LoopAsks
  PROVE  Spoken' /\ voice' \in Voices /\ bridge' \in Bridges /\ bridge'.runs = bridge.runs
<1>1. bridge \in Bridges /\ bridge' = [bridge EXCEPT !.owes = FALSE] /\ voice' = Asked(voice)
  BY DEF VoiceTyped, LoopAsks
<1>2. /\ bridge' \in Bridges /\ bridge'.runs = bridge.runs
      /\ bridge'.deferred = bridge.deferred /\ bridge'.responding = bridge.responding
  BY <1>1 DEF Bridges
<1> QED BY <1>1, <1>2, AskedSpoken

\* A call asks for its response.
LEMMA AskSpoken ==
  ASSUME VoiceTyped, Spoken, NEW c \in ToolCalls, Ask(c)
  PROVE  Spoken' /\ voice' \in Voices /\ Moves(c, "done")
<1>1. UNCHANGED <<bridge, loop>> /\ voice' = Asked(voice) /\ call' = [call EXCEPT ![c].pc = "done"]
  BY DEF Ask
<1>2. Moves(c, "done") BY <1>1, CallMoves DEF Pcs
<1> QED BY <1>1, <1>2, AskedSpoken

\* A result that was sent is asked a response for next.
LEMMA SendResultSpoken ==
  ASSUME VoiceTyped, Spoken, NEW c \in ToolCalls, SendResult(c)
  PROVE  Spoken' /\ voice' \in Voices /\ Moves(c, "respond")
<1>1. UNCHANGED <<bridge, loop>> /\ voice' = [voice EXCEPT !.told = @ \cup {c}]
      /\ call' = [call EXCEPT ![c].pc = "respond"] /\ call[c].pc = "result"
  BY DEF SendResult, Stands
<1>2. Moves(c, "respond") BY <1>1, CallMoves DEF Pcs
<1>3. voice' \in Voices /\ voice'.speaking = voice.speaking /\ voice'.events = voice.events
  BY <1>1 DEF VoiceTyped, Voices
<1>4. SomeoneAt({"respond", "ask"})' BY <1>2 DEF SomeoneAt, Moves
<1>5. SomeoneAt({"ask"}) => SomeoneAt({"ask"})' BY <1>1, <1>2 DEF SomeoneAt, Moves
<1>6. StartsEnd' /\ ResponseGoesOn' /\ (bridge.deferred => bridge.responding)'
  BY <1>1, <1>3, <1>5 DEF Spoken, StartsEnd, ResponseGoesOn, EndIsAhead
<1> QED BY <1>2, <1>3, <1>4, <1>6 DEF Spoken, ResultsAreDue

\* A response that cannot be asked for now is deferred behind the one in progress.
LEMMA RespondSpoken ==
  ASSUME VoiceTyped, Spoken, NEW c \in ToolCalls, Respond(c)
  PROVE  /\ Spoken' /\ bridge' \in Bridges /\ bridge'.runs = bridge.runs
         /\ Moves(c, "done") \/ Moves(c, "ask")
<1>1. UNCHANGED <<voice, loop>> /\ call[c].pc = "respond" /\ bridge \in Bridges
  BY DEF Respond, Stands, VoiceTyped
<1>2. StartsEnd' BY <1>1 DEF Spoken, StartsEnd, EndIsAhead
<1>3. CASE bridge.responding
  <2>1. bridge' = [bridge EXCEPT !.deferred = TRUE] /\ call' = [call EXCEPT ![c].pc = "done"]
    BY <1>3 DEF Respond
  <2>2. Moves(c, "done") BY <2>1, CallMoves DEF Pcs
  <2>3. /\ bridge' \in Bridges /\ bridge'.runs = bridge.runs /\ bridge'.deferred
        /\ bridge'.responding /\ bridge'.owes = bridge.owes
    BY <1>1, <1>3, <2>1 DEF Bridges
  <2>4. SomeoneAt({"ask"}) => SomeoneAt({"ask"})' BY <1>1, <2>2 DEF SomeoneAt, Moves
  <2>5. ResponseGoesOn' /\ ResultsAreDue'
    BY <1>1, <1>3, <2>3, <2>4 DEF Spoken, ResponseGoesOn, ResultsAreDue, EndIsAhead
  <2> QED BY <1>2, <2>2, <2>3, <2>5 DEF Spoken
<1>4. CASE ~bridge.responding
  <2>1. bridge' = [bridge EXCEPT !.responding = TRUE] /\ call' = [call EXCEPT ![c].pc = "ask"]
    BY <1>4 DEF Respond
  <2>2. Moves(c, "ask") BY <2>1, CallMoves DEF Pcs
  <2>3. /\ bridge' \in Bridges /\ bridge'.runs = bridge.runs /\ bridge'.responding
    BY <1>1, <2>1 DEF Bridges
  <2>4. SomeoneAt({"ask"})' /\ SomeoneAt({"respond", "ask"})' BY <2>2 DEF SomeoneAt, Moves
  <2> QED BY <1>2, <2>2, <2>3, <2>4 DEF Spoken, ResponseGoesOn, ResultsAreDue
<1> QED BY <1>3, <1>4

\* What the receive loop does with each kind of event.
LEMMA RecvFields ==
  ASSUME VoiceTyped, Recv
  PROVE  /\ voice.events # <<>> /\ ~bridge.owes /\ voice' \in Voices /\ bridge' \in Bridges
         /\ voice'.events = Tail(voice.events) /\ voice'.speaking = voice.speaking
         /\ voice'.told = voice.told /\ voice'.heard = voice.heard /\ voice'.rejected = voice.rejected
         /\ bridge'.runs = bridge.runs
         /\ \/ voice.events[1].kind = "started" /\ bridge'.responding /\ ~bridge'.owes
                 /\ bridge'.deferred = bridge.deferred /\ UNCHANGED call
            \/ voice.events[1].kind = "done" /\ bridge'.responding = bridge.deferred
                 /\ ~bridge'.deferred /\ bridge'.owes = bridge.deferred /\ UNCHANGED call
            \/ /\ voice.events[1].kind = "call" /\ voice.events[1].id \in ToolCalls
               /\ SameFlags /\ call' = [call EXCEPT ![voice.events[1].id].pc = "dispatch"]
<1> DEFINE e == Head(voice.events)
<1>1. /\ voice.events # <<>> /\ ~bridge.owes
      /\ voice' = [voice EXCEPT !.events = Tail(@)]
      /\ bridge' = CASE e.kind = "started" -> [bridge EXCEPT !.responding = TRUE]
                     [] e.kind = "done" -> ResponseDone(bridge)
                     [] OTHER -> bridge
      /\ call' = IF e.kind = "call" THEN [call EXCEPT ![e.id].pc = "dispatch"] ELSE call
  BY DEF Recv
<1>2. voice \in Voices /\ bridge \in Bridges /\ voice.events \in Seq(VoiceEvents)
  BY DEF VoiceTyped, Voices
<1>3. Tail(voice.events) \in Seq(VoiceEvents) /\ e = voice.events[1] /\ e \in VoiceEvents
  BY <1>1, <1>2, Rested
<1>4. e.kind \in {"started", "done"} \/ (e.kind = "call" /\ e.id \in ToolCalls)
  BY <1>3 DEF VoiceEvents
<1> HIDE DEF e, VoiceEvents
<1>5. /\ voice' \in Voices
      /\ voice'.events = Tail(voice.events) /\ voice'.speaking = voice.speaking
      /\ voice'.told = voice.told /\ voice'.heard = voice.heard /\ voice'.rejected = voice.rejected
  BY <1>1, <1>2, <1>3 DEF Voices
<1>6. CASE e.kind = "started"
  <2>1. bridge' = [bridge EXCEPT !.responding = TRUE] /\ UNCHANGED call BY <1>1, <1>6
  <2> QED BY <1>1, <1>2, <1>3, <1>5, <1>6, <2>1 DEF Bridges
<1>7. CASE e.kind = "done"
  <2>1. bridge' = ResponseDone(bridge) /\ UNCHANGED call BY <1>1, <1>7
  <2> QED BY <1>1, <1>2, <1>3, <1>5, <1>7, <2>1 DEF Bridges, ResponseDone
<1>8. CASE e.kind = "call" /\ e.id \in ToolCalls
  <2>1. bridge' = bridge /\ call' = [call EXCEPT ![e.id].pc = "dispatch"] BY <1>1, <1>8
  <2> QED BY <1>1, <1>2, <1>3, <1>5, <1>8, <2>1 DEF SameFlags
<1> QED BY <1>4, <1>6, <1>7, <1>8

\* The end of a response it reads leads to the deferred one.
LEMMA RecvSpoken ==
  ASSUME VoiceTyped, CallsAskedOnce, Spoken, Recv
  PROVE  Spoken'
<1>1. /\ voice.events # <<>> /\ ~bridge.owes
      /\ voice'.events = Tail(voice.events) /\ voice'.speaking = voice.speaking
      /\ voice'.told = voice.told /\ voice'.heard = voice.heard /\ voice'.rejected = voice.rejected
  BY RecvFields
<1>2. voice.events \in Seq(VoiceEvents) BY DEF VoiceTyped, Voices
<1>3. /\ \A i \in DOMAIN voice'.events : i + 1 \in DOMAIN voice.events /\ voice'.events[i] = voice.events[i + 1]
      /\ \A i \in DOMAIN voice.events : i # 1 => i - 1 \in DOMAIN voice'.events /\ voice'.events[i - 1] = voice.events[i]
      /\ DOMAIN voice'.events \subseteq Nat \ {0} /\ DOMAIN voice.events \subseteq Nat \ {0}
  BY <1>1, <1>2, Rested
<1>4. ASSUME NEW k \in Nat, EndIsAhead(k + 1)
      PROVE  EndIsAhead(k)'
  <2>1. PICK j \in DOMAIN voice.events : j > k + 1 /\ voice.events[j].kind = "done"
    BY <1>4 DEF EndIsAhead
  <2>2. j \in Nat /\ j # 1 /\ j - 1 > k BY <1>3, <2>1
  <2>3. j - 1 \in DOMAIN voice'.events /\ voice'.events[j - 1].kind = "done"
    BY <1>3, <2>1, <2>2
  <2> QED BY <2>2, <2>3 DEF EndIsAhead
<1>5. StartsEnd'
  <2>1. ASSUME NEW i \in DOMAIN voice'.events, voice'.events[i].kind = "started"
        PROVE  voice.speaking \/ EndIsAhead(i)'
    <3>1. i \in Nat /\ i + 1 \in DOMAIN voice.events /\ voice.events[i + 1].kind = "started"
      BY <1>3, <2>1
    <3>2. voice.speaking \/ EndIsAhead(i + 1) BY <3>1 DEF Spoken, StartsEnd
    <3> QED BY <1>4, <3>1, <3>2
  <2> QED BY <1>1, <2>1 DEF StartsEnd
<1>6. 1 \in DOMAIN voice.events BY <1>1, <1>2, Rested
<1>7. ASSUME voice.events[1].kind # "done", EndIsAhead(0)
      PROVE  EndIsAhead(0)'
  <2>1. PICK j \in DOMAIN voice.events : j > 0 /\ voice.events[j].kind = "done"
    BY <1>7 DEF EndIsAhead
  <2>2. j # 1 BY <1>7, <2>1
  <2>3. j \in Nat /\ j - 1 > 0 BY <1>3, <2>1, <2>2
  <2>4. j - 1 \in DOMAIN voice'.events /\ voice'.events[j - 1].kind = "done"
    BY <1>3, <2>1, <2>2
  <2> QED BY <2>3, <2>4 DEF EndIsAhead
<1>8. CASE /\ voice.events[1].kind = "started" /\ bridge'.responding /\ ~bridge'.owes
           /\ bridge'.deferred = bridge.deferred /\ UNCHANGED call
  <2>1. voice.speaking \/ EndIsAhead(1) BY <1>6, <1>8 DEF Spoken, StartsEnd
  <2>2. EndIsAhead(1) => EndIsAhead(0)'
    <3>1. 0 \in Nat /\ 0 + 1 = 1
      OBVIOUS
    <3>2. EndIsAhead(0 + 1) => EndIsAhead(0)' BY <1>4, <3>1, Zenon
    <3> QED BY <3>1, <3>2
  <2>3. ResponseGoesOn' BY <1>1, <2>1, <2>2 DEF ResponseGoesOn
  <2>4. ResultsAreDue' /\ (bridge.deferred => bridge.responding)'
    BY <1>1, <1>8 DEF Spoken, ResultsAreDue, SomeoneAt
  <2> QED BY <1>5, <2>3, <2>4 DEF Spoken
<1>9. CASE /\ voice.events[1].kind = "done" /\ bridge'.responding = bridge.deferred
           /\ ~bridge'.deferred /\ bridge'.owes = bridge.deferred /\ UNCHANGED call
  <2>1. ResponseGoesOn' BY <1>9 DEF ResponseGoesOn
  <2>2. ResultsAreDue' BY <1>1, <1>9 DEF Spoken, ResultsAreDue, SomeoneAt
  <2> QED BY <1>5, <1>9, <2>1, <2>2 DEF Spoken
<1>10. CASE /\ voice.events[1].kind = "call" /\ voice.events[1].id \in ToolCalls
            /\ SameFlags /\ call' = [call EXCEPT ![voice.events[1].id].pc = "dispatch"]
            /\ call[voice.events[1].id].pc \notin {"respond", "ask"}
  <2> DEFINE c == voice.events[1].id
  <2>1. Moves(c, "dispatch") BY <1>10, CallMoves DEF Pcs
  <2>2. ASSUME NEW pcs \in SUBSET {"respond", "ask"}, SomeoneAt(pcs) PROVE SomeoneAt(pcs)'
    BY <1>10, <2>1, <2>2 DEF SomeoneAt, Moves
  <2>3. (SomeoneAt({"ask"}) => SomeoneAt({"ask"})') /\ (SomeoneAt({"respond", "ask"}) => SomeoneAt({"respond", "ask"})')
    BY <2>2
  <2>4. EndIsAhead(0) => EndIsAhead(0)' BY <1>7, <1>10
  <2>5. ResponseGoesOn' BY <1>1, <1>10, <2>3, <2>4 DEF Spoken, ResponseGoesOn, SameFlags
  <2>6. ResultsAreDue' /\ (bridge.deferred => bridge.responding)'
    BY <1>1, <1>10, <2>3 DEF Spoken, ResultsAreDue, SameFlags
  <2> QED BY <1>5, <2>5, <2>6 DEF Spoken
<1>11. voice.events[1].kind = "call" => call[voice.events[1].id].pc \notin {"respond", "ask"}
  BY <1>6 DEF CallsAskedOnce, Asking
<1> QED BY <1>8, <1>9, <1>10, <1>11, RecvFields

-----------------------------------------------------------------------------
(* Calls are asked for once and handed to the session once. *)
FreshPcs == {"none", "asked", "dispatch"}
FreshStay == \A c \in ToolCalls : call'[c].pc \in FreshPcs => call[c].pc \in FreshPcs
AskedStay == \A c \in ToolCalls : call[c].pc = "asked" => call'[c].pc = "asked"

\* Calls not yet handed over can be counted.
LEMMA FreshFinite == IsFiniteSet(Fresh) /\ Cardinality(Fresh) \in Nat
<1>1. Fresh \subseteq ToolCalls BY DEF Fresh
<1>2. IsFiniteSet(Fresh) BY <1>1, BridgeAssumption, FS_Subset
<1> QED BY <1>2, FS_CardinalityType

\* No call becomes fresh again.
LEMMA CountedKept ==
  ASSUME VoiceTyped, Counted, FreshStay, loop'.last = loop.last
  PROVE  Counted'
<1>1. Fresh' \subseteq Fresh BY DEF Fresh, FreshStay, FreshPcs
<1>2. IsFiniteSet(Fresh) /\ Cardinality(Fresh) \in Nat BY FreshFinite
<1>3. IsFiniteSet(Fresh') /\ Cardinality(Fresh') <= Cardinality(Fresh)
  BY <1>1, <1>2, FS_Subset
<1>4. Cardinality(Fresh') \in Nat BY <1>3, FS_CardinalityType
<1>5. loop.last \in Nat /\ Cardinality(ToolCalls) \in Nat BY RunsAre DEF VoiceTyped, Loops
<1>6. \A a, b, n, m \in Nat : a + n <= m /\ b <= n => a + b <= m
  OBVIOUS
<1>7. loop.last + Cardinality(Fresh') <= Cardinality(ToolCalls)
  BY <1>2, <1>3, <1>4, <1>5, <1>6 DEF Counted
<1> QED BY <1>7 DEF Counted

\* A call that the session takes leaves room for a run.
LEMMA CountedStarts ==
  ASSUME VoiceTyped, Counted, NEW c \in ToolCalls, call[c].pc = "dispatch",
         FreshStay, call'[c].pc \notin FreshPcs, loop'.last = loop.last + 1
  PROVE  Counted' /\ loop.last + 1 <= Cardinality(ToolCalls)
<1>1. Fresh' \subseteq Fresh \ {c} /\ c \in Fresh BY DEF Fresh, FreshStay, FreshPcs
<1>2. IsFiniteSet(Fresh) /\ Cardinality(Fresh) \in Nat BY FreshFinite
<1>3. IsFiniteSet(Fresh \ {c}) /\ Cardinality(Fresh \ {c}) = Cardinality(Fresh) - 1
  BY <1>1, <1>2, FS_RemoveElement
<1>4. IsFiniteSet(Fresh') /\ Cardinality(Fresh') <= Cardinality(Fresh \ {c})
  BY <1>1, <1>3, FS_Subset
<1>5. Cardinality(Fresh') \in Nat BY <1>4, FS_CardinalityType
<1>6. loop.last \in Nat /\ Cardinality(ToolCalls) \in Nat BY RunsAre DEF VoiceTyped, Loops
<1>7. \A a, b, n, m \in Nat : a + n <= m /\ b <= n - 1 => a + 1 + b <= m /\ a + 1 <= m
  OBVIOUS
<1>8. loop.last + 1 + Cardinality(Fresh') <= Cardinality(ToolCalls) /\ loop.last + 1 <= Cardinality(ToolCalls)
  BY <1>2, <1>3, <1>4, <1>5, <1>6, <1>7 DEF Counted
<1> QED BY <1>8 DEF Counted

\* The asked calls stay asked while nothing is read.
LEMMA AskedOnceKept ==
  ASSUME VoiceTyped, CallsAskedOnce, AskedStay, voice'.events = voice.events
  PROVE  CallsAskedOnce'
<1>1. voice.events \in Seq(VoiceEvents) BY DEF VoiceTyped, Voices
<1>2. \A i \in DOMAIN voice.events : Asking(i) => voice.events[i].id \in ToolCalls
  <2>1. \A i \in DOMAIN voice.events : voice.events[i] \in VoiceEvents BY <1>1
  <2> QED BY <2>1 DEF Asking, VoiceEvents
<1> QED BY <1>2 DEF CallsAskedOnce, Asking, AskedStay

\* An event added is of a call that was not asked for before.
LEMMA AskedOnceGrown ==
  ASSUME VoiceTyped, CallsAskedOnce, AskedStay, NEW e \in VoiceEvents,
         voice'.events = Append(voice.events, e),
         e.kind = "call" => call'[e.id].pc = "asked" /\ call[e.id].pc = "none"
  PROVE  CallsAskedOnce'
<1>1. voice.events \in Seq(VoiceEvents) BY DEF VoiceTyped, Voices
<1>2. \A i \in DOMAIN voice.events : Asking(i) => voice.events[i].id \in ToolCalls
  <2>1. \A i \in DOMAIN voice.events : voice.events[i] \in VoiceEvents BY <1>1
  <2> QED BY <2>1 DEF Asking, VoiceEvents
<1>3. /\ DOMAIN voice.events = 1..Len(voice.events) /\ DOMAIN voice'.events = 1..Len(voice.events) + 1
      /\ \A i \in DOMAIN voice.events : voice'.events[i] = voice.events[i]
      /\ voice'.events[Len(voice.events) + 1] = e /\ Len(voice.events) \in Nat
  BY <1>1, OneMore
<1>4. \A i \in DOMAIN voice'.events : i \in DOMAIN voice.events \/ i = Len(voice.events) + 1
  BY <1>3
<1>5. \A i \in DOMAIN voice'.events : Asking(i)' => call'[voice'.events[i].id].pc = "asked"
  BY <1>2, <1>3, <1>4 DEF CallsAskedOnce, Asking, AskedStay
<1>6. ASSUME NEW i \in DOMAIN voice.events, Asking(i)
      PROVE  voice.events[i] # e
  BY <1>6 DEF CallsAskedOnce, Asking
<1>7. \A i, j \in DOMAIN voice'.events : Asking(i)' /\ voice'.events[i] = voice'.events[j] => i = j
  <2> SUFFICES ASSUME NEW i \in DOMAIN voice'.events, NEW j \in DOMAIN voice'.events, Asking(i)',
                      voice'.events[i] = voice'.events[j]
               PROVE  i = j
    OBVIOUS
  <2>1. CASE i \in DOMAIN voice.events /\ j \in DOMAIN voice.events
    BY <1>3, <2>1 DEF CallsAskedOnce, Asking
  <2>2. CASE i \in DOMAIN voice.events /\ j = Len(voice.events) + 1
    BY <1>3, <1>6, <2>2 DEF Asking
  <2>3. CASE i = Len(voice.events) + 1 /\ j \in DOMAIN voice.events
    BY <1>3, <1>6, <2>3 DEF Asking
  <2> QED BY <1>4, <2>1, <2>2, <2>3
<1> QED BY <1>5, <1>7 DEF CallsAskedOnce

\* The call that is read is asked for no more.
LEMMA AskedOnceRecv ==
  ASSUME VoiceTyped, CallsAskedOnce, Recv
  PROVE  CallsAskedOnce' /\ FreshStay /\ call' \in [ToolCalls -> Calls]
         /\ \/ UNCHANGED call
            \/ \E c \in ToolCalls : call[c].pc = "asked" /\ Moves(c, "dispatch")
<1>1. voice.events # <<>> /\ voice'.events = Tail(voice.events) BY RecvFields
<1>2. voice.events \in Seq(VoiceEvents) BY DEF VoiceTyped, Voices
<1>3. /\ \A i \in DOMAIN voice'.events : i + 1 \in DOMAIN voice.events /\ voice'.events[i] = voice.events[i + 1]
      /\ 1 \in DOMAIN voice.events /\ DOMAIN voice'.events \subseteq Nat \ {0}
  BY <1>1, <1>2, Rested
<1>4. \A i \in DOMAIN voice.events : Asking(i) => voice.events[i].id \in ToolCalls
  <2>1. \A i \in DOMAIN voice.events : voice.events[i] \in VoiceEvents BY <1>2
  <2> QED BY <2>1 DEF Asking, VoiceEvents
<1>5. \A i, j \in DOMAIN voice'.events : Asking(i)' /\ voice'.events[i] = voice'.events[j] => i = j
  <2> SUFFICES ASSUME NEW i \in DOMAIN voice'.events, NEW j \in DOMAIN voice'.events, Asking(i)',
                      voice'.events[i] = voice'.events[j]
               PROVE  i = j
    OBVIOUS
  <2>1. Asking(i + 1) /\ voice.events[i + 1] = voice.events[j + 1] BY <1>3 DEF Asking
  <2>2. i + 1 = j + 1 BY <1>3, <2>1 DEF CallsAskedOnce
  <2> QED BY <1>3, <2>2
<1>6. CASE UNCHANGED call
  BY <1>3, <1>5, <1>6 DEF CallsAskedOnce, Asking, FreshStay, VoiceTyped
<1>7. CASE /\ voice.events[1].kind = "call" /\ voice.events[1].id \in ToolCalls
           /\ call' = [call EXCEPT ![voice.events[1].id].pc = "dispatch"]
  <2> DEFINE c == voice.events[1].id
  <2>1. Moves(c, "dispatch") /\ call[c].pc = "asked" /\ Asking(1)
    BY <1>3, <1>7, CallMoves DEF Pcs, CallsAskedOnce, Asking
  <2>2. ASSUME NEW i \in DOMAIN voice'.events, Asking(i)'
        PROVE  call'[voice'.events[i].id].pc = "asked"
    <3>1. i + 1 \in DOMAIN voice.events /\ voice'.events[i] = voice.events[i + 1] /\ i + 1 # 1
      BY <1>3
    <3>2. Asking(i + 1) /\ call[voice.events[i + 1].id].pc = "asked" /\ voice.events[i + 1].id \in ToolCalls
      BY <1>4, <2>2, <3>1 DEF CallsAskedOnce, Asking
    <3>3. voice.events[i + 1] # voice.events[1] BY <1>3, <2>1, <3>1 DEF CallsAskedOnce
    <3>4. voice.events[i + 1].id # c
      <4>1. voice.events[i + 1] \in [kind : {"call"}, id : ToolCalls]
            /\ voice.events[1] \in [kind : {"call"}, id : ToolCalls]
        <5>1. voice.events[i + 1] \in VoiceEvents /\ voice.events[1] \in VoiceEvents
          BY <1>2, <1>3, <3>1
        <5> QED BY <2>1, <3>2, <5>1 DEF VoiceEvents, Asking
      <4> QED BY <3>3, <4>1
    <3> QED BY <2>1, <3>1, <3>2, <3>4 DEF Moves
  <2>3. FreshStay /\ call' \in [ToolCalls -> Calls]
    BY <1>7, <2>1 DEF FreshStay, FreshPcs, Moves
  <2> QED BY <1>5, <1>7, <2>1, <2>2, <2>3 DEF CallsAskedOnce
<1> QED BY <1>6, <1>7, RecvFields

-----------------------------------------------------------------------------
(* Runs and those that wait for them. *)
Late == {"result", "respond", "ask", "done"}
Plain == {"refused", "busy", "added"}

\* No call begins to wait or is answered for a run.
CallsGo ==
  \A c \in ToolCalls :
    /\ Tracked(c)' => Tracked(c) /\ call'[c].run = call[c].run
    /\ call'[c].pc = "waiting" => call[c].pc = "waiting"
    /\ call'[c].output # <<>> =>
         /\ call'[c].pc \in Late
         /\ \/ call'[c].output[1] \in Plain
            \/ call'[c].output = call[c].output /\ call'[c].run = call[c].run

\* What the session told does not change when only the bridge moves.
LEMMA HistoricApart ==
  ASSUME VoiceTyped, Historic, loop' = loop,
         \A r \in DOMAIN bridge'.runs : r <= loop.last \/ r \in DOMAIN bridge.runs
  PROVE  Historic'
<1>1. \A r, e : ToldOf(r, e)' = ToldOf(r, e) BY DEF ToldOf
<1>2. loop.last \in Nat /\ Runs \subseteq Nat BY RunsAre DEF VoiceTyped, Loops
<1>3. ASSUME NEW r \in Runs PROVE History(r)'
  <2>1. History(r) BY DEF Historic
  <2>2. r > loop.last => ~(r <= loop.last) BY <1>2
  <2>3. r > loop.last => r \notin DOMAIN bridge'.runs BY <2>1, <2>2 DEF History
  <2> QED BY <1>1, <2>1, <2>3 DEF History
<1>4. \A i \in DOMAIN loop'.events : Unwatched(i)' BY <1>1 DEF Historic, Unwatched
<1>5. Ongoing' BY DEF Historic, Ongoing
<1> QED BY <1>3, <1>4, <1>5 DEF Historic

\* Nor what was folded of a run.
LEMMA FollowedApart ==
  ASSUME NEW r, loop' = loop, View(r)' = View(r), Followed(r)
  PROVE  Followed(r)'
<1>1. \A q, e : ToldOf(q, e)' = ToldOf(q, e) BY DEF ToldOf
<1>2. \A q, kinds : Coming(q, kinds)' = Coming(q, kinds) BY DEF Coming
<1> QED BY <1>1, <1>2 DEF Followed

\* Calls that begin no wait keep what is known of the runs.
LEMMA CallsGoKeep ==
  ASSUME VoiceTyped, Historic, Waited, Outputted, CallsGo, loop' = loop, bridge'.runs = bridge.runs
  PROVE  Historic' /\ Waited' /\ Outputted'
<1>1. Historic'
  <2>1. \A r \in DOMAIN bridge'.runs : r <= loop.last \/ r \in DOMAIN bridge.runs
    OBVIOUS
  <2> QED BY <2>1, HistoricApart
<1>2. \A r : View(r)' = View(r) BY DEF View
<1>3. \A c \in ToolCalls : Tracked(c)' => Tracked(c) /\ call'[c].run = call[c].run
  BY DEF CallsGo
<1>4. \A r \in Runs : Followed(r) => Followed(r)' BY <1>2, FollowedApart
<1>5. Waited'
  <2>1. \A c \in ToolCalls : Tracked(c)' => \E r \in Runs : call'[c].run = r /\ Followed(r)'
    BY <1>3, <1>4 DEF Waited
  <2>2. \A c \in ToolCalls : call'[c].pc = "waiting" => call'[c].run \in DOMAIN bridge'.runs
    BY <1>3 DEF CallsGo, Waited, Tracked
  <2>3. \A c, d \in ToolCalls : Tracked(c)' /\ Tracked(d)' /\ call'[c].run = call'[d].run => c = d
    BY <1>3 DEF CallsGo, Waited
  <2> QED BY <2>1, <2>2, <2>3 DEF Waited
<1>6. Outputted' BY DEF Outputted, CallsGo, Plain, Late
<1> QED BY <1>1, <1>5, <1>6

\* All that is not speech, for a step apart from the session.
LEMMA ApartKeeps ==
  ASSUME VoiceInv, voice' \in Voices, bridge' \in Bridges, call' \in [ToolCalls -> Calls], loop' = loop,
         bridge'.runs = bridge.runs, CallsGo, FreshStay, \A c \in ToolCalls : call'[c].run <= loop.last
  PROVE  VoiceTyped' /\ Counted' /\ Historic' /\ Waited' /\ Outputted'
<1>1. VoiceTyped' BY DEF VoiceInv, VoiceTyped
<1>2. Counted' BY CountedKept DEF VoiceInv
<1>3. Historic' /\ Waited' /\ Outputted' BY CallsGoKeep DEF VoiceInv
<1> QED BY <1>1, <1>2, <1>3

\* A call that moves without waiting begins no wait.
LEMMA MovesGo ==
  ASSUME VoiceTyped, Outputted, NEW c \in ToolCalls, NEW pc \in Pcs \ {"accepted", "waiting"}, Moves(c, pc),
         call[c].pc \in Late => pc \in Late, pc \in FreshPcs => call[c].pc \in FreshPcs
  PROVE  /\ CallsGo /\ FreshStay /\ (call[c].pc # "asked" => AskedStay)
         /\ call' \in [ToolCalls -> Calls] /\ \A d \in ToolCalls : call'[d].run <= loop.last
<1>1. CallsGo BY DEF CallsGo, Moves, Tracked, Outputted, Late, Plain
<1>2. FreshStay /\ (call[c].pc # "asked" => AskedStay) BY DEF FreshStay, AskedStay, Moves
<1> QED BY <1>1, <1>2 DEF Moves, VoiceTyped

\* Nor does one that ends without a run.
LEMMA EndsGo ==
  ASSUME VoiceTyped, Outputted, NEW c \in ToolCalls, NEW output, output[1] \in Plain, CallOver(c, output),
         call[c].pc # "asked"
  PROVE  /\ CallsGo /\ FreshStay /\ AskedStay
         /\ call' \in [ToolCalls -> Calls] /\ \A d \in ToolCalls : call'[d].run <= loop.last
<1>1. CallsGo BY DEF CallsGo, CallOver, Tracked, Outputted, Late, Plain
<1>2. FreshStay /\ AskedStay BY DEF FreshStay, FreshPcs, AskedStay, CallOver
<1> QED BY <1>1, <1>2 DEF CallOver, VoiceTyped

\* A request for a response makes no call.
LEMMA AskedOnceAsked ==
  ASSUME VoiceTyped, CallsAskedOnce, AskedStay, voice' = Asked(voice)
  PROVE  CallsAskedOnce'
<1>1. [kind |-> "started"] \in VoiceEvents /\ [kind |-> "started"].kind # "call"
  BY DEF VoiceEvents
<1>2. CASE voice'.events = voice.events BY <1>2, AskedOnceKept
<1> HIDE DEF VoiceEvents
<1>3. CASE voice'.events = Append(voice.events, [kind |-> "started"])
  BY <1>1, <1>3, AskedOnceGrown
<1> QED BY <1>2, <1>3, AskedFields

\* What changes no call keeps what is known of the calls.
LEMMA SameGo ==
  ASSUME VoiceTyped, Outputted, call' = call
  PROVE  /\ CallsGo /\ FreshStay /\ AskedStay
         /\ call' \in [ToolCalls -> Calls] /\ \A d \in ToolCalls : call'[d].run <= loop.last
<1>1. CallsGo BY DEF CallsGo, Tracked, Outputted, Late, Plain
<1> QED BY <1>1 DEF FreshStay, AskedStay, VoiceTyped

\* The events of the voice model and of the receive loop.
LEMMA VoiceStartsKeeps ==
  ASSUME VoiceInv, VoiceStarts
  PROVE  VoiceInv'
<1>1. VoiceTyped /\ Outputted /\ CallsAskedOnce /\ Spoken /\ bridge \in Bridges
  BY DEF VoiceInv, VoiceTyped
<1>2. UNCHANGED <<bridge, call, loop>> /\ voice'.events = Append(voice.events, [kind |-> "started"])
  BY <1>1 DEF VoiceStarts, VoiceTyped, Voices
<1>3. Spoken' /\ voice' \in Voices BY <1>1, VoiceStartsSpoken
<1>4. [kind |-> "started"] \in VoiceEvents /\ [kind |-> "started"].kind # "call"
  BY DEF VoiceEvents
<1>5. CallsGo /\ FreshStay /\ AskedStay /\ call' \in [ToolCalls -> Calls]
      /\ \A d \in ToolCalls : call'[d].run <= loop.last
  BY <1>1, <1>2, SameGo
<1> HIDE DEF VoiceEvents
<1>6. CallsAskedOnce' BY <1>1, <1>2, <1>4, <1>5, AskedOnceGrown
<1>7. VoiceTyped' /\ Counted' /\ Historic' /\ Waited' /\ Outputted'
  BY <1>1, <1>2, <1>3, <1>5, ApartKeeps
<1> QED BY <1>3, <1>6, <1>7 DEF VoiceInv

LEMMA VoiceEndsKeeps ==
  ASSUME VoiceInv, VoiceEnds
  PROVE  VoiceInv'
<1>1. VoiceTyped /\ Outputted /\ CallsAskedOnce /\ Spoken /\ bridge \in Bridges
  BY DEF VoiceInv, VoiceTyped
<1>2. UNCHANGED <<bridge, call, loop>> /\ voice'.events = Append(voice.events, [kind |-> "done"])
  BY <1>1 DEF VoiceEnds, VoiceTyped, Voices
<1>3. Spoken' /\ voice' \in Voices BY <1>1, VoiceEndsSpoken
<1>4. [kind |-> "done"] \in VoiceEvents /\ [kind |-> "done"].kind # "call"
  BY DEF VoiceEvents
<1>5. CallsGo /\ FreshStay /\ AskedStay /\ call' \in [ToolCalls -> Calls]
      /\ \A d \in ToolCalls : call'[d].run <= loop.last
  BY <1>1, <1>2, SameGo
<1> HIDE DEF VoiceEvents
<1>6. CallsAskedOnce' BY <1>1, <1>2, <1>4, <1>5, AskedOnceGrown
<1>7. VoiceTyped' /\ Counted' /\ Historic' /\ Waited' /\ Outputted'
  BY <1>1, <1>2, <1>3, <1>5, ApartKeeps
<1> QED BY <1>3, <1>6, <1>7 DEF VoiceInv

LEMMA VoiceCallsKeeps ==
  ASSUME VoiceInv, NEW c \in ToolCalls, VoiceCalls(c)
  PROVE  VoiceInv'
<1>1. VoiceTyped /\ Outputted /\ CallsAskedOnce /\ Spoken /\ bridge \in Bridges
  BY DEF VoiceInv, VoiceTyped
<1>2. /\ UNCHANGED <<bridge, loop>> /\ voice'.events = Append(voice.events, [kind |-> "call", id |-> c])
      /\ call[c].pc = "none"
  BY <1>1 DEF VoiceCalls, VoiceTyped, Voices
<1>3. Spoken' /\ voice' \in Voices /\ Moves(c, "asked") BY <1>1, VoiceCallsSpoken
<1>4. [kind |-> "call", id |-> c] \in VoiceEvents /\ [kind |-> "call", id |-> c].id = c
  BY DEF VoiceEvents
<1>5. "asked" \in Pcs \ {"accepted", "waiting"} /\ (call[c].pc \in Late => "asked" \in Late)
      /\ call[c].pc \in FreshPcs
  BY <1>2 DEF Pcs, Late, FreshPcs
<1>6. CallsGo /\ FreshStay /\ AskedStay /\ call' \in [ToolCalls -> Calls]
      /\ \A d \in ToolCalls : call'[d].run <= loop.last
  BY <1>1, <1>2, <1>3, <1>5, MovesGo
<1>7. call'[c].pc = "asked" BY <1>3 DEF Moves
<1> HIDE DEF VoiceEvents
<1>8. CallsAskedOnce' BY <1>1, <1>2, <1>4, <1>6, <1>7, AskedOnceGrown
<1>9. VoiceTyped' /\ Counted' /\ Historic' /\ Waited' /\ Outputted'
  BY <1>1, <1>2, <1>3, <1>6, ApartKeeps
<1> QED BY <1>3, <1>8, <1>9 DEF VoiceInv

LEMMA RecvKeeps ==
  ASSUME VoiceInv, Recv
  PROVE  VoiceInv'
<1>1. VoiceTyped /\ Outputted /\ CallsAskedOnce /\ Spoken BY DEF VoiceInv
<1>2. Spoken' /\ CallsAskedOnce' /\ FreshStay /\ loop' = loop
  BY <1>1, RecvSpoken, AskedOnceRecv DEF Recv
<1>3. voice' \in Voices /\ bridge' \in Bridges /\ bridge'.runs = bridge.runs
  BY <1>1, RecvFields
<1>4. CallsGo /\ call' \in [ToolCalls -> Calls]
      /\ \A d \in ToolCalls : call'[d].run <= loop.last
  <2>1. CASE UNCHANGED call BY <1>1, <2>1, SameGo
  <2>2. CASE \E c \in ToolCalls : call[c].pc = "asked" /\ Moves(c, "dispatch")
    <3>1. PICK c \in ToolCalls : call[c].pc = "asked" /\ Moves(c, "dispatch") BY <2>2
    <3>2. "dispatch" \in Pcs \ {"accepted", "waiting"} /\ call[c].pc \notin Late /\ call[c].pc \in FreshPcs
      BY <3>1 DEF Pcs, Late, FreshPcs
    <3> QED BY <1>1, <3>1, <3>2, MovesGo
  <2> QED BY <1>1, <2>1, <2>2, AskedOnceRecv
<1>5. VoiceTyped' /\ Counted' /\ Historic' /\ Waited' /\ Outputted'
  BY <1>2, <1>3, <1>4, ApartKeeps
<1> QED BY <1>2, <1>5 DEF VoiceInv

LEMMA LoopAsksKeeps ==
  ASSUME VoiceInv, LoopAsks
  PROVE  VoiceInv'
<1>1. VoiceTyped /\ Outputted /\ CallsAskedOnce /\ Spoken BY DEF VoiceInv
<1>2. UNCHANGED <<call, loop>> /\ voice' = Asked(voice) BY DEF LoopAsks
<1>3. Spoken' /\ voice' \in Voices /\ bridge' \in Bridges /\ bridge'.runs = bridge.runs
  BY <1>1, LoopAsksSpoken
<1>4. CallsGo /\ FreshStay /\ AskedStay /\ call' \in [ToolCalls -> Calls]
      /\ \A d \in ToolCalls : call'[d].run <= loop.last
  BY <1>1, <1>2, SameGo
<1>5. CallsAskedOnce' BY <1>1, <1>2, <1>4, AskedOnceAsked
<1>6. VoiceTyped' /\ Counted' /\ Historic' /\ Waited' /\ Outputted'
  BY <1>2, <1>3, <1>4, ApartKeeps
<1> QED BY <1>3, <1>5, <1>6 DEF VoiceInv

\* What a call does for itself, before it is heard.
LEMMA QuietlyKeeps ==
  ASSUME VoiceInv, NEW c \in ToolCalls, call[c].pc \in Pcs \ {"asked", "respond", "ask"},
         UNCHANGED <<voice, bridge, loop>>, CallsGo, FreshStay, AskedStay, call' \in [ToolCalls -> Calls],
         \A d \in ToolCalls : call'[d].run <= loop.last, \A d \in ToolCalls \ {c} : call'[d] = call[d]
  PROVE  VoiceInv'
<1>1. VoiceTyped /\ Outputted /\ CallsAskedOnce /\ Spoken /\ voice' \in Voices /\ bridge' \in Bridges
  BY DEF VoiceInv, VoiceTyped
<1>2. SameFlags /\ SpeakersStay BY DEF SameFlags, SpeakersStay
<1>3. Spoken' BY <1>1, <1>2, SpokenApart
<1>4. CallsAskedOnce' BY <1>1, AskedOnceKept
<1>5. VoiceTyped' /\ Counted' /\ Historic' /\ Waited' /\ Outputted' BY <1>1, ApartKeeps
<1> QED BY <1>3, <1>4, <1>5 DEF VoiceInv

\* A call that ends without a run.
LEMMA CallOverKeeps ==
  ASSUME VoiceInv, NEW c \in ToolCalls, call[c].pc \in Pcs \ {"asked", "respond", "ask"},
         UNCHANGED <<voice, bridge, loop>>, NEW output \in Spoke, output[1] \in Plain, Outputs(c, output)
  PROVE  VoiceInv'
<1>1. VoiceTyped /\ Outputted /\ call[c].pc # "asked" BY DEF VoiceInv
<1>2. CallOver(c, output) BY <1>1, CallEnds
<1>3. CallsGo /\ FreshStay /\ AskedStay /\ call' \in [ToolCalls -> Calls]
      /\ \A d \in ToolCalls : call'[d].run <= loop.last
  BY <1>1, <1>2, EndsGo
<1>4. \A d \in ToolCalls \ {c} : call'[d] = call[d] BY <1>2 DEF CallOver
<1> QED BY <1>3, <1>4, QuietlyKeeps

\* The places of a call before it is heard.
LEMMA RefuseKeeps ==
  ASSUME VoiceInv, NEW c \in ToolCalls, Refuse(c)
  PROVE  VoiceInv'
<1>1. <<"refused">> \in Spoke /\ <<"refused">>[1] \in Plain BY DEF Spoke, Plain
<1>2. call[c].pc \in Pcs \ {"asked", "respond", "ask"} BY DEF Refuse, Stands, Pcs
<1> QED BY <1>1, <1>2, CallOverKeeps DEF Refuse

LEMMA DispatchBusyKeeps ==
  ASSUME VoiceInv, NEW c \in ToolCalls, DispatchBusy(c)
  PROVE  VoiceInv'
<1>1. VoiceTyped /\ Outputted /\ call[c].pc = "dispatch" /\ call' = [call EXCEPT ![c].pc = "busy"]
  BY DEF VoiceInv, DispatchBusy, Stands
<1>2. "busy" \in Pcs \ {"accepted", "waiting"} /\ "busy" \notin FreshPcs /\ call[c].pc \notin Late
      /\ call[c].pc \in Pcs \ {"asked", "respond", "ask"}
  BY <1>1 DEF Pcs, Late, FreshPcs
<1>3. Moves(c, "busy") BY <1>1, <1>2, CallMoves
<1>4. CallsGo /\ FreshStay /\ AskedStay /\ call' \in [ToolCalls -> Calls]
      /\ \A d \in ToolCalls : call'[d].run <= loop.last
  BY <1>1, <1>2, <1>3, MovesGo
<1>5. \A d \in ToolCalls \ {c} : call'[d] = call[d] BY <1>3 DEF Moves
<1> QED BY <1>2, <1>4, <1>5, QuietlyKeeps DEF DispatchBusy

LEMMA SnapshotKeeps ==
  ASSUME VoiceInv, NEW c \in ToolCalls, Snapshot(c)
  PROVE  VoiceInv'
<1>1. VoiceTyped /\ Outputted /\ call[c].pc = "busy" /\ UNCHANGED <<voice, bridge, loop>>
  BY DEF VoiceInv, Snapshot, Stands
<1>2. call[c].pc \in Pcs \ {"asked", "respond", "ask"} /\ call[c].pc \notin Late
  BY <1>1 DEF Pcs, Late
<1>3. CASE loop.active = 0
  <2>1. Outputs(c, <<"busy">>) BY <1>3 DEF Snapshot
  <2>2. <<"busy">> \in Spoke /\ <<"busy">>[1] \in Plain BY DEF Spoke, Plain
  <2> QED BY <1>1, <1>2, <2>1, <2>2, CallOverKeeps
<1>4. CASE loop.active # 0
  <2> DEFINE n == [call[c] EXCEPT !.pc = "steer", !.run = loop.active]
  <2>1. call \in [ToolCalls -> Calls] /\ call[c] \in Calls /\ loop.active \in Nat /\ loop.active <= loop.last
        /\ \A d \in ToolCalls : call[d].run <= loop.last
    BY <1>1 DEF VoiceTyped, Loops
  <2>2. call' = [call EXCEPT ![c] = n] BY <1>4, <2>1 DEF Snapshot
  <2>3. n \in Calls /\ n.pc = "steer" /\ n.run = loop.active /\ n.output = call[c].output
    BY <2>1 DEF Calls, Pcs
  <2> HIDE DEF n, Calls
  <2>4. call' \in [ToolCalls -> Calls] /\ call'[c] = n /\ \A d \in ToolCalls \ {c} : call'[d] = call[d]
    BY <2>1, <2>2, <2>3
  <2>5. call[c].output = <<>> BY <1>1, <1>2 DEF Outputted, Late
  <2>6. CallsGo BY <1>1, <2>3, <2>4, <2>5 DEF CallsGo, Tracked, Outputted, Late, Plain
  <2>7. FreshStay /\ AskedStay /\ \A d \in ToolCalls : call'[d].run <= loop.last
    BY <1>1, <2>1, <2>3, <2>4 DEF FreshStay, FreshPcs, AskedStay
  <2> QED BY <1>1, <1>2, <2>4, <2>6, <2>7, QuietlyKeeps
<1> QED BY <1>3, <1>4

LEMMA SteerKeeps ==
  ASSUME VoiceInv, NEW c \in ToolCalls, Steer(c)
  PROVE  VoiceInv'
<1>1. call[c].pc = "steer" /\ UNCHANGED <<voice, bridge, loop>> BY DEF Steer, Stands
<1>2. call[c].pc \in Pcs \ {"asked", "respond", "ask"} BY <1>1 DEF Pcs
<1> DEFINE output == IF loop.active = call[c].run THEN <<"added", call[c].run>> ELSE <<"busy">>
<1>3. call[c].run \in Nat BY DEF VoiceInv, VoiceTyped, Calls
<1>4. output \in Spoke /\ output[1] \in Plain /\ Outputs(c, output)
  BY <1>3 DEF Spoke, Plain, Steer
<1> HIDE DEF output
<1> QED BY <1>1, <1>2, <1>4, CallOverKeeps

\* A result is sent, and the response to it asked for.
LEMMA SpeaksKeeps ==
  ASSUME VoiceInv, NEW c \in ToolCalls, call[c].pc \in {"result", "respond", "ask"},
         NEW pc \in {"respond", "ask", "done"}, Moves(c, pc), loop' = loop, voice' \in Voices,
         bridge' \in Bridges, bridge'.runs = bridge.runs, voice'.events = voice.events \/ voice' = Asked(voice),
         Spoken'
  PROVE  VoiceInv'
<1>1. VoiceTyped /\ Outputted /\ CallsAskedOnce BY DEF VoiceInv
<1>2. pc \in Pcs \ {"accepted", "waiting"} /\ pc \in Late /\ pc \notin FreshPcs /\ call[c].pc # "asked"
  BY DEF Pcs, Late, FreshPcs
<1>3. CallsGo /\ FreshStay /\ AskedStay /\ call' \in [ToolCalls -> Calls]
      /\ \A d \in ToolCalls : call'[d].run <= loop.last
  BY <1>1, <1>2, MovesGo
<1>4. CallsAskedOnce' BY <1>1, <1>3, AskedOnceKept, AskedOnceAsked
<1>5. VoiceTyped' /\ Counted' /\ Historic' /\ Waited' /\ Outputted' BY <1>3, ApartKeeps
<1> QED BY <1>4, <1>5 DEF VoiceInv

LEMMA SendResultKeeps ==
  ASSUME VoiceInv, NEW c \in ToolCalls, SendResult(c)
  PROVE  VoiceInv'
<1>1. VoiceTyped /\ Spoken /\ bridge \in Bridges /\ voice \in Voices
  BY DEF VoiceInv, VoiceTyped
<1>2. Spoken' /\ voice' \in Voices /\ Moves(c, "respond") BY <1>1, SendResultSpoken
<1>3. UNCHANGED <<bridge, loop>> /\ voice'.events = voice.events /\ call[c].pc = "result"
  BY <1>1 DEF SendResult, Stands, Voices
<1> QED BY <1>1, <1>2, <1>3, SpeaksKeeps

LEMMA RespondKeeps ==
  ASSUME VoiceInv, NEW c \in ToolCalls, Respond(c)
  PROVE  VoiceInv'
<1>1. VoiceTyped /\ Spoken /\ voice \in Voices BY DEF VoiceInv, VoiceTyped
<1>2. Spoken' /\ bridge' \in Bridges /\ bridge'.runs = bridge.runs /\ (Moves(c, "done") \/ Moves(c, "ask"))
  BY <1>1, RespondSpoken
<1>3. UNCHANGED <<voice, loop>> /\ call[c].pc = "respond" BY DEF Respond, Stands
<1> QED BY <1>1, <1>2, <1>3, SpeaksKeeps

LEMMA AskKeeps ==
  ASSUME VoiceInv, NEW c \in ToolCalls, Ask(c)
  PROVE  VoiceInv'
<1>1. VoiceTyped /\ Spoken /\ bridge \in Bridges BY DEF VoiceInv, VoiceTyped
<1>2. Spoken' /\ voice' \in Voices /\ Moves(c, "done") BY <1>1, AskSpoken
<1>3. UNCHANGED <<bridge, loop>> /\ voice' = Asked(voice) /\ call[c].pc = "ask"
  BY DEF Ask, Stands
<1> QED BY <1>1, <1>2, <1>3, SpeaksKeeps

-----------------------------------------------------------------------------
(* A call waits for its run, and is woken. *)
\* What is folded of a run.
LEMMA ViewTyped ==
  ASSUME VoiceTyped, NEW r
  PROVE  View(r) \in RunStates
<1>1. bridge.runs \in Books BY DEF VoiceTyped, Bridges
<1>2. PICK known \in SUBSET Runs : bridge.runs \in [known -> RunStates] BY <1>1 DEF Books
<1>3. NewRun \in RunStates BY DEF NewRun, RunStates
<1> QED BY <1>2, <1>3 DEF View

\* The entry of a run is the one that is there, or a new one.
LEMMA RunFields ==
  ASSUME VoiceTyped, NEW r \in Runs
  PROVE  /\ Run(bridge, r) \in Bridges /\ DOMAIN Run(bridge, r).runs = DOMAIN bridge.runs \cup {r}
         /\ Run(bridge, r).responding = bridge.responding /\ Run(bridge, r).deferred = bridge.deferred
         /\ Run(bridge, r).owes = bridge.owes
         /\ \A q \in DOMAIN bridge.runs \cup {r} : Run(bridge, r).runs[q] = View(q)
<1>1. bridge \in Bridges /\ bridge.runs \in Books BY DEF VoiceTyped, Bridges
<1>2. PICK known \in SUBSET Runs : bridge.runs \in [known -> RunStates] BY <1>1 DEF Books
<1>3. NewRun \in RunStates BY DEF NewRun, RunStates
<1>4. CASE r \in DOMAIN bridge.runs BY <1>1, <1>4 DEF Run, View
<1>5. CASE r \notin DOMAIN bridge.runs
  <2> DEFINE more == [x \in DOMAIN bridge.runs \cup {r} |-> IF x = r THEN NewRun ELSE bridge.runs[x]]
             b == Run(bridge, r)
  <2>1. b = [bridge EXCEPT !.runs = more] BY <1>1, <1>5 DEF Run
  <2>2. known \cup {r} \in SUBSET Runs /\ DOMAIN bridge.runs = known BY <1>2
  <2>3. more \in [known \cup {r} -> RunStates] BY <1>2, <1>3, <2>2
  <2>4. more \in Books BY <2>2, <2>3 DEF Books
  <2>5. DOMAIN more = DOMAIN bridge.runs \cup {r}
        /\ \A q \in DOMAIN bridge.runs \cup {r} : more[q] = IF q = r THEN NewRun ELSE bridge.runs[q]
    OBVIOUS
  <2> HIDE DEF more, Books, NewRun, b
  <2>6. /\ b \in Bridges /\ b.runs = more /\ b.responding = bridge.responding
        /\ b.deferred = bridge.deferred /\ b.owes = bridge.owes
    BY <1>1, <2>1, <2>4 DEF Bridges
  <2>7. \A q \in DOMAIN bridge.runs \cup {r} : b.runs[q] = View(q)
    BY <1>5, <2>5, <2>6 DEF View
  <2> QED BY <2>5, <2>6, <2>7 DEF b
<1> QED BY <1>4, <1>5

\* Waiting makes the entry, unless the watcher made it first.
LEMMA AwaitKeeps ==
  ASSUME VoiceInv, NEW c \in ToolCalls, Await(c)
  PROVE  VoiceInv'
<1> DEFINE r == call[c].run
<1>1. VoiceTyped /\ Outputted /\ CallsAskedOnce /\ Spoken /\ Waited /\ Historic /\ Counted
  BY DEF VoiceInv
<1>2. /\ call[c].pc = "accepted" /\ bridge' = Run(bridge, r) /\ UNCHANGED <<voice, loop>>
      /\ call' = [call EXCEPT ![c].pc = "waiting"]
  BY DEF Await, Stands
<1>3. Moves(c, "waiting") BY <1>1, <1>2, CallMoves DEF Pcs
<1>4. r <= loop.last BY <1>1 DEF VoiceTyped
<1>5. r \in Runs BY <1>1, <1>2 DEF Waited, Tracked
<1>6. bridge' \in Bridges /\ SameFlags /\ DOMAIN bridge'.runs = DOMAIN bridge.runs \cup {r}
      /\ \A q : View(q)' = View(q)
  <2> DEFINE b == Run(bridge, r)
  <2>1. /\ b \in Bridges /\ DOMAIN b.runs = DOMAIN bridge.runs \cup {r} /\ b.responding = bridge.responding
        /\ b.deferred = bridge.deferred /\ b.owes = bridge.owes
        /\ \A q \in DOMAIN bridge.runs \cup {r} : b.runs[q] = View(q)
    BY <1>1, <1>5, RunFields
  <2>2. bridge' = b BY <1>2
  <2> HIDE DEF b
  <2>3. \A q : q \notin DOMAIN bridge.runs => View(q) = NewRun BY DEF View
  <2>4. \A q : View(q)' = View(q) BY <2>1, <2>2, <2>3 DEF View
  <2> QED BY <2>1, <2>2, <2>4 DEF SameFlags
<1>7. VoiceTyped' BY <1>1, <1>2, <1>3, <1>6 DEF VoiceTyped, Moves
<1>8. FreshStay /\ SpeakersStay /\ AskedStay
  BY <1>2, <1>3 DEF Moves, FreshStay, FreshPcs, SpeakersStay, AskedStay
<1>9. Counted' /\ CallsAskedOnce' /\ Spoken'
  BY <1>1, <1>2, <1>6, <1>8, CountedKept, AskedOnceKept, SpokenApart
<1>10. Historic' BY <1>1, <1>2, <1>4, <1>6, HistoricApart
<1>11. \A d \in ToolCalls : Tracked(d)' = Tracked(d) /\ call'[d].run = call[d].run
  BY <1>2, <1>3 DEF Tracked, Moves
<1>12. \A q \in Runs : Followed(q) => Followed(q)' BY <1>2, <1>6, FollowedApart
<1>13. \A d \in ToolCalls : call'[d].pc = "waiting" => call'[d].run \in DOMAIN bridge'.runs
  BY <1>1, <1>3, <1>6 DEF Waited, Moves
<1>14. Waited'
  <2>1. \A d \in ToolCalls : Tracked(d)' => \E q \in Runs : call'[d].run = q /\ Followed(q)'
    BY <1>1, <1>11, <1>12 DEF Waited
  <2>2. \A d, e \in ToolCalls : Tracked(d)' /\ Tracked(e)' /\ call'[d].run = call'[e].run => d = e
    BY <1>1, <1>11 DEF Waited
  <2> QED BY <1>13, <2>1, <2>2 DEF Waited
<1>15. Outputted' BY <1>1, <1>2, <1>3 DEF Outputted, Moves
<1> QED BY <1>7, <1>9, <1>10, <1>14, <1>15 DEF VoiceInv

\* What the watcher has folded of a run that ended is a report of it.
LEMMA ReportIsOne ==
  ASSUME VoiceTyped, Historic, NEW r \in Runs, r \in DOMAIN bridge.runs, Followed(r), bridge.runs[r].reported
  PROVE  ReportOf(bridge.runs[r]) \in Reports(loop.told[r]) /\ ReportOf(bridge.runs[r]) \in Spoke
<1> DEFINE s == bridge.runs[r]
           tale == loop.told[r]
<1>1. s \in RunStates
  <2>1. bridge.runs \in Books BY DEF VoiceTyped, Bridges
  <2>2. PICK known \in SUBSET Runs : bridge.runs \in [known -> RunStates] BY <2>1 DEF Books
  <2> QED BY <2>2
<1>2. tale \in Seq(Told) /\ loop.entries[r] \in Nat BY DEF VoiceTyped, Loops
<1>3. DOMAIN tale = 1..Len(tale) /\ Len(tale) \in Nat /\ \A n \in DOMAIN tale : tale[n] \in Told
  BY <1>2
<1>4. View(r) = s /\ History(r) BY DEF View, Historic
<1>5. /\ s.answer = loop.entries[r] \/ \E i \in DOMAIN loop.events : loop.events[i] = <<r, "entry", loop.entries[r]>>
      /\ s.outcome # "none" =>
           /\ \E n \in DOMAIN tale : tale[n] = <<"settled", s.outcome>>
           /\ \A i \in DOMAIN loop.events : loop.events[i][1] # r
      /\ s.outcome = "none" => \E n \in DOMAIN tale : tale[n] = <<"suspended">>
  BY <1>4 DEF Followed, ToldOf
<1>6. /\ \A n \in DOMAIN tale : tale[n][1] = "entry" => tale[n][2] <= loop.entries[r]
      /\ loop.entries[r] = 0 \/ \E n \in DOMAIN tale : tale[n] = <<"entry", loop.entries[r]>>
      /\ \A n \in DOMAIN tale : tale[n][1] = "settled" => n = Len(tale)
  BY <1>4 DEF History, ToldOf
<1>7. ASSUME NEW n \in DOMAIN tale, tale[n][1] = "entry"
      PROVE  tale[n][2] \in Nat
  <2>1. tale[n] \in Told BY <1>3
  <2> QED BY <1>7, <2>1 DEF Told
<1> HIDE DEF s, tale
<1>8. CASE s.outcome = "none"
  <2>1. ReportOf(s) = <<"paused">> BY <1>8 DEF ReportOf
  <2>2. PICK n \in DOMAIN tale : tale[n] = <<"suspended">> BY <1>5, <1>8
  <2>3. n \in {x \in DOMAIN tale : tale[x][1] = "suspended"} BY <2>2
  <2>4. <<"paused">> \in {<<"paused">> : x \in {y \in DOMAIN tale : tale[y][1] = "suspended"}}
    BY <2>3
  <2>5. <<"paused">> \in Reports(tale) BY <2>4 DEF Reports
  <2>6. <<"paused">> \in Spoke BY DEF Spoke
  <2>7. ReportOf(s) \in Reports(tale) /\ ReportOf(s) \in Spoke BY <2>1, <2>5, <2>6
  <2> QED BY <2>7 DEF s, tale
<1>9. CASE s.outcome # "none"
  <2>1. PICK n \in DOMAIN tale : tale[n] = <<"settled", s.outcome>> BY <1>5, <1>9
  <2>2. n \in {x \in DOMAIN tale : tale[x][1] = "settled"} /\ tale[n][2] = s.outcome /\ n = Len(tale)
    BY <1>6, <2>1
  <2>3. s.answer = loop.entries[r]
    <3>1. ASSUME NEW i \in DOMAIN loop.events PROVE loop.events[i] # <<r, "entry", loop.entries[r]>>
      BY <1>5, <1>9
    <3> QED BY <1>5, <3>1
  <2>4. AnswerBefore(tale, n) = s.answer
    <3> DEFINE E == {x \in 1..n : tale[x][1] = "entry"}
               S == {0} \cup {tale[m][2] : m \in E}
    <3>1. 1..n = DOMAIN tale BY <1>3, <2>2
    <3>2. /\ \A m \in E : m \in DOMAIN tale /\ tale[m][1] = "entry"
          /\ \A m \in DOMAIN tale : tale[m][1] = "entry" => m \in E
      BY <3>1
    <3> HIDE DEF E
    <3>3. /\ \A y \in S : y = 0 \/ \E m \in E : y = tale[m][2]
          /\ 0 \in S /\ \A m \in E : tale[m][2] \in S
      OBVIOUS
    <3> HIDE DEF S
    <3>4. S \in SUBSET Nat BY <1>7, <3>2, <3>3
    <3>5. s.answer \in S
      <4>1. CASE loop.entries[r] = 0 BY <2>3, <3>3, <4>1
      <4>2. CASE \E m \in DOMAIN tale : tale[m] = <<"entry", loop.entries[r]>>
        <5>1. PICK m \in DOMAIN tale : tale[m] = <<"entry", loop.entries[r]>> BY <4>2
        <5>2. m \in E /\ tale[m][2] = loop.entries[r] BY <3>2, <5>1
        <5> QED BY <2>3, <3>3, <5>2
      <4> QED BY <1>6, <4>1, <4>2
    <3>6. \A y \in S : y <= s.answer BY <1>2, <1>6, <2>3, <3>2, <3>3
    <3>7. Max(S) = s.answer BY <3>4, <3>5, <3>6, MaxIs
    <3> QED BY <3>7 DEF AnswerBefore, S, E
  <2>5. s.outcome \in Outcomes BY <1>1, <1>9 DEF RunStates
  <2>6. ReportOf(s) = IF tale[n][2] = "completed" THEN <<"answer", AnswerBefore(tale, n)>> ELSE <<tale[n][2]>>
    BY <1>9, <2>2, <2>4 DEF ReportOf
  <2>7. ReportOf(s) \in Reports(tale) BY <2>2, <2>6 DEF Reports
  <2>8. ReportOf(s) \in Spoke BY <1>1, <1>9, <2>5 DEF ReportOf, Spoke, Outcomes, RunStates
  <2> QED BY <2>7, <2>8 DEF s, tale
<1> QED BY <1>8, <1>9

\* A call that is woken takes the entry with it; no other waits for that run.
LEMMA ReadyKeeps ==
  ASSUME VoiceInv, NEW c \in ToolCalls, Ready(c)
  PROVE  VoiceInv'
<1>1. VoiceTyped /\ Outputted /\ CallsAskedOnce /\ Spoken /\ Waited /\ Historic /\ Counted
  BY DEF VoiceInv
<1>2. PICK r \in Runs : call[c].run = r /\ Followed(r)
  BY <1>1 DEF Ready, Stands, Waited, Tracked
<1> DEFINE fewer == [x \in DOMAIN bridge.runs \ {r} |-> bridge.runs[x]]
           output == ReportOf(bridge.runs[r])
<1>3. /\ call[c].pc = "waiting" /\ bridge.runs[r].reported /\ UNCHANGED <<voice, loop>>
      /\ Outputs(c, output) /\ bridge' = [bridge EXCEPT !.runs = fewer]
  BY <1>1, <1>2 DEF Ready, Stands, VoiceTyped, Bridges
<1>4. r \in DOMAIN bridge.runs BY <1>1, <1>2, <1>3 DEF Waited
<1>5. output \in Reports(loop.told[r]) /\ output \in Spoke
  BY <1>1, <1>2, <1>3, <1>4, ReportIsOne
<1>6. fewer \in Books
  <2>1. bridge.runs \in Books BY <1>1 DEF VoiceTyped, Bridges
  <2>2. PICK known \in SUBSET Runs : bridge.runs \in [known -> RunStates] BY <2>1 DEF Books
  <2>3. known \ {r} \in SUBSET Runs /\ fewer \in [known \ {r} -> RunStates] BY <2>2
  <2> QED BY <2>3 DEF Books
<1>7. DOMAIN fewer = DOMAIN bridge.runs \ {r} /\ \A q \in DOMAIN bridge.runs \ {r} : fewer[q] = bridge.runs[q]
  OBVIOUS
<1> HIDE DEF fewer, output, Books, Spoke
<1>8. bridge' \in Bridges /\ SameFlags /\ bridge'.runs = fewer
  BY <1>1, <1>3, <1>6 DEF VoiceTyped, Bridges, SameFlags
<1>9. CallOver(c, output) BY <1>1, <1>3, <1>5, CallEnds
<1>10. \A q : q # r => View(q)' = View(q) BY <1>7, <1>8 DEF View
<1>11. VoiceTyped' BY <1>1, <1>3, <1>8, <1>9 DEF VoiceTyped, CallOver
<1>12. FreshStay /\ SpeakersStay /\ AskedStay
  BY <1>3, <1>9 DEF CallOver, FreshStay, FreshPcs, SpeakersStay, AskedStay
<1>13. Counted' /\ CallsAskedOnce' /\ Spoken'
  BY <1>1, <1>3, <1>8, <1>12, CountedKept, AskedOnceKept, SpokenApart
<1>14. Historic' BY <1>1, <1>3, <1>7, <1>8, HistoricApart
<1>15. \A d \in ToolCalls : Tracked(d)' => Tracked(d) /\ d # c /\ call'[d] = call[d] /\ call[d].run # r
  BY <1>1, <1>2, <1>3, <1>9 DEF Tracked, CallOver, Waited
<1>16. \A q \in Runs \ {r} : Followed(q) => Followed(q)' BY <1>3, <1>10, FollowedApart
<1>17. Waited'
  <2>1. \A d \in ToolCalls : Tracked(d)' => \E q \in Runs : call'[d].run = q /\ Followed(q)'
    BY <1>1, <1>15, <1>16 DEF Waited
  <2>2. \A d, e \in ToolCalls : Tracked(d)' /\ Tracked(e)' /\ call'[d].run = call'[e].run => d = e
    BY <1>1, <1>15 DEF Waited
  <2>3. ASSUME NEW d \in ToolCalls, call'[d].pc = "waiting" PROVE call'[d].run \in DOMAIN bridge'.runs
    <3>1. Tracked(d)' BY <2>3 DEF Tracked
    <3>2. call[d].pc = "waiting" /\ call'[d].run = call[d].run /\ call[d].run # r
      BY <1>15, <2>3, <3>1
    <3> QED BY <1>1, <1>7, <1>8, <3>2 DEF Waited
  <2> QED BY <2>1, <2>2, <2>3 DEF Waited
<1>18. Outputted'
  <2>1. ASSUME NEW d \in ToolCalls, call'[d].output # <<>>
        PROVE  /\ call'[d].pc \in {"result", "respond", "ask", "done"}
               /\ \/ call'[d].output[1] \in {"refused", "busy", "added"}
                  \/ call'[d].run # 0 /\ call'[d].output \in Reports(loop'.told[call'[d].run])
    <3>1. CASE d = c
      <4>1. r # 0 BY RunsAre
      <4> QED BY <1>2, <1>3, <1>5, <1>9, <3>1, <4>1 DEF CallOver
    <3>2. CASE d # c BY <1>1, <1>3, <1>9, <2>1, <3>2 DEF CallOver, Outputted
    <3> QED BY <3>1, <3>2
  <2> QED BY <2>1 DEF Outputted
<1> QED BY <1>11, <1>13, <1>14, <1>17, <1>18 DEF VoiceInv

-----------------------------------------------------------------------------
(* The session starts a run, and a run tells what happens to it. *)
\* The session has room for the run of each fresh call.
LEMMA DispatchStartFields ==
  ASSUME VoiceTyped, Counted, NEW c \in ToolCalls, DispatchStart(c)
  PROVE  \E r \in Runs :
           /\ r = loop.last + 1 /\ call[c].pc = "dispatch" /\ UNCHANGED <<voice, bridge>>
           /\ call' \in [ToolCalls -> Calls] /\ call'[c].pc = "accepted" /\ call'[c].run = r
           /\ call'[c].output = call[c].output /\ \A d \in ToolCalls \ {c} : call'[d] = call[d]
           /\ loop' \in Loops /\ loop'.active = r /\ loop'.last = r /\ loop'.entries = loop.entries
           /\ loop'.events = loop.events /\ loop'.told = loop.told /\ loop'.state[r] = "running"
           /\ \A q \in Runs \ {r} : loop'.state[q] = loop.state[q]
           /\ FreshStay /\ Counted'
<1> DEFINE r == loop.last + 1
<1>1. /\ call[c].pc = "dispatch" /\ loop.active = 0 /\ UNCHANGED <<voice, bridge>>
      /\ loop' = [loop EXCEPT !.active = r, !.last = r, !.state[r] = "running"]
      /\ call' = [call EXCEPT ![c].pc = "accepted", ![c].run = r]
  BY DEF DispatchStart, Stands
<1>2. call \in [ToolCalls -> Calls] /\ call[c] \in Calls /\ loop \in Loops /\ loop.last \in Nat /\ r \in Nat
  BY DEF VoiceTyped, Loops
<1> DEFINE n == [call[c] EXCEPT !.pc = "accepted", !.run = r]
<1>3. call' = [call EXCEPT ![c] = n] BY <1>1, <1>2
<1>4. n \in Calls /\ n.pc = "accepted" /\ n.run = r /\ n.output = call[c].output
  BY <1>2 DEF Calls, Pcs
<1>5. loop'.last = r BY <1>1, <1>2 DEF Loops
<1> HIDE DEF n, Calls, r
<1>6. call' \in [ToolCalls -> Calls] /\ call'[c] = n /\ \A d \in ToolCalls \ {c} : call'[d] = call[d]
  BY <1>2, <1>3, <1>4
<1>7. FreshStay /\ call'[c].pc \notin FreshPcs BY <1>1, <1>4, <1>6 DEF FreshStay, FreshPcs
<1>8. Counted' /\ loop.last + 1 <= Cardinality(ToolCalls)
  BY <1>1, <1>5, <1>7, CountedStarts DEF r
<1>9. r \in Runs BY <1>2, <1>8, RunsAre DEF r
<1>10. /\ loop.state \in [Runs -> {"none", "running", "suspended", "settled"}]
       /\ loop' = [loop EXCEPT !.active = r, !.last = r, !.state = [loop.state EXCEPT ![r] = "running"]]
  BY <1>1, <1>2 DEF Loops
<1> DEFINE st == [loop.state EXCEPT ![r] = "running"]
<1>11. st \in [Runs -> {"none", "running", "suspended", "settled"}] /\ st[r] = "running"
       /\ \A q \in Runs \ {r} : st[q] = loop.state[q]
  BY <1>9, <1>10
<1> HIDE DEF st
<1>12. loop' = [loop EXCEPT !.active = r, !.last = r, !.state = st] BY <1>10 DEF st
<1>13. /\ loop' \in Loops /\ loop'.active = r /\ loop'.last = r /\ loop'.entries = loop.entries
       /\ loop'.events = loop.events /\ loop'.told = loop.told /\ loop'.state = st
  BY <1>2, <1>11, <1>12 DEF Loops
<1>14. r = loop.last + 1 BY DEF r
<1> QED BY <1>1, <1>4, <1>6, <1>7, <1>8, <1>9, <1>11, <1>13, <1>14

\* A run that starts has told nothing, and nobody has folded any of it.
LEMMA DispatchStartKeeps ==
  ASSUME VoiceInv, NEW c \in ToolCalls, DispatchStart(c)
  PROVE  VoiceInv'
<1>1. VoiceTyped /\ Outputted /\ CallsAskedOnce /\ Spoken /\ Waited /\ Historic /\ Counted
  BY DEF VoiceInv
<1>2. PICK r \in Runs :
           /\ r = loop.last + 1 /\ call[c].pc = "dispatch" /\ UNCHANGED <<voice, bridge>>
           /\ call' \in [ToolCalls -> Calls] /\ call'[c].pc = "accepted" /\ call'[c].run = r
           /\ call'[c].output = call[c].output /\ \A d \in ToolCalls \ {c} : call'[d] = call[d]
           /\ loop' \in Loops /\ loop'.active = r /\ loop'.last = r /\ loop'.entries = loop.entries
           /\ loop'.events = loop.events /\ loop'.told = loop.told /\ loop'.state[r] = "running"
           /\ \A q \in Runs \ {r} : loop'.state[q] = loop.state[q]
           /\ FreshStay /\ Counted'
  BY <1>1, DispatchStartFields
<1>3. loop.last \in Nat /\ r \in Nat /\ r <= Cardinality(ToolCalls) /\ Runs \subseteq Nat
      /\ \A d \in ToolCalls : call[d].run \in Nat /\ call[d].run <= loop.last
  <2>1. loop \in Loops /\ call \in [ToolCalls -> Calls] BY <1>1 DEF VoiceTyped
  <2> QED BY <1>1, <2>1, RunsAre DEF VoiceTyped, Loops, Calls
<1>4. VoiceTyped'
  <2>1. \A d \in ToolCalls : call'[d].run <= loop'.last BY <1>2, <1>3
  <2>2. voice' \in Voices /\ bridge' \in Bridges BY <1>1, <1>2 DEF VoiceTyped
  <2> QED BY <1>2, <1>3, <2>1, <2>2 DEF VoiceTyped
<1>5. SameFlags /\ SpeakersStay /\ AskedStay BY <1>2 DEF SameFlags, SpeakersStay, AskedStay
<1>6. CallsAskedOnce' /\ Spoken' BY <1>1, <1>2, <1>5, AskedOnceKept, SpokenApart
<1>7. \A q, e : ToldOf(q, e)' = ToldOf(q, e) BY <1>2 DEF ToldOf
<1>8. History(r) /\ loop.told[r] = <<>> /\ loop.entries[r] = 0 /\ r \notin DOMAIN bridge.runs
  <2>1. History(r) /\ r > loop.last BY <1>1, <1>2, <1>3 DEF Historic
  <2> QED BY <2>1 DEF History
<1>9. Historic'
  <2>1. ASSUME NEW q \in Runs PROVE History(q)'
    <3>1. CASE q = r
      <4>1. \A n \in DOMAIN loop.told[r] : FALSE BY <1>8
      <4>2. ~(r > loop'.last) BY <1>2, <1>3
      <4> QED BY <1>2, <1>8, <3>1, <4>1, <4>2 DEF History
    <3>2. CASE q # r
      <4>1. History(q) /\ loop'.state[q] = loop.state[q] /\ (q > loop'.last => q > loop.last)
        <5>1. q \in Nat /\ loop'.last = loop.last + 1 /\ loop.last \in Nat BY <1>2, <1>3
        <5>2. q > loop'.last => q > loop.last BY <5>1
        <5>3. History(q) /\ loop'.state[q] = loop.state[q] BY <1>1, <1>2, <3>2 DEF Historic
        <5> QED BY <5>2, <5>3
      <4>2. loop'.told[q] = loop.told[q] /\ loop'.entries[q] = loop.entries[q] BY <1>2
      <4>3. ToldOf(q, <<"entry", loop.entries[q]>>)' <=> ToldOf(q, <<"entry", loop.entries[q]>>)
        BY <1>2 DEF ToldOf
      <4>4. bridge'.runs = bridge.runs BY <1>2
      <4> QED BY <4>1, <4>2, <4>3, <4>4 DEF History
    <3> QED BY <3>1, <3>2
  <2>2. ASSUME NEW i \in DOMAIN loop'.events PROVE Unwatched(i)'
    <3>1. Unwatched(i) BY <1>1, <1>2 DEF Historic
    <3>2. loop.events[i][1] \in Nat
      <4>1. loop.events[i] \in LoopEvents
        <5>1. loop.events \in Seq(LoopEvents) /\ i \in DOMAIN loop.events
          BY <1>1, <1>2 DEF VoiceTyped, Loops
        <5> QED BY <5>1
      <4>2. loop.events[i][1] \in Runs BY <4>1 DEF LoopEvents
      <4> QED BY <1>3, <4>2
    <3>3. loop.events[i][1] <= loop'.last BY <1>2, <1>3, <3>1, <3>2 DEF Unwatched
    <3> QED BY <1>2, <1>7, <3>1, <3>3 DEF Unwatched
  <2>3. Ongoing' BY <1>2 DEF Ongoing
  <2> QED BY <2>1, <2>2, <2>3 DEF Historic
<1>10. \A q : View(q)' = View(q) BY <1>2 DEF View
<1>11. Followed(r)'
  <2>1. View(r)' = NewRun BY <1>8, <1>10 DEF View
  <2> QED BY <1>2, <1>8, <2>1 DEF Followed, NewRun
<1>12. \A q \in Runs \ {r} : Followed(q) => Followed(q)'
  <2>1. \A q, kinds : Coming(q, kinds)' = Coming(q, kinds) BY <1>2 DEF Coming
  <2> QED BY <1>2, <1>7, <1>10, <2>1 DEF Followed
<1>13. \A d \in ToolCalls \ {c} : Tracked(d)' = Tracked(d) /\ call'[d] = call[d] /\ call[d].run # r
  BY <1>2, <1>3 DEF Tracked
<1>14. Waited'
  <2>1. ASSUME NEW d \in ToolCalls, Tracked(d)' PROVE \E q \in Runs : call'[d].run = q /\ Followed(q)'
    <3>1. CASE d = c BY <1>2, <1>11, <3>1
    <3>2. CASE d # c
      <4>1. PICK q \in Runs : call[d].run = q /\ Followed(q)
        BY <1>1, <1>13, <2>1, <3>2 DEF Waited
      <4> QED BY <1>12, <1>13, <3>2, <4>1
    <3> QED BY <3>1, <3>2
  <2>2. \A d, e \in ToolCalls : Tracked(d)' /\ Tracked(e)' /\ call'[d].run = call'[e].run => d = e
    <3>1. SUFFICES ASSUME NEW d \in ToolCalls, NEW e \in ToolCalls, Tracked(d)', Tracked(e)',
                          call'[d].run = call'[e].run, d # e
                   PROVE  FALSE
      OBVIOUS
    <3>2. CASE d = c BY <1>2, <1>13, <3>1, <3>2
    <3>3. CASE e = c BY <1>2, <1>13, <3>1, <3>3
    <3>4. CASE d # c /\ e # c BY <1>1, <1>13, <3>1, <3>4 DEF Waited
    <3> QED BY <3>2, <3>3, <3>4
  <2>3. \A d \in ToolCalls : call'[d].pc = "waiting" => call'[d].run \in DOMAIN bridge'.runs
    BY <1>1, <1>2 DEF Waited
  <2> QED BY <2>1, <2>2, <2>3 DEF Waited
<1>15. Outputted'
  <2>1. call[c].output = <<>> BY <1>1, <1>2 DEF Outputted
  <2> QED BY <1>1, <1>2, <2>1 DEF Outputted
<1> QED BY <1>2, <1>4, <1>6, <1>9, <1>14, <1>15 DEF VoiceInv

\* What the session writes when a run tells something.
LEMMA EmitsFields ==
  ASSUME NEW s \in Loops, NEW r \in Runs, NEW e \in Told
  PROVE  /\ Emits(s, r, e) \in Loops
         /\ Emits(s, r, e).active = s.active /\ Emits(s, r, e).last = s.last
         /\ Emits(s, r, e).state = s.state /\ Emits(s, r, e).entries = s.entries
         /\ Emits(s, r, e).events = Append(s.events, <<r>> \o e)
         /\ Emits(s, r, e).told[r] = Append(s.told[r], e)
         /\ \A q \in Runs \ {r} : Emits(s, r, e).told[q] = s.told[q]
<1> DEFINE f == <<r>> \o e
<1>1. f \in LoopEvents BY Named
<1> HIDE DEF f, LoopEvents, Told
<1>2. s.events \in Seq(LoopEvents) /\ s.told \in [Runs -> Seq(Told)] BY DEF Loops
<1> DEFINE ev == Append(s.events, f)
           td == Append(s.told[r], e)
           tl == [s.told EXCEPT ![r] = td]
<1>3. ev \in Seq(LoopEvents) /\ td \in Seq(Told) BY <1>1, <1>2, OneMore
<1>4. Emits(s, r, e) = [s EXCEPT !.events = ev, !.told = tl] BY DEF Emits, f, Loops
<1> HIDE DEF ev, td
<1>5. tl \in [Runs -> Seq(Told)] /\ tl[r] = td /\ \A q \in Runs \ {r} : tl[q] = s.told[q]
  BY <1>2, <1>3
<1> HIDE DEF tl
<1> DEFINE n == Emits(s, r, e)
<1>6. n = [s EXCEPT !.events = ev, !.told = tl] BY <1>4
<1> HIDE DEF n
<1>7. n \in Loops /\ n.active = s.active /\ n.last = s.last /\ n.state = s.state /\ n.entries = s.entries
      /\ n.events = ev /\ n.told = tl
  BY <1>3, <1>5, <1>6 DEF Loops
<1>8. n.told[r] = td /\ \A q \in Runs \ {r} : n.told[q] = s.told[q] BY <1>5, <1>7
<1> QED BY <1>7, <1>8 DEF n, ev, td, f

\* run r, the active one, tells e
Emitted(r, e) ==
  /\ r = loop.active /\ e \in Told /\ loop.state[r] \in {"running", "suspended"}
  /\ UNCHANGED <<voice, bridge, call>> /\ loop' \in Loops /\ loop'.last = loop.last
  /\ loop'.events = Append(loop.events, <<r>> \o e)
  /\ loop'.told[r] = Append(loop.told[r], e)
  /\ \A q \in Runs \ {r} : /\ loop'.told[q] = loop.told[q] /\ loop'.state[q] = loop.state[q]
                           /\ loop'.entries[q] = loop.entries[q]
  /\ \/ /\ e = <<"entry", loop'.entries[r]>> /\ loop'.entries[r] = loop.entries[r] + 1
        /\ loop'.state[r] = loop.state[r] /\ loop'.active = r
     \/ /\ e = <<"suspended">> /\ loop'.entries[r] = loop.entries[r]
        /\ loop'.state[r] = "suspended" /\ loop'.active = r
     \/ /\ \E o \in Outcomes : e = <<"settled", o>>
        /\ loop'.entries[r] = loop.entries[r] /\ loop'.state[r] = "settled" /\ loop'.active = 0

\* The active run has not settled.
LEMMA ActiveIsARun ==
  ASSUME VoiceTyped, Historic, loop.active # 0
  PROVE  loop.active \in Runs /\ loop \in Loops /\ loop.state[loop.active] \in {"running", "suspended"}
<1>1. loop \in Loops /\ loop.active \in Nat /\ loop.last \in Nat /\ loop.active <= loop.last
      /\ loop.last <= Cardinality(ToolCalls)
  BY DEF VoiceTyped, Loops
<1>2. loop.active \in Runs BY <1>1, RunsAre
<1> QED BY <1>1, <1>2 DEF Historic, Ongoing

\* The three things a run tells.
LEMMA LoopCommitsEmits ==
  ASSUME VoiceTyped, Historic, LoopCommits
  PROVE  \E r \in Runs, e \in Told : Emitted(r, e)
<1> DEFINE r == loop.active
           n == loop.entries[r] + 1
           s == [loop EXCEPT !.entries[r] = n]
           e == <<"entry", n>>
<1>1. loop.active # 0 /\ loop' = Emits(s, r, e) /\ UNCHANGED <<voice, bridge, call>>
  BY DEF LoopCommits
<1>2. r \in Runs /\ loop \in Loops /\ loop.state[r] \in {"running", "suspended"}
  BY <1>1, ActiveIsARun
<1>3. n \in Nat BY <1>2 DEF Loops
<1>4. e \in Told BY <1>3 DEF Told
<1>5. s \in Loops /\ s.active = r /\ s.last = loop.last /\ s.state = loop.state /\ s.events = loop.events
      /\ s.told = loop.told /\ s.entries[r] = n /\ \A q \in Runs \ {r} : s.entries[q] = loop.entries[q]
  <2> DEFINE en == [loop.entries EXCEPT ![r] = n]
  <2>1. loop.entries \in [Runs -> Nat] /\ s = [loop EXCEPT !.entries = en] BY <1>2 DEF Loops
  <2>2. en \in [Runs -> Nat] /\ en[r] = n /\ \A q \in Runs \ {r} : en[q] = loop.entries[q]
    BY <1>2, <1>3, <2>1
  <2> HIDE DEF en, s, r, n
  <2> QED BY <1>2, <2>1, <2>2 DEF Loops, r
<1> HIDE DEF s, e
<1>6. /\ loop' \in Loops /\ loop'.active = s.active /\ loop'.last = s.last
      /\ loop'.state = s.state /\ loop'.entries = s.entries
      /\ loop'.events = Append(s.events, <<r>> \o e) /\ loop'.told[r] = Append(s.told[r], e)
      /\ \A q \in Runs \ {r} : loop'.told[q] = s.told[q]
  BY <1>1, <1>2, <1>4, <1>5, EmitsFields
<1>7. e = <<"entry", n>> BY DEF e
<1>8. Emitted(r, e) BY <1>1, <1>2, <1>4, <1>5, <1>6, <1>7 DEF Emitted
<1> QED BY <1>2, <1>4, <1>8

LEMMA LoopSuspendsEmits ==
  ASSUME VoiceTyped, Historic, LoopSuspends
  PROVE  \E r \in Runs, e \in Told : Emitted(r, e)
<1> DEFINE r == loop.active
           s == [loop EXCEPT !.state[r] = "suspended"]
           e == <<"suspended">>
<1>1. loop.active # 0 /\ loop' = Emits(s, r, e) /\ UNCHANGED <<voice, bridge, call>>
  BY DEF LoopSuspends
<1>2. r \in Runs /\ loop \in Loops /\ loop.state[r] \in {"running", "suspended"}
  BY <1>1, ActiveIsARun
<1>3. e \in Told BY DEF Told
<1>4. s \in Loops /\ s.active = r /\ s.last = loop.last /\ s.entries = loop.entries /\ s.events = loop.events
      /\ s.told = loop.told /\ s.state[r] = "suspended" /\ \A q \in Runs \ {r} : s.state[q] = loop.state[q]
  <2> DEFINE st == [loop.state EXCEPT ![r] = "suspended"]
             States == {"none", "running", "suspended", "settled"}
  <2>1. loop.state \in [Runs -> States] /\ s = [loop EXCEPT !.state = st] BY <1>2 DEF Loops
  <2>2. st \in [Runs -> States] /\ st[r] = "suspended" /\ \A q \in Runs \ {r} : st[q] = loop.state[q]
    BY <1>2, <2>1
  <2> HIDE DEF st, s, r
  <2> QED BY <1>2, <2>1, <2>2 DEF Loops, r
<1> HIDE DEF s, e
<1>5. /\ loop' \in Loops /\ loop'.active = s.active /\ loop'.last = s.last
      /\ loop'.state = s.state /\ loop'.entries = s.entries
      /\ loop'.events = Append(s.events, <<r>> \o e) /\ loop'.told[r] = Append(s.told[r], e)
      /\ \A q \in Runs \ {r} : loop'.told[q] = s.told[q]
  BY <1>1, <1>2, <1>3, <1>4, EmitsFields
<1>6. e = <<"suspended">> BY DEF e
<1>7. Emitted(r, e) BY <1>1, <1>2, <1>3, <1>4, <1>5, <1>6 DEF Emitted
<1> QED BY <1>2, <1>3, <1>7

LEMMA LoopSettlesEmits ==
  ASSUME VoiceTyped, Historic, NEW o \in Outcomes, LoopSettles(o)
  PROVE  \E r \in Runs, e \in Told : Emitted(r, e)
<1> DEFINE r == loop.active
           s == [loop EXCEPT !.state[r] = "settled", !.active = 0]
           e == <<"settled", o>>
<1>1. loop.active # 0 /\ loop' = Emits(s, r, e) /\ UNCHANGED <<voice, bridge, call>>
  BY DEF LoopSettles
<1>2. r \in Runs /\ loop \in Loops /\ loop.state[r] \in {"running", "suspended"}
  BY <1>1, ActiveIsARun
<1>3. e \in Told BY DEF Told
<1>4. s \in Loops /\ s.active = 0 /\ s.last = loop.last /\ s.entries = loop.entries /\ s.events = loop.events
      /\ s.told = loop.told /\ s.state[r] = "settled" /\ \A q \in Runs \ {r} : s.state[q] = loop.state[q]
  <2> DEFINE st == [loop.state EXCEPT ![r] = "settled"]
             States == {"none", "running", "suspended", "settled"}
  <2>1. loop.state \in [Runs -> States] /\ s = [loop EXCEPT !.state = st, !.active = 0]
    BY <1>2 DEF Loops
  <2>2. st \in [Runs -> States] /\ st[r] = "settled" /\ \A q \in Runs \ {r} : st[q] = loop.state[q]
    BY <1>2, <2>1
  <2> HIDE DEF st, s, r
  <2> QED BY <1>2, <2>1, <2>2 DEF Loops, r
<1> HIDE DEF s, e
<1>5. /\ loop' \in Loops /\ loop'.active = s.active /\ loop'.last = s.last
      /\ loop'.state = s.state /\ loop'.entries = s.entries
      /\ loop'.events = Append(s.events, <<r>> \o e) /\ loop'.told[r] = Append(s.told[r], e)
      /\ \A q \in Runs \ {r} : loop'.told[q] = s.told[q]
  BY <1>1, <1>2, <1>3, <1>4, EmitsFields
<1>6. e = <<"settled", o>> BY DEF e
<1>7. Emitted(r, e) BY <1>1, <1>2, <1>3, <1>4, <1>5, <1>6 DEF Emitted
<1> QED BY <1>2, <1>3, <1>7

\* its event and what it told are at the end: the N-th and the M-th
Lengthened(r, e, f, N, M) ==
  /\ f[1] = r /\ f[2] = e[1]
  /\ e = <<"entry", loop'.entries[r]>> => f = <<r, "entry", loop'.entries[r]>>
  /\ \A o : e = <<"settled", o>> => f = <<r, "settled", o>>
  /\ DOMAIN loop'.events = DOMAIN loop.events \cup {N} /\ loop'.events[N] = f
  /\ \A i \in DOMAIN loop.events : i \in Nat /\ i < N /\ loop'.events[i] = loop.events[i]
                                     /\ loop.events[i] \in LoopEvents
  /\ DOMAIN loop'.told[r] = DOMAIN loop.told[r] \cup {M} /\ loop'.told[r][M] = e
  /\ \A n \in DOMAIN loop.told[r] : n < M /\ loop'.told[r][n] = loop.told[r][n] /\ loop.told[r][n] \in Told
  /\ M = Len(loop'.told[r])

\* The event and what was told are the last ones.
LEMMA EmittedFields ==
  ASSUME VoiceTyped, NEW r \in Runs, NEW e \in Told, Emitted(r, e)
  PROVE  \E f \in LoopEvents, N \in Nat, M \in Nat :
           Lengthened(r, e, f, N, M)
<1> DEFINE f == <<r>> \o e
           N == Len(loop.events) + 1
           M == Len(loop.told[r]) + 1
<1>1. f \in LoopEvents /\ f[1] = r /\ f[2] = e[1] BY Named
<1>2. /\ e = <<"entry", loop'.entries[r]>> => f = <<r, "entry", loop'.entries[r]>>
      /\ \A o : e = <<"settled", o>> => f = <<r, "settled", o>>
  BY Prefixed
<1>3. loop.events \in Seq(LoopEvents) /\ loop.told[r] \in Seq(Told) BY DEF VoiceTyped, Loops
<1> HIDE DEF f, LoopEvents, Told
<1>4. loop'.events = Append(loop.events, f) /\ loop'.told[r] = Append(loop.told[r], e)
  BY DEF Emitted, f
<1>5. /\ DOMAIN loop'.events = DOMAIN loop.events \cup {N} /\ loop'.events[N] = f /\ N \in Nat
      /\ \A i \in DOMAIN loop.events : i \in Nat /\ i < N /\ loop'.events[i] = loop.events[i]
                                         /\ loop.events[i] \in LoopEvents
  BY <1>1, <1>3, <1>4
<1>6. /\ DOMAIN loop'.told[r] = DOMAIN loop.told[r] \cup {M} /\ loop'.told[r][M] = e /\ M \in Nat
      /\ \A n \in DOMAIN loop.told[r] : n < M /\ loop'.told[r][n] = loop.told[r][n] /\ loop.told[r][n] \in Told
      /\ M = Len(loop'.told[r])
  BY <1>3, <1>4
<1> HIDE DEF N, M
<1>7. Lengthened(r, e, f, N, M) BY <1>1, <1>2, <1>5, <1>6 DEF Lengthened
<1> QED BY <1>1, <1>5, <1>6, <1>7

\* What was told grows: a run that has not settled tells it.
LEMMA EmittedHistory ==
  ASSUME VoiceTyped, Historic, NEW r \in Runs, NEW e \in Told, Emitted(r, e)
  PROVE  \A q \in Runs : History(q)'
<1>1. PICK f \in LoopEvents, N \in Nat, M \in Nat :
           Lengthened(r, e, f, N, M)
  BY EmittedFields
<1> DEFINE tale == loop.told[r]
           more == loop'.told[r]
           was == loop.entries[r]
           is == loop'.entries[r]
<1>2. DOMAIN more = DOMAIN tale \cup {M} /\ more[M] = e /\ M = Len(more)
      /\ \A n \in DOMAIN tale : more[n] = tale[n] /\ tale[n] \in Told
  BY <1>1 DEF Lengthened
<1>3. /\ was \in Nat /\ is \in Nat /\ loop.last \in Nat /\ r \in Nat /\ ~(r > loop'.last)
      /\ loop.state[r] \in {"running", "suspended"}
  <2>1. loop \in Loops /\ loop' \in Loops /\ loop'.last = loop.last /\ r <= loop.last
    BY DEF VoiceTyped, Emitted
  <2>2. Runs \subseteq Nat BY RunsAre
  <2> QED BY <2>1, <2>2 DEF Loops, Emitted
<1>4. \/ e = <<"entry", is>> /\ is = was + 1 /\ loop'.state[r] = loop.state[r]
      \/ e = <<"suspended">> /\ is = was
      \/ (\E o \in Outcomes : e = <<"settled", o>>) /\ is = was /\ loop'.state[r] = "settled"
  BY DEF Emitted
<1>5. /\ \A n \in DOMAIN tale : tale[n][1] = "entry" => tale[n][2] <= was
      /\ was = 0 \/ \E n \in DOMAIN tale : tale[n] = <<"entry", was>>
      /\ \A n \in DOMAIN tale : tale[n][1] # "settled"
  BY <1>3 DEF Historic, History, ToldOf
<1> HIDE DEF tale, more, was, is, Told
<1>6. ASSUME NEW n \in DOMAIN more, more[n][1] = "entry"
      PROVE  more[n][2] <= is
  <2>1. CASE n = M BY <1>2, <1>3, <1>4, <1>6, <2>1
  <2>2. CASE n \in DOMAIN tale
    <3>1. tale[n][2] <= was /\ tale[n][1] = "entry" /\ tale[n] \in Told
      BY <1>2, <1>5, <1>6, <2>2
    <3>2. tale[n][2] \in Nat BY <3>1 DEF Told
    <3>3. \A a, b, d \in Nat : a <= b /\ (d = b + 1 \/ d = b) => a <= d
      OBVIOUS
    <3>4. is = was + 1 \/ is = was BY <1>4
    <3>5. tale[n][2] <= is BY <1>3, <3>1, <3>2, <3>3, <3>4
    <3> QED BY <1>2, <2>2, <3>5
  <2> QED BY <1>2, <2>1, <2>2
<1>7. is = 0 \/ \E n \in DOMAIN more : more[n] = <<"entry", is>>
  <2>1. CASE e = <<"entry", is>> BY <1>2, <2>1
  <2>2. CASE is = was
    <3>1. CASE was = 0 BY <2>2, <3>1
    <3>2. CASE \E n \in DOMAIN tale : tale[n] = <<"entry", was>> BY <1>2, <2>2, <3>2
    <3> QED BY <1>5, <3>1, <3>2
  <2> QED BY <1>4, <2>1, <2>2
<1>8. \A n \in DOMAIN more : more[n][1] = "settled" => n = Len(more) /\ loop'.state[r] = "settled"
  <2>1. ASSUME NEW n \in DOMAIN more, more[n][1] = "settled" PROVE n = M BY <1>2, <1>5, <2>1
  <2>2. e[1] = "settled" => loop'.state[r] = "settled"
    <3>1. e = <<"entry", is>> => e[1] = "entry"
      OBVIOUS
    <3>2. e = <<"suspended">> => e[1] = "suspended"
      OBVIOUS
    <3> QED BY <1>4, <3>1, <3>2
  <2>3. ASSUME NEW n \in DOMAIN more, more[n][1] = "settled"
        PROVE  n = Len(more) /\ loop'.state[r] = "settled"
    <3>1. n = M BY <2>1, <2>3
    <3>2. e[1] = "settled" /\ n = Len(more) BY <1>2, <2>3, <3>1
    <3> QED BY <2>2, <3>2
  <2> QED BY <2>3
<1>9. History(r)' BY <1>3, <1>6, <1>7, <1>8 DEF History, ToldOf, more, is
<1>10. ASSUME NEW q \in Runs \ {r} PROVE History(q)'
  <2>1. History(q) /\ loop'.last = loop.last /\ bridge' = bridge BY DEF Historic, Emitted
  <2>2. loop'.told[q] = loop.told[q] /\ loop'.state[q] = loop.state[q] /\ loop'.entries[q] = loop.entries[q]
    BY DEF Emitted
  <2> QED BY <2>1, <2>2 DEF History, ToldOf
<1> QED BY <1>9, <1>10

\* What was told stays told.
LEMMA EmittedTold ==
  ASSUME VoiceTyped, Historic, NEW r \in Runs, NEW e \in Told, Emitted(r, e),
         NEW f, NEW N, NEW M, Lengthened(r, e, f, N, M)
  PROVE  /\ \A q \in Runs : \A x : (\E n \in DOMAIN loop.told[q] : loop.told[q][n] = x) =>
                                 \E n \in DOMAIN loop'.told[q] : loop'.told[q][n] = x
         /\ \E n \in DOMAIN loop'.told[r] : loop'.told[r][n] = e
         /\ \A n \in DOMAIN loop.told[r] : loop.told[r][n][1] # "settled"
<1>1. ASSUME NEW q \in Runs, NEW x, \E n \in DOMAIN loop.told[q] : loop.told[q][n] = x
      PROVE  \E n \in DOMAIN loop'.told[q] : loop'.told[q][n] = x
  <2>1. PICK n \in DOMAIN loop.told[q] : loop.told[q][n] = x BY <1>1
  <2>2. CASE q = r BY <2>1, <2>2 DEF Lengthened
  <2>3. CASE q # r BY <2>1, <2>3 DEF Emitted
  <2> QED BY <2>2, <2>3
<1>2. \E n \in DOMAIN loop'.told[r] : loop'.told[r][n] = e BY DEF Lengthened
<1>3. \A n \in DOMAIN loop.told[r] : loop.told[r][n][1] # "settled"
  BY DEF Historic, History, Emitted
<1> QED BY <1>1, <1>2, <1>3

\* An answer makes those before it old, and nothing follows the end of a run.
LEMMA EmittedWatched ==
  ASSUME VoiceTyped, Historic, NEW r \in Runs, NEW e \in Told, Emitted(r, e)
  PROVE  \A i \in DOMAIN loop'.events : Unwatched(i)'
<1>1. PICK f \in LoopEvents, N \in Nat, M \in Nat : Lengthened(r, e, f, N, M)
  BY EmittedFields
<1>2. /\ \A q \in Runs : \A x : (\E n \in DOMAIN loop.told[q] : loop.told[q][n] = x) =>
                              \E n \in DOMAIN loop'.told[q] : loop'.told[q][n] = x
      /\ \E n \in DOMAIN loop'.told[r] : loop'.told[r][n] = e
      /\ \A n \in DOMAIN loop.told[r] : loop.told[r][n][1] # "settled"
  BY <1>1, EmittedTold
<1>3. /\ DOMAIN loop'.events = DOMAIN loop.events \cup {N} /\ loop'.events[N] = f
      /\ \A i \in DOMAIN loop.events : i \in Nat /\ i < N /\ loop'.events[i] = loop.events[i]
                                         /\ loop.events[i] \in LoopEvents
  BY <1>1 DEF Lengthened
<1>4. loop'.last = loop.last /\ r <= loop.last BY DEF Emitted, VoiceTyped
<1>5. ASSUME NEW i \in DOMAIN loop.events PROVE Unwatched(i)'
  <2> DEFINE x == loop.events[i]
             q == x[1]
  <2>1. q \in Runs /\ i < N /\ loop'.events[i] = x /\ Unwatched(i)
    BY <1>3 DEF LoopEvents, Historic
  <2>2. /\ q <= loop.last
        /\ x[2] = "entry" =>
             \/ x[3] = loop.entries[q]
             \/ \E j \in DOMAIN loop.events : j > i /\ loop.events[j] = <<q, "entry", loop.entries[q]>>
        /\ x[2] = "suspended" => \E n \in DOMAIN loop.told[q] : loop.told[q][n] = <<"suspended">>
        /\ x[2] = "settled" =>
             /\ \E n \in DOMAIN loop.told[q] : loop.told[q][n] = <<"settled", x[3]>>
             /\ \A j \in DOMAIN loop.events : loop.events[j][1] = q => j <= i
    BY <2>1 DEF Unwatched, ToldOf
  <2> HIDE DEF x, q
  <2>3. ASSUME x[2] = "entry"
        PROVE  \/ x[3] = loop'.entries[q]
               \/ \E j \in DOMAIN loop'.events : j > i /\ loop'.events[j] = <<q, "entry", loop'.entries[q]>>
    <3>1. CASE loop'.entries[q] = loop.entries[q] BY <1>3, <2>2, <2>3, <3>1
    <3>2. CASE q = r /\ e = <<"entry", loop'.entries[r]>>
      <4>1. loop'.events[N] = <<q, "entry", loop'.entries[q]>> /\ N \in DOMAIN loop'.events
        BY <1>1, <3>2 DEF Lengthened
      <4> QED BY <2>1, <4>1
    <3>3. loop'.entries[q] = loop.entries[q] \/ (q = r /\ e = <<"entry", loop'.entries[r]>>)
      BY <2>1 DEF Emitted
    <3> QED BY <3>1, <3>2, <3>3
  <2>4. ASSUME x[2] = "settled"
        PROVE  /\ \E n \in DOMAIN loop'.told[q] : loop'.told[q][n] = <<"settled", x[3]>>
               /\ \A j \in DOMAIN loop'.events : loop'.events[j][1] = q => j <= i
    <3>1. \E n \in DOMAIN loop.told[q] : loop.told[q][n] = <<"settled", x[3]>> BY <2>2, <2>4
    <3>2. q # r BY <1>2, <3>1
    <3>3. f[1] = r BY <1>1 DEF Lengthened
    <3> QED BY <1>2, <1>3, <2>1, <2>2, <2>4, <3>1, <3>2, <3>3
  <2>5. x[2] = "suspended" => \E n \in DOMAIN loop'.told[q] : loop'.told[q][n] = <<"suspended">>
    BY <1>2, <2>1, <2>2
  <2>6. loop'.events[i] = x /\ q = x[1] /\ q <= loop'.last BY <1>4, <2>1, <2>2 DEF q
  <2> QED BY <2>3, <2>4, <2>5, <2>6 DEF Unwatched, ToldOf
<1>6. Unwatched(N)'
  <2>1. f[1] = r /\ f[2] = e[1] /\ loop'.events[N] = f /\ r <= loop'.last
    BY <1>1, <1>4 DEF Lengthened
  <2>2. \A j \in DOMAIN loop'.events : j <= N BY <1>3
  <2>3. CASE e = <<"entry", loop'.entries[r]>>
    <3>1. f = <<r, "entry", loop'.entries[r]>> BY <1>1, <2>3 DEF Lengthened
    <3> QED BY <2>1, <3>1 DEF Unwatched
  <2>4. CASE e = <<"suspended">>
    <3>1. f[2] = "suspended" BY <2>1, <2>4
    <3> QED BY <1>2, <2>1, <2>4, <3>1 DEF Unwatched, ToldOf
  <2>5. CASE \E o \in Outcomes : e = <<"settled", o>>
    <3>1. PICK o \in Outcomes : e = <<"settled", o>> BY <2>5
    <3>2. f = <<r, "settled", o>> BY <1>1, <3>1 DEF Lengthened
    <3> QED BY <1>2, <2>1, <2>2, <3>1, <3>2 DEF Unwatched, ToldOf
  <2> QED BY <2>3, <2>4, <2>5 DEF Emitted
<1> QED BY <1>3, <1>5, <1>6

\* What is folded of a run lags behind by the new event.
LEMMA EmittedFollowed ==
  ASSUME VoiceTyped, Historic, NEW r \in Runs, NEW e \in Told, Emitted(r, e), NEW q \in Runs, Followed(q)
  PROVE  Followed(q)'
<1>1. PICK f \in LoopEvents, N \in Nat, M \in Nat : Lengthened(r, e, f, N, M)
  BY EmittedFields
<1>2. /\ \A x : (\E n \in DOMAIN loop.told[q] : loop.told[q][n] = x) =>
                  \E n \in DOMAIN loop'.told[q] : loop'.told[q][n] = x
      /\ \A n \in DOMAIN loop.told[r] : loop.told[r][n][1] # "settled"
  BY <1>1, EmittedTold
<1>3. /\ DOMAIN loop'.events = DOMAIN loop.events \cup {N} /\ loop'.events[N] = f
      /\ \A i \in DOMAIN loop.events : loop'.events[i] = loop.events[i]
      /\ f[1] = r /\ f[2] = e[1]
  BY <1>1 DEF Lengthened
<1> DEFINE v == View(q)
<1>4. View(q)' = v BY DEF View, Emitted
<1>5. /\ v.answer = loop.entries[q] \/ \E i \in DOMAIN loop.events : loop.events[i] = <<q, "entry", loop.entries[q]>>
      /\ v.outcome # "none" =>
           /\ \E n \in DOMAIN loop.told[q] : loop.told[q][n] = <<"settled", v.outcome>>
           /\ v.reported /\ \A i \in DOMAIN loop.events : loop.events[i][1] # q
      /\ v.reported /\ v.outcome = "none" => \E n \in DOMAIN loop.told[q] : loop.told[q][n] = <<"suspended">>
      /\ loop.state[q] # "running" =>
           v.reported \/ \E i \in DOMAIN loop.events : loop.events[i][1] = q /\ loop.events[i][2] \in {"suspended", "settled"}
  BY DEF Followed, ToldOf, Coming
<1> HIDE DEF v
<1>6. v.answer = loop'.entries[q] \/ \E i \in DOMAIN loop'.events : loop'.events[i] = <<q, "entry", loop'.entries[q]>>
  <2>1. CASE loop'.entries[q] = loop.entries[q] BY <1>3, <1>5, <2>1
  <2>2. CASE q = r /\ e = <<"entry", loop'.entries[r]>>
    <3>1. loop'.events[N] = <<q, "entry", loop'.entries[q]>> BY <1>1, <2>2 DEF Lengthened
    <3> QED BY <1>3, <3>1
  <2>3. loop'.entries[q] = loop.entries[q] \/ (q = r /\ e = <<"entry", loop'.entries[r]>>)
    BY DEF Emitted
  <2> QED BY <2>1, <2>2, <2>3
<1>7. v.outcome # "none" =>
           /\ \E n \in DOMAIN loop'.told[q] : loop'.told[q][n] = <<"settled", v.outcome>>
           /\ v.reported /\ \A i \in DOMAIN loop'.events : loop'.events[i][1] # q
  <2>1. SUFFICES ASSUME v.outcome # "none"
                 PROVE  /\ \E n \in DOMAIN loop'.told[q] : loop'.told[q][n] = <<"settled", v.outcome>>
                        /\ v.reported /\ \A i \in DOMAIN loop'.events : loop'.events[i][1] # q
    OBVIOUS
  <2>2. q # r BY <1>2, <1>5, <2>1
  <2> QED BY <1>2, <1>3, <1>5, <2>1, <2>2
<1>8. v.reported /\ v.outcome = "none" => \E n \in DOMAIN loop'.told[q] : loop'.told[q][n] = <<"suspended">>
  BY <1>2, <1>5
<1>9. loop'.state[q] # "running" =>
        v.reported \/ \E i \in DOMAIN loop'.events : loop'.events[i][1] = q /\ loop'.events[i][2] \in {"suspended", "settled"}
  <2>1. CASE loop'.state[q] = loop.state[q] BY <1>3, <1>5, <2>1
  <2>2. CASE q = r /\ e[1] \in {"suspended", "settled"} BY <1>3, <2>2
  <2>3. loop'.state[q] = loop.state[q] \/ (q = r /\ e[1] \in {"suspended", "settled"})
    BY DEF Emitted
  <2> QED BY <2>1, <2>2, <2>3
<1> QED BY <1>4, <1>6, <1>7, <1>8, <1>9 DEF Followed, ToldOf, Coming

\* A run tells something.
LEMMA EmittedKeeps ==
  ASSUME VoiceInv, NEW r \in Runs, NEW e \in Told, Emitted(r, e)
  PROVE  VoiceInv'
<1>1. VoiceTyped /\ Outputted /\ CallsAskedOnce /\ Spoken /\ Waited /\ Historic /\ Counted
  BY DEF VoiceInv
<1>2. /\ UNCHANGED <<voice, bridge, call>> /\ loop' \in Loops /\ loop'.last = loop.last
      /\ loop'.active \in {0, loop.active} /\ loop.active = r
  BY DEF Emitted
<1>3. VoiceTyped'
  <2>1. 0 <= loop'.last BY <1>2 DEF Loops
  <2>2. loop'.active <= loop'.last /\ loop'.last <= Cardinality(ToolCalls)
        /\ \A c \in ToolCalls : call'[c].run <= loop'.last
    BY <1>1, <1>2, <2>1 DEF VoiceTyped
  <2>3. voice' \in Voices /\ bridge' \in Bridges /\ call' \in [ToolCalls -> Calls]
    BY <1>1, <1>2 DEF VoiceTyped
  <2> QED BY <1>2, <2>2, <2>3 DEF VoiceTyped
<1>4. FreshStay /\ AskedStay /\ SameFlags /\ SpeakersStay
  BY <1>2 DEF FreshStay, AskedStay, SameFlags, SpeakersStay
<1>5. Counted' /\ CallsAskedOnce' /\ Spoken'
  BY <1>1, <1>2, <1>4, CountedKept, AskedOnceKept, SpokenApart
<1>6. Ongoing'
  <2>1. loop'.active # 0 => loop'.active = r /\ loop'.state[r] \in {"running", "suspended"}
    BY DEF Emitted
  <2> QED BY <2>1 DEF Ongoing
<1>7. Historic' BY <1>1, <1>6, EmittedHistory, EmittedWatched DEF Historic
<1>8. \A q \in Runs : Followed(q) => Followed(q)' BY <1>1, EmittedFollowed
<1>9. Waited' BY <1>1, <1>2, <1>8 DEF Waited, Tracked
<1>10. Outputted'
  <2>1. \A q \in Runs : Reports(loop.told[q]) \subseteq Reports(loop'.told[q])
    <3>1. ASSUME NEW q \in Runs PROVE Reports(loop.told[q]) \subseteq Reports(loop'.told[q])
      <4>1. loop.told[q] \in Seq(Told) BY <1>1 DEF VoiceTyped, Loops
      <4>2. loop'.told[q] = loop.told[q] \/ loop'.told[q] = Append(loop.told[q], e)
        BY DEF Emitted
      <4> QED BY <4>1, <4>2, ReportsGrow
    <3> QED BY <3>1
  <2>2. \A c \in ToolCalls : call[c].run # 0 => call[c].run \in Runs
    <3>1. \A c \in ToolCalls : call[c].run \in Nat /\ call[c].run <= Cardinality(ToolCalls)
      <4>1. loop.last \in Nat /\ loop.last <= Cardinality(ToolCalls)
            /\ \A c \in ToolCalls : call[c].run \in Nat /\ call[c].run <= loop.last
        BY <1>1 DEF VoiceTyped, Loops, Calls
      <4> QED BY <4>1, RunsAre
    <3> QED BY <3>1, RunsAre
  <2> QED BY <1>1, <1>2, <2>1, <2>2 DEF Outputted
<1> QED BY <1>3, <1>5, <1>7, <1>9, <1>10 DEF VoiceInv

-----------------------------------------------------------------------------
(* The watcher folds the next event. *)
\* What each kind of event does to what was folded.
LEMMA FoldFields ==
  ASSUME NEW v \in RunStates, NEW e \in LoopEvents
  PROVE  LET s == FoldEvent(v, e) IN
         /\ s \in RunStates /\ e[1] \in Runs
         /\ \/ e[2] = "entry" /\ s.answer = e[3] /\ s.outcome = v.outcome /\ s.reported = v.reported
               /\ e = <<e[1], "entry", e[3]>>
            \/ e[2] = "suspended" /\ s.answer = v.answer /\ s.outcome = v.outcome /\ s.reported
               /\ e = <<e[1], "suspended">>
            \/ e[2] = "settled" /\ s.answer = v.answer /\ s.outcome = e[3] /\ s.reported
               /\ e = <<e[1], "settled", e[3]>>
<1>1. CASE \E r \in Runs, n \in Nat : e = <<r, "entry", n>>
  <2>1. PICK r \in Runs, n \in Nat : e = <<r, "entry", n>> BY <1>1
  <2>2. FoldEvent(v, e) = [v EXCEPT !.answer = n] BY <2>1 DEF FoldEvent
  <2> QED BY <2>1, <2>2 DEF RunStates
<1>2. CASE \E r \in Runs : e = <<r, "suspended">>
  <2>1. PICK r \in Runs : e = <<r, "suspended">> BY <1>2
  <2>2. FoldEvent(v, e) = [v EXCEPT !.reported = TRUE] BY <2>1 DEF FoldEvent
  <2> QED BY <2>1, <2>2 DEF RunStates
<1>3. CASE \E r \in Runs, o \in Outcomes : e = <<r, "settled", o>>
  <2>1. PICK r \in Runs, o \in Outcomes : e = <<r, "settled", o>> BY <1>3
  <2>2. FoldEvent(v, e) = [v EXCEPT !.outcome = o, !.reported = TRUE] BY <2>1 DEF FoldEvent
  <2> QED BY <2>1, <2>2 DEF RunStates
<1> QED BY <1>1, <1>2, <1>3 DEF LoopEvents

\* the watcher folds e, an event of run r
Folded(e, r) ==
  /\ e = loop.events[1] /\ r = e[1] /\ UNCHANGED <<voice, call>> /\ loop.events # <<>>
  /\ bridge' \in Bridges /\ SameFlags /\ DOMAIN bridge'.runs = DOMAIN bridge.runs \cup {r}
  /\ bridge'.runs[r] = FoldEvent(View(r), e)
  /\ \A q \in DOMAIN bridge.runs : q # r => bridge'.runs[q] = bridge.runs[q]
  /\ loop' \in Loops /\ loop'.last = loop.last /\ loop'.active = loop.active
  /\ loop'.state = loop.state /\ loop'.entries = loop.entries /\ loop'.told = loop.told
  /\ loop'.events = Tail(loop.events)

\* Watching folds the first event into the entry of its run.
LEMMA WatchFolds ==
  ASSUME VoiceTyped, Watch
  PROVE  \E e \in LoopEvents, r \in Runs : Folded(e, r)
<1>1. loop \in Loops /\ loop.events \in Seq(LoopEvents) /\ loop.events # <<>>
  BY DEF VoiceTyped, Loops, Watch
<1>2. Head(loop.events) = loop.events[1] /\ Head(loop.events) \in LoopEvents
      /\ Tail(loop.events) \in Seq(LoopEvents)
  BY <1>1, Rested
<1>3. PICK e \in LoopEvents : e = loop.events[1] /\ e = Head(loop.events) BY <1>2
<1>4. PICK r \in Runs : r = e[1] BY <1>3, ViewTyped, FoldFields
<1> DEFINE b == Run(bridge, r)
           s == FoldEvent(View(r), e)
<1>5. /\ UNCHANGED <<voice, call>> /\ bridge' = [b EXCEPT !.runs[r] = FoldEvent(@, e)]
      /\ loop' = [loop EXCEPT !.events = Tail(@)]
  BY <1>3, <1>4 DEF Watch
<1> HIDE DEF LoopEvents
<1>6. /\ loop' \in Loops /\ loop'.last = loop.last /\ loop'.active = loop.active
      /\ loop'.state = loop.state /\ loop'.entries = loop.entries /\ loop'.told = loop.told
      /\ loop'.events = Tail(loop.events)
  BY <1>1, <1>2, <1>5 DEF Loops
<1>7. /\ b \in Bridges /\ DOMAIN b.runs = DOMAIN bridge.runs \cup {r} /\ b.responding = bridge.responding
      /\ b.deferred = bridge.deferred /\ b.owes = bridge.owes
      /\ \A q \in DOMAIN bridge.runs \cup {r} : b.runs[q] = View(q)
  BY RunFields
<1>8. s \in RunStates BY ViewTyped, FoldFields
<1> DEFINE rs == [b.runs EXCEPT ![r] = s]
<1>9. bridge' = [b EXCEPT !.runs = rs]
  <2>1. b.runs[r] = View(r) BY <1>7
  <2> QED BY <1>5, <1>7, <2>1 DEF Bridges
<1> HIDE DEF s, b
<1>10. rs \in Books /\ DOMAIN rs = DOMAIN bridge.runs \cup {r} /\ rs[r] = s
       /\ \A q \in DOMAIN bridge.runs : q # r => rs[q] = View(q)
  <2>1. b.runs \in Books BY <1>7 DEF Bridges
  <2>2. PICK known \in SUBSET Runs : b.runs \in [known -> RunStates] BY <2>1 DEF Books
  <2>3. rs \in [known -> RunStates] BY <1>8, <2>2
  <2>4. rs \in Books BY <2>3 DEF Books
  <2> QED BY <1>7, <2>2, <2>4
<1> HIDE DEF rs, Books
<1>11. bridge' \in Bridges /\ SameFlags /\ bridge'.runs = rs
  BY <1>7, <1>9, <1>10 DEF Bridges, SameFlags
<1>12. \A q \in DOMAIN bridge.runs : View(q) = bridge.runs[q] BY DEF View
<1>13. Folded(e, r) BY <1>1, <1>3, <1>4, <1>5, <1>6, <1>10, <1>11, <1>12 DEF Folded, s
<1> QED BY <1>13

\* The events that are left, one place further on.
LEMMA FoldedShift ==
  ASSUME VoiceTyped, Historic, NEW e \in LoopEvents, NEW r \in Runs, Folded(e, r)
  PROVE  /\ \A i \in DOMAIN loop'.events : i \in Nat /\ i + 1 \in DOMAIN loop.events /\ i + 1 # 1
                                             /\ loop'.events[i] = loop.events[i + 1]
         /\ \A i \in DOMAIN loop.events : i \in Nat /\ (i # 1 => i - 1 \in DOMAIN loop'.events
                                             /\ loop'.events[i - 1] = loop.events[i])
         /\ Unwatched(1) /\ 1 \in DOMAIN loop.events /\ loop.events[1] = e
<1>1. loop.events \in Seq(LoopEvents) /\ loop.events # <<>> /\ loop'.events = Tail(loop.events)
  BY DEF VoiceTyped, Loops, Folded
<1>2. 1 \in DOMAIN loop.events /\ DOMAIN loop.events \subseteq Nat \ {0} /\ DOMAIN loop'.events \subseteq Nat \ {0}
  BY <1>1, Rested
<1>3. /\ \A i \in DOMAIN loop'.events : i + 1 \in DOMAIN loop.events /\ loop'.events[i] = loop.events[i + 1]
      /\ \A i \in DOMAIN loop.events : i # 1 => i - 1 \in DOMAIN loop'.events /\ loop'.events[i - 1] = loop.events[i]
  BY <1>1, Rested
<1>4. \A i \in DOMAIN loop'.events : i + 1 # 1 BY <1>2
<1> QED BY <1>2, <1>3, <1>4 DEF Historic, Folded

\* Reading an event changes nothing the run told.
LEMMA FoldedHistoric ==
  ASSUME VoiceTyped, Historic, NEW e \in LoopEvents, NEW r \in Runs, Folded(e, r)
  PROVE  Historic'
<1>1. /\ \A i \in DOMAIN loop'.events : i \in Nat /\ i + 1 \in DOMAIN loop.events /\ i + 1 # 1
                                             /\ loop'.events[i] = loop.events[i + 1]
      /\ \A i \in DOMAIN loop.events : i \in Nat /\ (i # 1 => i - 1 \in DOMAIN loop'.events
                                             /\ loop'.events[i - 1] = loop.events[i])
      /\ Unwatched(1) /\ 1 \in DOMAIN loop.events /\ loop.events[1] = e
  BY FoldedShift
<1>2. /\ loop'.last = loop.last /\ loop'.active = loop.active /\ loop'.state = loop.state
      /\ loop'.entries = loop.entries /\ loop'.told = loop.told /\ r = e[1]
      /\ DOMAIN bridge'.runs = DOMAIN bridge.runs \cup {r}
  BY DEF Folded
<1>3. r <= loop.last /\ r \in Nat /\ loop.last \in Nat /\ Runs \subseteq Nat
  BY <1>1, <1>2, RunsAre DEF Unwatched, VoiceTyped, Loops
<1>4. ASSUME NEW q \in Runs PROVE History(q)'
  <2>1. History(q) BY DEF Historic
  <2>2. q > loop.last => q # r BY <1>3
  <2> QED BY <1>2, <2>1, <2>2 DEF History, ToldOf
<1>5. ASSUME NEW i \in DOMAIN loop'.events PROVE Unwatched(i)'
  <2> DEFINE x == loop.events[i + 1]
             q == x[1]
  <2>1. i \in Nat /\ i + 1 \in DOMAIN loop.events /\ loop'.events[i] = x /\ Unwatched(i + 1)
    BY <1>1 DEF Historic
  <2>2. /\ q <= loop.last
        /\ x[2] = "entry" =>
             \/ x[3] = loop.entries[q]
             \/ \E j \in DOMAIN loop.events : j > i + 1 /\ loop.events[j] = <<q, "entry", loop.entries[q]>>
        /\ x[2] = "suspended" => \E n \in DOMAIN loop.told[q] : loop.told[q][n] = <<"suspended">>
        /\ x[2] = "settled" =>
             /\ \E n \in DOMAIN loop.told[q] : loop.told[q][n] = <<"settled", x[3]>>
             /\ \A j \in DOMAIN loop.events : loop.events[j][1] = q => j <= i + 1
    BY <2>1 DEF Unwatched, ToldOf
  <2> HIDE DEF x, q
  <2>3. ASSUME x[2] = "entry"
        PROVE  \/ x[3] = loop.entries[q]
               \/ \E j \in DOMAIN loop'.events : j > i /\ loop'.events[j] = <<q, "entry", loop.entries[q]>>
    <3>1. CASE \E j \in DOMAIN loop.events : j > i + 1 /\ loop.events[j] = <<q, "entry", loop.entries[q]>>
      <4>1. PICK j \in DOMAIN loop.events : j > i + 1 /\ loop.events[j] = <<q, "entry", loop.entries[q]>>
        BY <3>1
      <4>2. j \in Nat /\ j # 1 /\ j - 1 > i BY <1>1, <2>1, <4>1
      <4>3. j - 1 \in DOMAIN loop'.events /\ loop'.events[j - 1] = loop.events[j]
        BY <1>1, <4>2
      <4> QED BY <4>1, <4>2, <4>3
    <3> QED BY <2>2, <2>3, <3>1
  <2>4. ASSUME x[2] = "settled", NEW j \in DOMAIN loop'.events, loop'.events[j][1] = q
        PROVE  j <= i
    <3>1. j \in Nat /\ j + 1 \in DOMAIN loop.events /\ loop.events[j + 1][1] = q
      BY <1>1, <2>4
    <3>2. j + 1 <= i + 1 BY <2>2, <2>4, <3>1
    <3> QED BY <2>1, <3>1, <3>2
  <2>5. q = x[1] BY DEF q
  <2> QED BY <1>2, <2>1, <2>2, <2>3, <2>4, <2>5 DEF Unwatched, ToldOf
<1>6. Ongoing' BY <1>2 DEF Historic, Ongoing
<1> QED BY <1>4, <1>5, <1>6 DEF Historic

\* What was folded catches up by the event.
LEMMA FoldedFollowed ==
  ASSUME VoiceTyped, Historic, NEW e \in LoopEvents, NEW r \in Runs, Folded(e, r), NEW q \in Runs, Followed(q)
  PROVE  Followed(q)'
<1>1. /\ \A i \in DOMAIN loop'.events : i \in Nat /\ i + 1 \in DOMAIN loop.events /\ i + 1 # 1
                                             /\ loop'.events[i] = loop.events[i + 1]
      /\ \A i \in DOMAIN loop.events : i \in Nat /\ (i # 1 => i - 1 \in DOMAIN loop'.events
                                             /\ loop'.events[i - 1] = loop.events[i])
      /\ Unwatched(1) /\ 1 \in DOMAIN loop.events /\ loop.events[1] = e
  BY FoldedShift
<1>2. /\ loop'.state = loop.state /\ loop'.entries = loop.entries /\ loop'.told = loop.told /\ r = e[1]
      /\ DOMAIN bridge'.runs = DOMAIN bridge.runs \cup {r} /\ bridge'.runs[r] = FoldEvent(View(r), e)
      /\ \A x \in DOMAIN bridge.runs : x # r => bridge'.runs[x] = bridge.runs[x]
  BY DEF Folded
<1> DEFINE v == View(q)
<1>3. /\ v.answer = loop.entries[q] \/ \E i \in DOMAIN loop.events : loop.events[i] = <<q, "entry", loop.entries[q]>>
      /\ v.outcome # "none" =>
           /\ \E n \in DOMAIN loop.told[q] : loop.told[q][n] = <<"settled", v.outcome>>
           /\ v.reported /\ \A i \in DOMAIN loop.events : loop.events[i][1] # q
      /\ v.reported /\ v.outcome = "none" => \E n \in DOMAIN loop.told[q] : loop.told[q][n] = <<"suspended">>
      /\ loop.state[q] # "running" =>
           v.reported \/ \E i \in DOMAIN loop.events : loop.events[i][1] = q /\ loop.events[i][2] \in {"suspended", "settled"}
  BY DEF Followed, ToldOf, Coming
<1> HIDE DEF v
<1>4. CASE q # r
  <2>1. View(q)' = v BY <1>2, <1>4 DEF View, v
  <2>2. v.answer = loop.entries[q] \/ \E i \in DOMAIN loop'.events : loop'.events[i] = <<q, "entry", loop.entries[q]>>
    <3>1. \A i \in DOMAIN loop.events : loop.events[i] = <<q, "entry", loop.entries[q]>> => i # 1
      BY <1>1, <1>2, <1>4
    <3> QED BY <1>1, <1>3, <3>1
  <2>3. v.outcome # "none" => \A i \in DOMAIN loop'.events : loop'.events[i][1] # q
    BY <1>1, <1>3
  <2>4. loop.state[q] # "running" =>
           v.reported \/ \E i \in DOMAIN loop'.events : loop'.events[i][1] = q /\ loop'.events[i][2] \in {"suspended", "settled"}
    <3>1. \A i \in DOMAIN loop.events : loop.events[i][1] = q => i # 1 BY <1>1, <1>2, <1>4
    <3> QED BY <1>1, <1>3, <3>1
  <2> QED BY <1>2, <1>3, <2>1, <2>2, <2>3, <2>4 DEF Followed, ToldOf, Coming
<1>5. CASE q = r
  <2> DEFINE s == FoldEvent(v, e)
  <2>1. View(q)' = s BY <1>2, <1>5 DEF View, v
  <2>2. \/ e[2] = "entry" /\ s.answer = e[3] /\ s.outcome = v.outcome /\ s.reported = v.reported
               /\ e = <<e[1], "entry", e[3]>>
        \/ e[2] = "suspended" /\ s.answer = v.answer /\ s.outcome = v.outcome /\ s.reported
               /\ e = <<e[1], "suspended">>
        \/ e[2] = "settled" /\ s.answer = v.answer /\ s.outcome = e[3] /\ s.reported
               /\ e = <<e[1], "settled", e[3]>>
    BY ViewTyped, FoldFields DEF v
  <2> HIDE DEF s
  <2>3. v.outcome = "none" BY <1>1, <1>2, <1>3, <1>5
  <2>4. /\ e[2] = "entry" =>
             \/ e[3] = loop.entries[q]
             \/ \E j \in DOMAIN loop.events : j > 1 /\ loop.events[j] = <<q, "entry", loop.entries[q]>>
        /\ e[2] = "suspended" => \E n \in DOMAIN loop.told[q] : loop.told[q][n] = <<"suspended">>
        /\ e[2] = "settled" =>
             /\ \E n \in DOMAIN loop.told[q] : loop.told[q][n] = <<"settled", e[3]>>
             /\ \A j \in DOMAIN loop.events : loop.events[j][1] = q => j <= 1
    BY <1>1, <1>2, <1>5 DEF Unwatched, ToldOf
  <2>5. ASSUME NEW i \in DOMAIN loop.events, i # 1
        PROVE  \E j \in DOMAIN loop'.events : loop'.events[j] = loop.events[i]
    BY <1>1, <2>5
  <2>6. CASE e[2] = "entry"
    <3>1. s.answer = loop.entries[q] \/ \E i \in DOMAIN loop'.events : loop'.events[i] = <<q, "entry", loop.entries[q]>>
      <4>1. CASE e[3] = loop.entries[q] BY <2>2, <2>6, <4>1
      <4>2. CASE \E j \in DOMAIN loop.events : j > 1 /\ loop.events[j] = <<q, "entry", loop.entries[q]>>
        <5>1. PICK j \in DOMAIN loop.events : j > 1 /\ loop.events[j] = <<q, "entry", loop.entries[q]>>
          BY <4>2
        <5>2. j # 1 BY <1>1, <5>1
        <5> QED BY <2>5, <5>1, <5>2
      <4> QED BY <2>4, <2>6, <4>1, <4>2
    <3>2. s.outcome = "none" /\ s.reported = v.reported BY <2>2, <2>3, <2>6
    <3>3. loop.state[q] # "running" =>
           s.reported \/ \E i \in DOMAIN loop'.events : loop'.events[i][1] = q /\ loop'.events[i][2] \in {"suspended", "settled"}
      <4>1. SUFFICES ASSUME NEW i \in DOMAIN loop.events, loop.events[i][1] = q,
                            loop.events[i][2] \in {"suspended", "settled"}
                     PROVE  \E j \in DOMAIN loop'.events : loop'.events[j][1] = q
                                 /\ loop'.events[j][2] \in {"suspended", "settled"}
        BY <1>3, <3>2
      <4>2. i # 1 BY <1>1, <2>6, <4>1
      <4> QED BY <2>5, <4>1, <4>2
    <3> QED BY <1>2, <1>3, <2>1, <2>3, <3>1, <3>2, <3>3 DEF Followed, ToldOf, Coming
  <2>7. CASE e[2] = "suspended"
    <3>1. s.answer = loop.entries[q] \/ \E i \in DOMAIN loop'.events : loop'.events[i] = <<q, "entry", loop.entries[q]>>
      <4>1. CASE v.answer = loop.entries[q] BY <2>2, <2>7, <4>1
      <4>2. CASE \E i \in DOMAIN loop.events : loop.events[i] = <<q, "entry", loop.entries[q]>>
        <5>1. PICK i \in DOMAIN loop.events : loop.events[i] = <<q, "entry", loop.entries[q]>>
          BY <4>2
        <5>2. i # 1 BY <1>1, <2>7, <5>1
        <5> QED BY <2>5, <5>1, <5>2
      <4> QED BY <1>3, <4>1, <4>2
    <3>2. s.outcome = "none" /\ s.reported BY <2>2, <2>3, <2>7
    <3> QED BY <1>2, <2>1, <2>4, <2>7, <3>1, <3>2 DEF Followed, ToldOf, Coming
  <2>8. CASE e[2] = "settled"
    <3>1. s.answer = loop.entries[q]
      <4>1. ASSUME NEW i \in DOMAIN loop.events, loop.events[i] = <<q, "entry", loop.entries[q]>> PROVE FALSE
        <5>1. i # 1 BY <1>1, <2>8, <4>1
        <5>2. i - 1 \in DOMAIN loop'.events /\ i \in Nat /\ i <= 1
          BY <1>1, <2>4, <2>8, <4>1, <5>1
        <5>3. i - 1 \in Nat /\ (i - 1) + 1 # 1 BY <1>1, <5>2
        <5>4. i = 0 BY <5>1, <5>2
        <5> QED BY <5>3, <5>4
      <4> QED BY <1>3, <2>2, <2>8, <4>1
    <3>2. s.outcome = e[3] /\ s.reported BY <2>2, <2>8
    <3>3. \A i \in DOMAIN loop'.events : loop'.events[i][1] # q
      <4>1. ASSUME NEW i \in DOMAIN loop'.events, loop'.events[i][1] = q PROVE FALSE
        <5>1. i \in Nat /\ i + 1 \in DOMAIN loop.events /\ i + 1 # 1 /\ loop.events[i + 1][1] = q
          BY <1>1, <4>1
        <5>2. i + 1 <= 1 BY <2>4, <2>8, <5>1
        <5> QED BY <5>1, <5>2
      <4> QED BY <4>1
    <3>4. e[3] # "none"
      <4>1. e[3] \in Outcomes BY <2>8 DEF LoopEvents
      <4> QED BY <4>1 DEF Outcomes
    <3> QED BY <1>2, <2>1, <2>4, <2>8, <3>1, <3>2, <3>3, <3>4 DEF Followed, ToldOf, Coming
  <2> QED BY <2>2, <2>6, <2>7, <2>8
<1> QED BY <1>4, <1>5

\* The watcher folds an event.
LEMMA WatchKeeps ==
  ASSUME VoiceInv, Watch
  PROVE  VoiceInv'
<1>1. VoiceTyped /\ Outputted /\ CallsAskedOnce /\ Spoken /\ Waited /\ Historic /\ Counted
  BY DEF VoiceInv
<1>2. PICK e \in LoopEvents, r \in Runs : Folded(e, r) BY <1>1, WatchFolds
<1>3. /\ UNCHANGED <<voice, call>> /\ bridge' \in Bridges /\ SameFlags /\ loop' \in Loops
      /\ loop'.last = loop.last /\ loop'.active = loop.active /\ loop'.told = loop.told
      /\ DOMAIN bridge'.runs = DOMAIN bridge.runs \cup {r}
  BY <1>2 DEF Folded
<1>4. VoiceTyped' BY <1>1, <1>3 DEF VoiceTyped
<1>5. FreshStay /\ AskedStay /\ SpeakersStay BY <1>3 DEF FreshStay, AskedStay, SpeakersStay
<1>6. Counted' /\ CallsAskedOnce' /\ Spoken'
  BY <1>1, <1>3, <1>5, CountedKept, AskedOnceKept, SpokenApart
<1>7. Historic' BY <1>1, <1>2, FoldedHistoric
<1>8. \A q \in Runs : Followed(q) => Followed(q)' BY <1>1, <1>2, FoldedFollowed
<1>9. Waited' BY <1>1, <1>3, <1>8 DEF Waited, Tracked
<1>10. Outputted' BY <1>1, <1>3 DEF Outputted
<1> QED BY <1>4, <1>6, <1>7, <1>9, <1>10 DEF VoiceInv

-----------------------------------------------------------------------------
\* No call has been made.
LEMMA BridgeInitTyped == BridgeInit => VoiceTyped
<1> SUFFICES ASSUME BridgeInit PROVE VoiceTyped
  OBVIOUS
<1>1. Cardinality(ToolCalls) \in Nat BY RunsAre
<1>2. voice \in Voices
  <2>1. <<>> \in Seq(VoiceEvents)
    OBVIOUS
  <2> HIDE DEF VoiceEvents
  <2> QED BY <2>1 DEF BridgeInit, Voices
<1>3. bridge \in Bridges
  <2>1. <<>> \in [{} -> RunStates] /\ {} \in SUBSET Runs
    OBVIOUS
  <2>2. <<>> \in Books BY <2>1 DEF Books
  <2> HIDE DEF Books
  <2> QED BY <2>2 DEF BridgeInit, Bridges
<1>4. call \in [ToolCalls -> Calls] /\ \A c \in ToolCalls : call[c].run = 0
  <2>1. [pc |-> "none", run |-> 0, output |-> <<>>] \in Calls BY DEF Calls, Pcs, Spoke
  <2> HIDE DEF Calls
  <2> QED BY <2>1 DEF BridgeInit
<1>5. loop \in Loops /\ loop.active = 0 /\ loop.last = 0
  <2>1. <<>> \in Seq(LoopEvents) /\ <<>> \in Seq(Told)
    OBVIOUS
  <2>2. [r \in Runs |-> <<>>] \in [Runs -> Seq(Told)] /\ [r \in Runs |-> 0] \in [Runs -> Nat]
        /\ [r \in Runs |-> "none"] \in [Runs -> {"none", "running", "suspended", "settled"}]
    BY <2>1
  <2> HIDE DEF LoopEvents, Told
  <2> QED BY <2>1, <2>2 DEF BridgeInit, Loops
<1> QED BY <1>1, <1>2, <1>3, <1>4, <1>5 DEF VoiceTyped

LEMMA InitVoiceInv == BridgeInit => VoiceInv
<1> SUFFICES ASSUME BridgeInit PROVE VoiceInv
  OBVIOUS
<1>1. VoiceTyped BY BridgeInitTyped
<1>2. /\ voice.events = <<>> /\ voice.told = {} /\ bridge.responding = FALSE /\ bridge.deferred = FALSE
      /\ DOMAIN bridge.runs = {} /\ loop.events = <<>> /\ loop.active = 0 /\ loop.last = 0
      /\ \A c \in ToolCalls : call[c].pc = "none" /\ call[c].output = <<>>
      /\ \A r \in Runs : loop.told[r] = <<>> /\ loop.entries[r] = 0
  BY DEF BridgeInit
<1>3. DOMAIN voice.events = {} /\ DOMAIN loop.events = {} /\ \A r \in Runs : DOMAIN loop.told[r] = {}
  BY <1>2
<1>4. Counted
  <2>1. Fresh \subseteq ToolCalls BY DEF Fresh
  <2>2. Cardinality(Fresh) <= Cardinality(ToolCalls) BY <2>1, BridgeAssumption, FS_Subset
  <2>3. Cardinality(Fresh) \in Nat BY FreshFinite
  <2> QED BY <1>2, <2>2, <2>3 DEF Counted
<1>5. CallsAskedOnce BY <1>3 DEF CallsAskedOnce
<1>6. Spoken BY <1>2, <1>3 DEF Spoken, StartsEnd, ResponseGoesOn, ResultsAreDue
<1>7. Historic BY <1>2, <1>3 DEF Historic, History, Ongoing
<1>8. Waited /\ Outputted BY <1>2 DEF Waited, Tracked, Outputted
<1> QED BY <1>1, <1>4, <1>5, <1>6, <1>7, <1>8 DEF VoiceInv

LEMMA VoiceStutters ==
  ASSUME VoiceInv, UNCHANGED bridgeVars
  PROVE  VoiceInv'
<1>1. VoiceTyped /\ Outputted /\ CallsAskedOnce /\ Spoken /\ voice' \in Voices /\ bridge' \in Bridges
  BY DEF VoiceInv, VoiceTyped, bridgeVars
<1>2. UNCHANGED <<voice, bridge, call, loop>> BY DEF bridgeVars
<1>3. CallsGo /\ FreshStay /\ AskedStay /\ call' \in [ToolCalls -> Calls]
      /\ \A d \in ToolCalls : call'[d].run <= loop.last
  BY <1>1, <1>2, SameGo
<1>4. SameFlags /\ SpeakersStay BY <1>2 DEF SameFlags, SpeakersStay
<1>5. VoiceTyped' /\ Counted' /\ Historic' /\ Waited' /\ Outputted'
  BY <1>1, <1>2, <1>3, ApartKeeps
<1>6. CallsAskedOnce' /\ Spoken' BY <1>1, <1>2, <1>3, <1>4, AskedOnceKept, SpokenApart
<1> QED BY <1>5, <1>6 DEF VoiceInv

\* Every step keeps the invariant.
LEMMA StepKeepsVoiceInv == VoiceInv /\ [BridgeNext]_bridgeVars => VoiceInv'
<1> SUFFICES ASSUME VoiceInv, [BridgeNext]_bridgeVars PROVE VoiceInv'
  OBVIOUS
<1>1. VoiceTyped /\ Historic BY DEF VoiceInv
<1>2. CASE VoiceStarts \/ VoiceEnds \/ Recv \/ LoopAsks \/ Watch
  BY <1>2, VoiceStartsKeeps, VoiceEndsKeeps, RecvKeeps, LoopAsksKeeps, WatchKeeps
<1>3. ASSUME NEW c \in ToolCalls,
             \/ VoiceCalls(c) \/ Refuse(c) \/ DispatchStart(c) \/ DispatchBusy(c)
             \/ Snapshot(c) \/ Steer(c) \/ Await(c) \/ Ready(c) \/ SendResult(c)
             \/ Respond(c) \/ Ask(c)
      PROVE  VoiceInv'
  BY <1>3, VoiceCallsKeeps, RefuseKeeps, DispatchStartKeeps, DispatchBusyKeeps, SnapshotKeeps, SteerKeeps,
     AwaitKeeps, ReadyKeeps, SendResultKeeps, RespondKeeps, AskKeeps
<1>4. CASE LoopCommits \/ LoopSuspends
  BY <1>1, <1>4, LoopCommitsEmits, LoopSuspendsEmits, EmittedKeeps
<1>5. ASSUME NEW o \in Outcomes, LoopSettles(o) PROVE VoiceInv'
  BY <1>1, <1>5, LoopSettlesEmits, EmittedKeeps
<1>6. CASE UNCHANGED bridgeVars BY <1>6, VoiceStutters
<1> QED BY <1>2, <1>3, <1>4, <1>5, <1>6 DEF BridgeNext, Outcomes

\* The invariant says what the run checks.
LEMMA VoiceInvIsEnough == VoiceInv => VoiceIsCoherent
<1> SUFFICES ASSUME VoiceInv PROVE VoiceIsCoherent
  OBVIOUS
<1>1. Spoken /\ Waited /\ Outputted BY DEF VoiceInv
<1>2. OutputIsOfItsRun
  <2>1. ASSUME NEW c \in ToolCalls, call[c].output # <<>>
        PROVE  \/ call[c].output[1] \in {"refused", "busy", "added"}
               \/ call[c].output \in Reports(loop.told[call[c].run])
    BY <1>1, <2>1 DEF Outputted
  <2>2. ASSUME NEW c \in ToolCalls, call[c].pc = "waiting", loop.events = <<>>, loop.state[call[c].run] # "running"
        PROVE  bridge.runs[call[c].run].reported
    <3>1. PICK r \in Runs : call[c].run = r /\ Followed(r) BY <1>1, <2>2 DEF Waited, Tracked
    <3>2. r \in DOMAIN bridge.runs BY <1>1, <2>2, <3>1 DEF Waited
    <3>3. ~Coming(r, {"suspended", "settled"})
      <4>1. DOMAIN loop.events = {} BY <2>2
      <4> QED BY <4>1 DEF Coming
    <3>4. View(r).reported BY <2>2, <3>1, <3>3 DEF Followed
    <3> QED BY <3>1, <3>2, <3>4 DEF View
  <2> QED BY <2>1, <2>2 DEF OutputIsOfItsRun, Stands
<1>3. ResultsAreSpoken
  <2>1. SUFFICES ASSUME Quiet, ~voice.rejected PROVE voice.told \subseteq voice.heard
    BY DEF ResultsAreSpoken
  <2>2. DOMAIN voice.events = {} /\ ~voice.speaking /\ ~bridge.owes BY <2>1 DEF Quiet
  <2>3. ~SomeoneAt({"ask"}) /\ ~SomeoneAt({"respond", "ask"}) /\ ~EndIsAhead(0)
    BY <2>1, <2>2 DEF Quiet, SomeoneAt, EndIsAhead
  <2> QED BY <1>1, <2>1, <2>2, <2>3 DEF Spoken, ResponseGoesOn, ResultsAreDue
<1> QED BY <1>2, <1>3 DEF VoiceIsCoherent

\* In every voice call, however the watcher, the receive loop and the goroutines
\* of the calls interleave: a delegate call is answered with an outcome its own
\* run had and the last answer before it, is woken when that run ends, and no
\* tool result is left unspoken unless the provider rejected the request.
THEOREM VoiceCoheres == BridgeSpec => []VoiceIsCoherent
<1>1. BridgeSpec => []VoiceInv BY InitVoiceInv, StepKeepsVoiceInv, PTL DEF BridgeSpec
<1> QED BY <1>1, VoiceInvIsEnough, PTL

-----------------------------------------------------------------------------
(***************************************************************************)
(* Posts that are retried.  A delay doubles until it is four seconds, as   *)
(* long as the powers of two fit, and a wait is within a quarter of what   *)
(* the server or the delay asks; everything else about a post follows from *)
(* how many answers and waits there are at each step, RetryInv.            *)
(***************************************************************************)
\* A nonempty set of numbers has a least one.
LEMMA LeastNumber ==
  ASSUME NEW I \in SUBSET Nat, I # {}
  PROVE  \E n \in I : \A m \in I : n <= m
<1> DEFINE R == OpToRel(<, Nat)
<1>1. IsWellFoundedOn(R, Nat) BY NatLessThanWellFounded
<1>2. PICK n \in I : \A m \in I : ~(<<m, n>> \in R)
  <2> HIDE DEF R
  <2> QED BY <1>1, WFMin
<1>3. \A m \in I : n <= m
  <2> SUFFICES ASSUME NEW m \in I PROVE ~(m < n)
    OBVIOUS
  <2>1. n \in Nat /\ m \in Nat /\ ~(<<m, n>> \in R) BY <1>2
  <2> QED BY <2>1 DEF OpToRel
<1> QED BY <1>3

IsPowers(f, n) == f = [k \in 0..n |-> IF k = 0 THEN 1 ELSE 2 * f[k - 1]]

\* The first powers of two are a function, so Power is its last value.
LEMMA PowersExist ==
  ASSUME NEW n \in Nat
  PROVE  \E f : IsPowers(f, n)
<1> DEFINE Bad == {k \in Nat : ~\E f : IsPowers(f, k)}
<1>1. SUFFICES ASSUME Bad # {} PROVE FALSE
  OBVIOUS
<1>2. PICK k \in Bad : \A m \in Bad : k <= m
  <2>1. Bad \in SUBSET Nat
    OBVIOUS
  <2> HIDE DEF Bad
  <2> QED BY <1>1, <2>1, LeastNumber
<1>3. CASE k = 0
  <2> DEFINE f == [i \in 0..0 |-> 1]
  <2>1. IsPowers(f, 0) BY DEF IsPowers
  <2> HIDE DEF f
  <2> QED BY <1>2, <1>3, <2>1
<1>4. CASE k # 0
  <2>1. k \in Nat /\ k - 1 \in Nat /\ k - 1 \notin Bad BY <1>2, <1>4
  <2>2. PICK g : IsPowers(g, k - 1) BY <2>1
  <2> DEFINE f == [i \in 0..k |-> IF i = k THEN 2 * g[k - 1] ELSE g[i]]
  <2>3. \A i \in 0..k : f[i] = IF i = 0 THEN 1 ELSE 2 * f[i - 1]
    <3> TAKE i \in 0..k
    <3>1. CASE i = k BY <1>4, <2>1, <3>1
    <3>2. CASE i # k
      <4>1. i \in 0..(k - 1) /\ (i # 0 => i - 1 \in 0..(k - 1) /\ i - 1 \in 0..k /\ i - 1 # k)
        BY <2>1, <3>2
      <4>2. g[i] = IF i = 0 THEN 1 ELSE 2 * g[i - 1] BY <2>2, <4>1 DEF IsPowers
      <4>3. f[i] = g[i] /\ (i # 0 => f[i - 1] = g[i - 1]) BY <3>2, <4>1
      <4> HIDE DEF f
      <4> QED BY <4>2, <4>3
    <3> QED BY <3>1, <3>2
  <2>4. IsPowers(f, k)
    <3>1. f = [i \in 0..k |-> f[i]]
      OBVIOUS
    <3> HIDE DEF f
    <3> QED BY <2>3, <3>1 DEF IsPowers
  <2> HIDE DEF f
  <2> QED BY <1>2, <2>4
<1> QED BY <1>3, <1>4

\* However many of them are listed, they are the same.
LEMMA PowersAgree ==
  ASSUME NEW f, NEW g, NEW n \in Nat, NEW m \in Nat, IsPowers(f, n), IsPowers(g, m)
  PROVE  \A k \in Nat : k <= n /\ k <= m => f[k] = g[k]
<1> DEFINE Bad == {k \in Nat : k <= n /\ k <= m /\ f[k] # g[k]}
<1>1. SUFFICES ASSUME Bad # {} PROVE FALSE
  OBVIOUS
<1>2. PICK k \in Bad : \A i \in Bad : k <= i
  <2>1. Bad \in SUBSET Nat
    OBVIOUS
  <2> HIDE DEF Bad
  <2> QED BY <1>1, <2>1, LeastNumber
<1>3. k \in Nat /\ k \in 0..n /\ k \in 0..m /\ f[k] # g[k] BY <1>2
<1>4. f[k] = (IF k = 0 THEN 1 ELSE 2 * f[k - 1]) /\ g[k] = (IF k = 0 THEN 1 ELSE 2 * g[k - 1])
  BY <1>3 DEF IsPowers
<1>5. CASE k = 0 BY <1>3, <1>4, <1>5
<1>6. CASE k # 0
  <2>1. k - 1 \in Nat /\ k - 1 <= n /\ k - 1 <= m /\ ~(k <= k - 1) BY <1>3, <1>6
  <2>2. k - 1 \notin Bad BY <1>2, <2>1
  <2>3. f[k - 1] = g[k - 1] BY <2>1, <2>2
  <2> HIDE DEF Bad
  <2> QED BY <1>3, <1>4, <1>6, <2>3
<1> QED BY <1>5, <1>6

\* Each power is twice the one before.
LEMMA PowerSteps ==
  /\ Power(0) = 1
  /\ \A n \in Nat : Power(n + 1) = 2 * Power(n)
<1>1. ASSUME NEW n \in Nat
      PROVE  \E f : IsPowers(f, n) /\ Power(n) = f[n]
  <2> DEFINE f == CHOOSE f : IsPowers(f, n)
  <2>1. IsPowers(f, n) BY PowersExist
  <2>2. Power(n) = f[n] BY DEF Power, IsPowers
  <2> HIDE DEF f
  <2> QED BY <2>1, <2>2
<1>2. Power(0) = 1
  <2>1. PICK f : IsPowers(f, 0) /\ Power(0) = f[0] BY <1>1
  <2> QED BY <2>1 DEF IsPowers
<1>3. ASSUME NEW n \in Nat
      PROVE  Power(n + 1) = 2 * Power(n)
  <2>1. PICK f : IsPowers(f, n) /\ Power(n) = f[n] BY <1>1
  <2>2. PICK g : IsPowers(g, n + 1) /\ Power(n + 1) = g[n + 1] BY <1>1
  <2>3. f[n] = g[n] BY <2>1, <2>2, PowersAgree
  <2>4. g[n + 1] = 2 * g[n]
    <3>1. n + 1 \in 0..(n + 1) /\ n + 1 # 0 /\ (n + 1) - 1 = n
      OBVIOUS
    <3>2. g[n + 1] = IF n + 1 = 0 THEN 1 ELSE 2 * g[(n + 1) - 1] BY <2>2, <3>1 DEF IsPowers
    <3> QED BY <3>1, <3>2
  <2> QED BY <2>1, <2>2, <2>3, <2>4
<1> QED BY <1>2, <1>3

\* Powers are positive and grow.
LEMMA PowerGrows ==
  /\ \A n \in Nat : Power(n) \in Nat /\ Power(n) > 0
  /\ \A n \in Nat, m \in Nat : n < m => Power(n) < Power(m)
<1>1. \A n \in Nat : Power(n) \in Nat /\ Power(n) > 0
  <2> DEFINE Bad == {k \in Nat : ~(Power(k) \in Nat /\ Power(k) > 0)}
  <2>1. SUFFICES ASSUME Bad # {} PROVE FALSE
    OBVIOUS
  <2>2. PICK k \in Bad : \A i \in Bad : k <= i
    <3>1. Bad \in SUBSET Nat
      OBVIOUS
    <3> HIDE DEF Bad
    <3> QED BY <2>1, <3>1, LeastNumber
  <2>3. k # 0 BY <2>2, PowerSteps
  <2>4. k - 1 \in Nat /\ (k - 1) + 1 = k /\ ~(k <= k - 1) BY <2>2, <2>3
  <2>5. Power(k - 1) \in Nat /\ Power(k - 1) > 0 BY <2>2, <2>4
  <2>6. Power(k) = 2 * Power(k - 1) BY <2>4, PowerSteps
  <2>7. Power(k) \in Nat /\ Power(k) > 0 BY <2>5, <2>6
  <2> QED BY <2>2, <2>7
<1>2. ASSUME NEW n \in Nat, NEW m \in Nat, n < m
      PROVE  Power(n) < Power(m)
  <2> DEFINE Bad == {k \in Nat : n < k /\ ~(Power(n) < Power(k))}
  <2>1. SUFFICES ASSUME Bad # {} PROVE FALSE BY <1>2
  <2>2. PICK k \in Bad : \A i \in Bad : k <= i
    <3>1. Bad \in SUBSET Nat
      OBVIOUS
    <3> HIDE DEF Bad
    <3> QED BY <2>1, <3>1, LeastNumber
  <2>3. k - 1 \in Nat /\ (k - 1) + 1 = k /\ ~(k <= k - 1) /\ n <= k - 1 BY <2>2
  <2>4. k - 1 = n \/ Power(n) < Power(k - 1) BY <2>2, <2>3
  <2>5. Power(k) = 2 * Power(k - 1) BY <2>3, PowerSteps
  <2>6. Power(k - 1) \in Nat /\ Power(k - 1) > 0 /\ Power(n) \in Nat BY <1>1, <2>3
  <2>7. Power(n) < Power(k) BY <2>4, <2>5, <2>6
  <2> QED BY <2>2, <2>7
<1> QED BY <1>1, <1>2

\* What fits a Duration is not changed by its width.
LEMMA FitsIsKept ==
  ASSUME NEW n \in Nat, NEW m \in Nat, n < m
  PROVE  n % m = n
OBVIOUS

Delay(attempt) == IF retryDelay(attempt) <= 0 THEN 0 ELSE retryDelay(attempt)

\* Multiplying keeps the order.
LEMMA TimesGrows ==
  ASSUME NEW a \in Nat, NEW b \in Nat, NEW c \in Nat, a <= b
  PROVE  a * c \in Nat /\ b * c \in Nat /\ a * c <= b * c
<1>1. a * c \in Nat /\ b * c \in Nat /\ (b - a) * c \in Nat /\ (b - a) * c = b * c - a * c
  OBVIOUS
<1> QED BY <1>1

\* A delay is at most four seconds, whatever wraps.
LEMMA DelayIsBounded ==
  ASSUME NEW n \in Nat
  PROVE  Delay(n) \in 0..longest
<1>1. /\ Power(Bits) \in Nat /\ Power(Bits) > 0 /\ Power(n) \in Nat /\ Second \in Nat
      /\ Power(Bits - 1) \in Nat
  BY PowerGrows, RetryAssumption
<1> DEFINE product == Power(n) * Second
<1>2. product \in Nat BY <1>1, TimesGrows
<1> HIDE DEF product
<1>3. product % Power(Bits) \in Int BY <1>1, <1>2
<1>4. Wrapped(product) \in Int BY <1>1, <1>3 DEF Wrapped
<1>5. retryDelay(n) = IF Wrapped(product) > longest THEN longest ELSE Wrapped(product)
  BY DEF retryDelay, product
<1> HIDE DEF Wrapped
<1> QED BY <1>1, <1>4, <1>5 DEF Delay, longest

\* The seconds that the retries double to fit a Duration.
DurationsFit == Power(MaxRetries) * Second < Power(Bits - 1)

\* Then a delay is between one second and four, and not shorter than an earlier
\* one.
LEMMA DelayGrows ==
  ASSUME DurationsFit, NEW n \in Nat, n < MaxRetries
  PROVE  /\ Delay(n) \in Second..longest
         /\ \A m \in Nat : m < n => Delay(m) <= Delay(n)
<1>1. /\ MaxRetries \in Nat /\ Bits \in Nat /\ Bits - 1 \in Nat /\ Bits - 1 < Bits
      /\ Second \in Nat /\ Second > 0
  BY RetryAssumption
<1>2. ASSUME NEW k \in Nat, k < MaxRetries
      PROVE  /\ Power(k) * Second \in Nat /\ Power(k) * Second >= Second
             /\ Delay(k) = IF Power(k) * Second > longest THEN longest ELSE Power(k) * Second
  <2>1. /\ Power(k) \in Nat /\ Power(k) > 0 /\ Power(MaxRetries) \in Nat /\ Power(k) < Power(MaxRetries)
        /\ Power(Bits) \in Nat /\ Power(Bits - 1) \in Nat /\ Power(Bits - 1) < Power(Bits)
    BY <1>1, <1>2, PowerGrows
  <2>2. /\ Power(k) * Second \in Nat /\ Power(MaxRetries) * Second \in Nat
        /\ Power(k) * Second <= Power(MaxRetries) * Second
    BY <1>1, <2>1, TimesGrows
  <2>3. Power(k) * Second >= Second
    <3>1. 1 * Second <= Power(k) * Second BY <1>1, <2>1, TimesGrows
    <3> QED BY <1>1, <2>2, <3>1
  <2> DEFINE product == Power(k) * Second
  <2>4. product \in Nat /\ product >= Second /\ product < Power(Bits - 1) /\ product < Power(Bits)
    BY <2>1, <2>2, <2>3 DEF DurationsFit
  <2>5. Delay(k) = IF retryDelay(k) <= 0 THEN 0 ELSE retryDelay(k) BY DEF Delay
  <2>6. retryDelay(k) = IF Wrapped(product) > longest THEN longest ELSE Wrapped(product)
    BY DEF retryDelay
  <2> HIDE DEF product
  <2>7. product % Power(Bits) = product BY <2>1, <2>4, FitsIsKept
  <2>8. Wrapped(product) = product BY <2>1, <2>4, <2>7 DEF Wrapped
  <2>9. Delay(k) = IF product > longest THEN longest ELSE product
    BY <1>1, <2>4, <2>5, <2>6, <2>8 DEF longest
  <2> QED BY <2>4, <2>9 DEF product
<1>3. Delay(n) \in Second..longest
  <2> DEFINE product == Power(n) * Second
  <2>1. product \in Nat /\ product >= Second /\ Delay(n) = IF product > longest THEN longest ELSE product
    BY <1>2
  <2> HIDE DEF product
  <2> QED BY <1>1, <2>1 DEF longest
<1>4. ASSUME NEW m \in Nat, m < n
      PROVE  Delay(m) <= Delay(n)
  <2> DEFINE first == Power(m) * Second
             second == Power(n) * Second
  <2>1. m < MaxRetries BY <1>1, <1>4
  <2>2. /\ first \in Nat /\ Delay(m) = IF first > longest THEN longest ELSE first
        /\ second \in Nat /\ Delay(n) = IF second > longest THEN longest ELSE second
    BY <1>2, <2>1
  <2>3. first <= second BY <1>1, <1>4, PowerGrows, TimesGrows
  <2> HIDE DEF first, second
  <2> QED BY <1>1, <2>2, <2>3 DEF longest
<1> QED BY <1>3, <1>4

RetryAnswers == [status : Statuses, body : Bodies, after : RetryAfters]
Logs == Seq(RetryAnswers)
RetryWaits == [after : RetryAfters, wait : Nat]
Waits == Seq(RetryWaits)
Posts ==
  [pc : {"do", "read", "sleep", "returned"}, client : Clients, attempt : Nat, cancelled : BOOLEAN,
   log : Logs, waits : Waits,
   result : {"none", "context", "transport", "read", "oversize", "payload", "api"}]

\* what the server asked before the n-th wait, or else the delay
ServerAsks(n, after) == IF after = "none" THEN Delay(n - 1) ELSE parseRetryAfter(after)
WaitFits(n, after, wait, jitters) ==
  /\ wait >= ServerAsks(n, after) /\ wait <= ServerAsks(n, after) + ServerAsks(n, after) \div 4
  /\ ~jitters => wait = ServerAsks(n, after)

\* an attempt has at most one answer, and a wait follows each but the last
AttemptsCounted ==
  /\ post.attempt <= MaxRetries /\ (post.pc = "sleep" => post.attempt < MaxRetries)
  /\ Len(post.log) <= post.attempt + (IF post.pc = "do" THEN 0 ELSE 1)
  /\ post.pc = "read" => post.log # <<>>
  /\ Len(post.waits) <= MaxRetries
  /\ post.pc # "returned" => Len(post.waits) = post.attempt + (IF post.pc = "sleep" THEN 1 ELSE 0)
Answered ==
  /\ \A n \in DOMAIN post.log : n < Len(post.log) \/ post.pc \in {"do", "sleep"} => Transient(post.log[n])
  /\ post.pc # "returned" => post.result = "none"
Concluded ==
  /\ post.result = "payload" => Last(post.log).status = "200" /\ Readable(Last(post.log))
  /\ post.result \in {"api", "transport"} =>
       post.attempt = MaxRetries \/ (post.result = "api" /\ ~Transient(Last(post.log)))
  /\ post.result = "context" => post.cancelled
WaitsFit ==
  \A n \in DOMAIN post.waits :
    WaitFits(n, post.waits[n].after, post.waits[n].wait, post.client.jitters)

RetryInv == post \in Posts /\ AttemptsCounted /\ Answered /\ Concluded /\ WaitsFit

\* A post begins with the first attempt and no answer.
LEMMA InitRetryInv == RetryInit => RetryInv
<1> SUFFICES ASSUME RetryInit PROVE RetryInv
  OBVIOUS
<1>1. /\ post.pc = "do" /\ post.client \in Clients /\ post.attempt = 0 /\ post.cancelled \in BOOLEAN
      /\ post.log = <<>> /\ post.waits = <<>> /\ post.result = "none"
  BY DEF RetryInit
<1>2. post \in Posts
  <2>1. <<>> \in Logs /\ <<>> \in Waits BY DEF Logs, Waits
  <2>2. post = [pc |-> post.pc, client |-> post.client, attempt |-> post.attempt, cancelled |-> post.cancelled,
                log |-> post.log, waits |-> post.waits, result |-> post.result]
    BY DEF RetryInit
  <2> QED BY <1>1, <2>1, <2>2 DEF Posts
<1> QED BY <1>1, <1>2, RetryAssumption DEF RetryInv, AttemptsCounted, Answered, Concluded, WaitsFit

\* Jitter lengthens a wait by a quarter at most.
LEMMA JitterIsAQuarter ==
  ASSUME NEW d \in Nat, NEW wait \in withJitter(d)
  PROVE  wait \in Nat /\ wait >= d /\ wait <= d + d \div 4
<1>1. d \div 4 \in Nat
  OBVIOUS
<1>2. CASE d <= 0 BY <1>1, <1>2 DEF withJitter
<1>3. CASE ~(d <= 0) BY <1>1, <1>3 DEF withJitter
<1> QED BY <1>2, <1>3

\* A wait is within a quarter of what is asked.
LEMMA WaitIsAsked ==
  ASSUME NEW n \in Nat, NEW after \in RetryAfters, NEW wait \in retryWait(n, after)
  PROVE  wait \in Nat /\ WaitFits(n + 1, after, wait, post.client.jitters)
<1> DEFINE delay == IF after = "none" THEN retryDelay(n) ELSE parseRetryAfter(after)
           asked == ServerAsks(n + 1, after)
<1>1. Second \in Nat /\ Delay(n) \in 0..longest /\ longest \in Nat
  BY DelayIsBounded, RetryAssumption DEF longest
<1>2. after # "none" => parseRetryAfter(after) \in Nat
  BY <1>1 DEF parseRetryAfter, RetryAfters, maxRetryAfter
<1>3. (n + 1) - 1 = n
  OBVIOUS
<1>4. asked \in Nat BY <1>1, <1>2, <1>3 DEF ServerAsks
<1>5. /\ delay <= 0 => asked = 0
      /\ ~(delay <= 0) => asked = delay
  <2>1. CASE after = "none" BY <1>3, <2>1 DEF ServerAsks, Delay
  <2>2. CASE after # "none" BY <1>2, <2>2 DEF ServerAsks
  <2> QED BY <2>1, <2>2
<1>6. wait \in IF post.client.jitters \/ delay <= 0 THEN withJitter(delay) ELSE {delay}
  BY DEF retryWait
<1> HIDE DEF delay, asked
<1>7. /\ wait \in Nat /\ wait >= asked /\ wait <= asked + asked \div 4
      /\ ~post.client.jitters => wait = asked
  <2>1. asked \div 4 \in Nat BY <1>4
  <2>2. CASE delay <= 0
    <3>1. wait = 0 BY <1>6, <2>2 DEF withJitter
    <3> QED BY <1>5, <2>1, <2>2, <3>1
  <2>3. CASE ~(delay <= 0) /\ post.client.jitters
    BY <1>4, <1>5, <1>6, <2>3, JitterIsAQuarter
  <2>4. CASE ~(delay <= 0) /\ ~post.client.jitters BY <1>4, <1>5, <1>6, <2>1, <2>4
  <2> QED BY <2>2, <2>3, <2>4
<1> QED BY <1>7 DEF WaitFits, asked

\* A wait begins after an attempt that failed and was not the last.
LEMMA SleepsKeeps ==
  ASSUME RetryInv, NEW header \in RetryAfters, Sleeps(header), post.attempt # MaxRetries,
         \/ post.pc = "do" /\ header = "none"
         \/ post.pc = "read" /\ header = Last(post.log).after /\ Transient(Last(post.log))
  PROVE  RetryInv'
<1>1. /\ post \in Posts /\ MaxRetries \in Nat /\ post.attempt \in Nat /\ post.log \in Logs
      /\ post.waits \in Waits /\ post.result = "none" /\ post.attempt < MaxRetries
      /\ Len(post.waits) = post.attempt /\ Len(post.log) <= post.attempt + 1
  BY RetryAssumption DEF RetryInv, Posts, AttemptsCounted, Answered
<1> DEFINE after == Heeded(header)
<1>2. after \in RetryAfters BY DEF Heeded, RetryAfters
<1>3. PICK wait \in retryWait(post.attempt, after) :
        post' = [post EXCEPT !.pc = "sleep", !.waits = Append(@, [after |-> after, wait |-> wait])]
  BY DEF Sleeps
<1> HIDE DEF after
<1>4. wait \in Nat /\ WaitFits(post.attempt + 1, after, wait, post.client.jitters)
  BY <1>1, <1>2, <1>3, WaitIsAsked
<1> DEFINE entry == [after |-> after, wait |-> wait]
           waits == Append(post.waits, entry)
<1>5. entry \in RetryWaits /\ entry.after = after /\ entry.wait = wait
  BY <1>2, <1>4 DEF RetryWaits
<1>6. post' = [post EXCEPT !.pc = "sleep", !.waits = waits] BY <1>3
<1> HIDE DEF entry
<1>7. waits \in Waits BY <1>1, <1>5 DEF Waits
<1>8. /\ Len(waits) = post.attempt + 1 /\ DOMAIN waits = 1..(post.attempt + 1)
      /\ DOMAIN post.waits = 1..post.attempt /\ waits[post.attempt + 1] = entry
      /\ \A n \in 1..post.attempt : waits[n] = post.waits[n]
  BY <1>1, <1>5 DEF Waits
<1> HIDE DEF waits
<1>9. /\ post' \in Posts /\ post'.pc = "sleep" /\ post'.client = post.client /\ post'.attempt = post.attempt
      /\ post'.cancelled = post.cancelled /\ post'.log = post.log /\ post'.waits = waits
      /\ post'.result = post.result
  BY <1>1, <1>6, <1>7 DEF Posts
<1>10. AttemptsCounted' BY <1>1, <1>9, <1>8 DEF RetryInv, AttemptsCounted
<1>11. Answered'
  <2>1. \A n \in DOMAIN post.log : Transient(post.log[n])
    <3>1. CASE post.pc = "do" BY <3>1 DEF RetryInv, Answered
    <3>2. CASE post.pc = "read"
      <4>1. \A n \in DOMAIN post.log : n < Len(post.log) \/ n = Len(post.log)
        BY <1>1 DEF Logs
      <4> QED BY <3>2, <4>1 DEF RetryInv, Answered, Last
    <3> QED BY <3>1, <3>2
  <2>2. \A n \in DOMAIN post.log : Transient(post.log[n])'
    BY <1>9, <2>1 DEF Transient, Readable
  <2> QED BY <1>1, <1>9, <2>2 DEF Answered
<1>12. Concluded' BY <1>1, <1>9 DEF Concluded
<1>13. WaitsFit'
  <2>1. \A n \in 1..post.attempt : WaitFits(n, post.waits[n].after, post.waits[n].wait, post.client.jitters)
    BY <1>8 DEF RetryInv, WaitsFit
  <2>2. ASSUME NEW n \in DOMAIN waits
        PROVE  WaitFits(n, waits[n].after, waits[n].wait, post.client.jitters)
    <3>1. n \in 1..post.attempt \/ n = post.attempt + 1 BY <1>1, <1>8
    <3> QED BY <1>4, <1>5, <1>8, <2>1, <3>1
  <2> QED BY <1>9, <2>2 DEF WaitsFit, WaitFits, ServerAsks
<1> QED BY <1>9, <1>10, <1>11, <1>12, <1>13 DEF RetryInv

\* A post that ends keeps its answers and waits.
LEMMA PostEndsKeeps ==
  ASSUME RetryInv, NEW result, Ends(result), post.pc # "returned",
         result \in {"context", "transport", "read", "oversize", "payload", "api"},
         result = "payload" => Last(post.log).status = "200" /\ Readable(Last(post.log)),
         result \in {"api", "transport"} =>
           post.attempt = MaxRetries \/ (result = "api" /\ ~Transient(Last(post.log))),
         result = "context" => post.cancelled
  PROVE  RetryInv'
<1>1. /\ post \in Posts /\ MaxRetries \in Nat /\ post.attempt \in Nat /\ post.log \in Logs
  BY RetryAssumption DEF RetryInv, Posts
<1>2. /\ post' \in Posts /\ post'.pc = "returned" /\ post'.client = post.client /\ post'.attempt = post.attempt
      /\ post'.cancelled = post.cancelled /\ post'.log = post.log /\ post'.waits = post.waits
      /\ post'.result = result
  BY <1>1 DEF Posts, Ends
<1>3. AttemptsCounted' BY <1>1, <1>2 DEF RetryInv, AttemptsCounted
<1>4. Answered'
  <2>1. \A n \in DOMAIN post.log : n < Len(post.log) => Transient(post.log[n])'
    BY <1>2 DEF RetryInv, Answered, Transient, Readable
  <2> QED BY <1>2, <2>1 DEF Answered
<1>5. Concluded'
  <2>1. Readable(Last(post.log))' <=> Readable(Last(post.log)) BY <1>2 DEF Readable, Last
  <2>2. Transient(Last(post.log))' <=> Transient(Last(post.log))
    BY <1>2, <2>1 DEF Transient, Last
  <2> QED BY <1>2, <2>1, <2>2 DEF Concluded, Last
<1>6. WaitsFit' BY <1>2 DEF RetryInv, WaitsFit, WaitFits, ServerAsks
<1> QED BY <1>2, <1>3, <1>4, <1>5, <1>6 DEF RetryInv

\* A connection that fails is tried again, or is the end.
LEMMA DoFailsKeeps == RetryInv /\ DoFails => RetryInv'
<1> SUFFICES ASSUME RetryInv, DoFails PROVE RetryInv'
  OBVIOUS
<1>1. post.pc = "do" BY DEF DoFails
<1>2. CASE Ends("context") /\ post.cancelled BY <1>1, <1>2, PostEndsKeeps
<1>3. CASE Ends("transport") /\ LastAttempt BY <1>1, <1>3, PostEndsKeeps DEF LastAttempt
<1>4. CASE Sleeps("none") /\ ~LastAttempt
  BY <1>1, <1>4, SleepsKeeps DEF LastAttempt, RetryAfters
<1> QED BY <1>2, <1>3, <1>4 DEF DoFails

\* An answer is kept before it is judged.
LEMMA DoAnswersKeeps ==
  ASSUME RetryInv, NEW status \in Statuses, NEW body \in Bodies, NEW header \in RetryAfters,
         DoAnswers(status, body, header)
  PROVE  RetryInv'
<1> DEFINE got == [status |-> status, body |-> body, after |-> header]
<1>1. /\ post \in Posts /\ MaxRetries \in Nat /\ post.attempt \in Nat /\ post.log \in Logs
      /\ post.pc = "do" /\ post.result = "none" /\ got \in RetryAnswers
  BY RetryAssumption DEF RetryInv, Posts, Answered, DoAnswers, RetryAnswers
<1> HIDE DEF got
<1> DEFINE answers == Append(post.log, got)
<1>2. /\ post'.pc = "read" /\ post'.client = post.client /\ post'.attempt = post.attempt
      /\ post'.cancelled = post.cancelled /\ post'.log = answers /\ post'.waits = post.waits
      /\ post'.result = post.result /\ post' \in Posts
  <2>1. answers \in Logs BY <1>1 DEF Logs
  <2>2. post' = [post EXCEPT !.pc = "read", !.log = answers] BY DEF DoAnswers, got
  <2> HIDE DEF answers
  <2> QED BY <1>1, <2>1, <2>2 DEF Posts
<1>4. /\ Len(post'.log) = Len(post.log) + 1 /\ DOMAIN post'.log = 1..(Len(post.log) + 1)
      /\ DOMAIN post.log = 1..Len(post.log) /\ Len(post.log) \in Nat
      /\ \A n \in 1..Len(post.log) : post'.log[n] = post.log[n]
  BY <1>1, <1>2 DEF Logs
<1> HIDE DEF answers
<1>5. AttemptsCounted'
  <2>1. post'.log # <<>> BY <1>4
  <2> QED BY <1>1, <1>2, <1>4, <2>1 DEF RetryInv, AttemptsCounted
<1>6. Answered'
  <2>1. \A n \in 1..Len(post.log) : Transient(post.log[n])
    BY <1>1, <1>4 DEF RetryInv, Answered
  <2>2. \A n \in 1..Len(post.log) : Transient(post.log[n])'
    BY <1>2, <1>4, <2>1 DEF Transient, Readable
  <2>3. \A n \in DOMAIN post'.log : n < Len(post'.log) => n \in 1..Len(post.log) BY <1>4
  <2> QED BY <1>1, <1>2, <2>2, <2>3 DEF Answered
<1>7. Concluded' BY <1>1, <1>2 DEF Concluded
<1>8. WaitsFit' BY <1>2 DEF RetryInv, WaitsFit, WaitFits, ServerAsks
<1> QED BY <1>2, <1>5, <1>6, <1>7, <1>8 DEF RetryInv

\* An answer is judged: the end, or another attempt.
LEMMA ReadsKeeps == RetryInv /\ Reads => RetryInv'
<1> SUFFICES ASSUME RetryInv, Reads PROVE RetryInv'
  OBVIOUS
<1> DEFINE got == Last(post.log)
<1>1. post.pc = "read" /\ got \in RetryAnswers
  <2>1. post.log \in Logs /\ post.log # <<>> /\ post.pc = "read"
    BY DEF RetryInv, Posts, AttemptsCounted, Reads
  <2> QED BY <2>1 DEF Last, Logs
<1>2. /\ got.status \in Statuses /\ got.body \in Bodies /\ got.after \in RetryAfters
  BY <1>1 DEF RetryAnswers
<1>3. CASE Ends("read") \/ Ends("oversize") BY <1>1, <1>3, PostEndsKeeps
<1> DEFINE read == got.body # "torn" /\ ~TooLong(got.body)
<1>4. read => Readable(got) BY <1>2 DEF Bodies, TooLong, Readable
<1>5. CASE read /\ got.status = "200" /\ Ends("payload") BY <1>1, <1>4, <1>5, PostEndsKeeps
<1>6. CASE (~retryableStatus(got.status) \/ LastAttempt) /\ Ends("api")
  <2>1. ~retryableStatus(got.status) => ~Transient(got) BY DEF retryableStatus, Transient
  <2> QED BY <1>1, <1>6, <2>1, PostEndsKeeps DEF LastAttempt
<1>7. CASE read /\ retryableStatus(got.status) /\ ~LastAttempt /\ Sleeps(got.after)
  <2>1. Transient(got) BY <1>4, <1>7 DEF retryableStatus, Transient
  <2> HIDE DEF read
  <2> QED BY <1>1, <1>2, <1>7, <2>1, SleepsKeeps DEF LastAttempt
<1> QED BY <1>3, <1>5, <1>6, <1>7 DEF Reads

\* After the wait comes the next attempt.
LEMMA WakesKeeps == RetryInv /\ Wakes => RetryInv'
<1> SUFFICES ASSUME RetryInv, Wakes PROVE RetryInv'
  OBVIOUS
<1>1. /\ post \in Posts /\ MaxRetries \in Nat /\ post.attempt \in Nat /\ post.log \in Logs
      /\ post.pc = "sleep" /\ post.waits \in Waits
  BY RetryAssumption DEF RetryInv, Posts, Wakes
<1>2. /\ post' \in Posts /\ post'.pc = "do" /\ post'.client = post.client /\ post'.attempt = post.attempt + 1
      /\ post'.cancelled = post.cancelled /\ post'.log = post.log /\ post'.waits = post.waits
      /\ post'.result = post.result
  <2> DEFINE attempt == post.attempt + 1
  <2>1. attempt \in Nat /\ post' = [post EXCEPT !.pc = "do", !.attempt = attempt]
    BY <1>1 DEF Wakes
  <2> HIDE DEF attempt
  <2>2. post' \in Posts /\ post'.attempt = attempt BY <1>1, <2>1 DEF Posts
  <2>3. /\ post'.pc = "do" /\ post'.client = post.client /\ post'.cancelled = post.cancelled
        /\ post'.log = post.log /\ post'.waits = post.waits /\ post'.result = post.result
    BY <1>1, <2>1 DEF Posts
  <2> QED BY <2>2, <2>3 DEF attempt
<1>3. AttemptsCounted' BY <1>1, <1>2 DEF RetryInv, AttemptsCounted
<1>4. Answered'
  <2>1. \A n \in DOMAIN post.log : Transient(post.log[n])'
    BY <1>1, <1>2 DEF RetryInv, Answered, Transient, Readable
  <2> QED BY <1>1, <1>2, <2>1 DEF RetryInv, Answered
<1>5. Concluded' BY <1>1, <1>2 DEF RetryInv, Answered, Concluded
<1>6. WaitsFit' BY <1>2 DEF RetryInv, WaitsFit, WaitFits, ServerAsks
<1> QED BY <1>2, <1>3, <1>4, <1>5, <1>6 DEF RetryInv

\* The caller gives up, or nothing happens.
LEMMA CancelKeeps == RetryInv /\ (Cancel \/ UNCHANGED retryVars) => RetryInv'
<1> SUFFICES ASSUME RetryInv, Cancel \/ UNCHANGED retryVars PROVE RetryInv'
  OBVIOUS
<1>1. /\ post \in Posts /\ post' \in Posts /\ post'.pc = post.pc /\ post'.client = post.client
      /\ post'.attempt = post.attempt /\ (post.cancelled => post'.cancelled) /\ post'.log = post.log
      /\ post'.waits = post.waits /\ post'.result = post.result
  BY DEF RetryInv, Posts, Cancel, retryVars
<1>2. AttemptsCounted' BY <1>1 DEF RetryInv, AttemptsCounted
<1>3. Answered'
  <2>1. \A n \in DOMAIN post.log : Transient(post.log[n])' <=> Transient(post.log[n])
    BY <1>1 DEF Transient, Readable
  <2> QED BY <1>1, <2>1 DEF RetryInv, Answered
<1>4. Concluded'
  <2>1. Readable(Last(post.log))' <=> Readable(Last(post.log)) BY <1>1 DEF Readable, Last
  <2>2. Transient(Last(post.log))' <=> Transient(Last(post.log))
    BY <1>1, <2>1 DEF Transient, Last
  <2> QED BY <1>1, <2>1, <2>2 DEF RetryInv, Concluded, Last
<1>5. WaitsFit' BY <1>1 DEF RetryInv, WaitsFit, WaitFits, ServerAsks
<1> QED BY <1>1, <1>2, <1>3, <1>4, <1>5 DEF RetryInv

\* No step of a post breaks the invariant.
LEMMA StepKeepsRetryInv == RetryInv /\ [RetryNext]_retryVars => RetryInv'
<1> SUFFICES ASSUME RetryInv, [RetryNext]_retryVars PROVE RetryInv'
  OBVIOUS
<1>1. CASE SleepEnds BY <1>1, PostEndsKeeps DEF SleepEnds
<1>2. ASSUME NEW status \in Statuses, NEW body \in Bodies, NEW header \in RetryAfters,
             DoAnswers(status, body, header)
      PROVE  RetryInv'
  BY <1>2, DoAnswersKeeps
<1> QED BY <1>1, <1>2, DoFailsKeeps, ReadsKeeps, WakesKeeps, CancelKeeps DEF RetryNext

\* The invariant says what the run checks about answers.
LEMMA RetryInvIsEnough == RetryInv => RetriesOnlyTransient
<1> SUFFICES ASSUME RetryInv PROVE RetriesOnlyTransient
  OBVIOUS
<1>1. post.attempt \in Nat /\ post.attempt <= MaxRetries /\ post.log \in Logs
  BY DEF RetryInv, Posts, AttemptsCounted
<1>2. Len(post.log) <= post.attempt + 1 BY <1>1 DEF RetryInv, AttemptsCounted
<1>3. \A n \in 1..Len(post.log) - 1 : Transient(post.log[n])
  <2>1. \A n \in 1..Len(post.log) - 1 : n \in DOMAIN post.log /\ n < Len(post.log) BY <1>1
  <2> QED BY <2>1 DEF RetryInv, Answered
<1> QED BY <1>1, <1>2, <1>3 DEF RetryInv, Concluded, RetriesOnlyTransient

\* What a wait within a quarter of what is asked amounts to.
LEMMA QuarterIsBounded ==
  ASSUME NEW wait \in Nat, NEW asked \in Nat, NEW cap \in Nat, asked <= cap, wait <= asked + asked \div 4
  PROVE  wait <= cap + cap \div 4 /\ 4 * wait <= 5 * asked
<1>1. asked \div 4 \in Nat /\ 4 * (asked \div 4) <= asked /\ asked \div 4 <= cap \div 4 /\ cap \div 4 \in Nat
  OBVIOUS
<1> QED BY <1>1

\* ... and about waits, where a Duration holds them.
LEMMA WaitsAreEnough ==
  ASSUME DurationsFit, RetryInv
  PROVE  WaitsAreSane
<1>1. /\ post.waits \in Waits /\ Len(post.waits) \in Nat /\ Len(post.waits) <= MaxRetries
      /\ MaxRetries \in Nat /\ Second \in Nat /\ Second > 0
  BY RetryAssumption DEF RetryInv, Posts, AttemptsCounted
<1>2. ASSUME NEW n \in DOMAIN post.waits
      PROVE  /\ n \in Nat /\ n >= 1 /\ n - 1 \in Nat /\ n - 1 < MaxRetries
             /\ post.waits[n].after \in RetryAfters /\ post.waits[n].wait \in Nat
             /\ WaitFits(n, post.waits[n].after, post.waits[n].wait, post.client.jitters)
  <2>1. post.waits[n] \in RetryWaits BY <1>1 DEF Waits
  <2> QED BY <1>1, <2>1 DEF RetryInv, WaitsFit, RetryWaits
<1>3. ASSUME NEW n \in DOMAIN post.waits
      PROVE  /\ post.waits[n].wait \in 0..maxRetryAfter + maxRetryAfter \div 4
             /\ post.waits[n].wait = 0 => post.waits[n].after = "past"
             /\ post.waits[n].after = "none" => post.waits[n].wait \in Second..longest + Second
             /\ post.waits[n].after = "short" => post.waits[n].wait >= 3 * Second
             /\ post.waits[n].after = "long" => post.waits[n].wait >= maxRetryAfter
  <2> DEFINE after == post.waits[n].after
             wait == post.waits[n].wait
             asked == ServerAsks(n, after)
  <2>1. /\ n - 1 \in Nat /\ n - 1 < MaxRetries /\ after \in RetryAfters /\ wait \in Nat
        /\ wait >= asked /\ wait <= asked + asked \div 4
    BY <1>2 DEF WaitFits
  <2>2. /\ after = "none" => asked \in Second..longest
        /\ after = "past" => asked = 0
        /\ after = "short" => asked = 3 * Second
        /\ after = "long" => asked = maxRetryAfter
    <3>1. Delay(n - 1) \in Second..longest BY <2>1, DelayGrows
    <3> QED BY <3>1 DEF ServerAsks, parseRetryAfter
  <2> HIDE DEF after, wait, asked
  <2>3. asked \in Nat /\ asked <= maxRetryAfter /\ maxRetryAfter \in Nat
    BY <1>1, <2>1, <2>2 DEF RetryAfters, longest, maxRetryAfter
  <2>4. wait \in 0..maxRetryAfter + maxRetryAfter \div 4
    <3>1. maxRetryAfter \div 4 \in Nat BY <2>3
    <3> HIDE DEF maxRetryAfter
    <3> QED BY <2>1, <2>3, <3>1, QuarterIsBounded
  <2>5. wait = 0 => after = "past"
    BY <1>1, <2>1, <2>2, <2>3 DEF RetryAfters, longest, maxRetryAfter
  <2>6. after = "none" => wait \in Second..longest + Second
    <3> SUFFICES ASSUME after = "none" PROVE wait \in Second..longest + Second
      OBVIOUS
    <3>1. 4 * wait <= 5 * asked BY <2>1, <2>3, QuarterIsBounded
    <3> QED BY <1>1, <2>1, <2>2, <3>1 DEF longest
  <2>7. /\ after = "short" => wait >= 3 * Second
        /\ after = "long" => wait >= maxRetryAfter
    BY <2>1, <2>2
  <2> QED BY <2>4, <2>5, <2>6, <2>7 DEF after, wait
<1>4. ASSUME NEW n \in DOMAIN post.waits, NEW m \in 1..n - 1,
             post.waits[m].after = "none", post.waits[n].after = "none"
      PROVE  /\ 5 * post.waits[n].wait >= 4 * post.waits[m].wait
             /\ ~post.client.jitters => post.waits[n].wait >= post.waits[m].wait
  <2>1. n \in Nat /\ m \in DOMAIN post.waits /\ m - 1 \in Nat /\ n - 1 \in Nat /\ m - 1 < n - 1 /\ n - 1 < MaxRetries
    BY <1>1, <1>2
  <2> DEFINE first == post.waits[m].wait
             second == post.waits[n].wait
             d == Delay(m - 1)
             e == Delay(n - 1)
  <2>2. /\ first \in Nat /\ first <= d + d \div 4 /\ (~post.client.jitters => first = d)
        /\ second \in Nat /\ second >= e /\ (~post.client.jitters => second = e)
    BY <1>2, <1>4, <2>1 DEF WaitFits, ServerAsks
  <2>3. d <= e BY <2>1, DelayGrows
  <2>4. d \in Nat /\ e \in Nat BY <1>1, <2>1, DelayIsBounded DEF longest
  <2> HIDE DEF first, second, d, e
  <2>5. 4 * first <= 5 * d BY <2>2, <2>4, QuarterIsBounded
  <2>6. 5 * second >= 4 * first /\ (~post.client.jitters => second >= first)
    BY <2>2, <2>3, <2>4, <2>5
  <2> QED BY <2>6 DEF first, second
<1> QED BY <1>3, <1>4 DEF WaitsAreSane

\* A request is posted again only after an answer that may pass or a failed
\* connection, as often as the client was told, and its caller is given what the
\* last answer deserves, whatever the server answers and whenever the caller gives
\* up (Post).  Where the seconds that the retries double to fit a Duration, a wait
\* is as long as the delay or the server says and at most a quarter longer, so it
\* is zero only when the server's time has come, and may pass the cap by that
\* quarter (retryWait, withJitter).
THEOREM RetriesBounded ==
  ASSUME DurationsFit
  PROVE  RetrySpec => []RetriesAreBounded
<1>1. RetrySpec => []RetryInv BY InitRetryInv, StepKeepsRetryInv, PTL DEF RetrySpec
<1>2. RetryInv => RetriesAreBounded
  BY RetryInvIsEnough, WaitsAreEnough DEF RetriesAreBounded
<1> QED BY <1>1, <1>2, PTL

\* Without that hypothesis too, for it is only about waits (Post).
THEOREM RetriesTransient == RetrySpec => []RetriesOnlyTransient
<1>1. RetrySpec => []RetryInv BY InitRetryInv, StepKeepsRetryInv, PTL DEF RetrySpec
<1> QED BY <1>1, RetryInvIsEnough, PTL
=============================================================================
