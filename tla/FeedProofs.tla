------------------------------ MODULE FeedProofs ------------------------------
(***************************************************************************)
(* What the event hub delivers, for any number of writers and readers, a   *)
(* channel of any size and a journal of any length, what the local channel *)
(* host shows, for any number of clients, owners and records, and what a   *)
(* stream of a session shows, for a journal of any length.                 *)
(*                                                                         *)
(*   InOrder                a reader gets the records of the journal in    *)
(*                          order, none of them twice                      *)
(*   OnlyOvertakenAreMissed it misses none but those overtaken             *)
(*   NeverBlocks            a channel is never given more than it holds    *)
(*   ServesSubscribers      the three, and each preview lost is reported   *)
(*   ImplementsTheFeed      EventHub implements EventFeed as long as the   *)
(*                          records reach it in the journal's order        *)
(*   OneWriterFeeds         which they do where one goroutine writes       *)
(*   HostKeepsFaith         a projection follows the journal, an owner     *)
(*                          that retires leaves none of it unobserved, and *)
(*                          Starts do not overlap                          *)
(*   StreamKeepsFaith       a stream shows the records after its position, *)
(*                          each under its run, and the previews it lost   *)
(*                                                                         *)
(* A subscriber of the hub is looked at together with what its reader has  *)
(* got and with the records that were published.  Sound is what holds of   *)
(* them at every moment, of a replay too, which is a prefix of the         *)
(* history; Tight is the stronger fact for records that come in order and  *)
(* without a gap.  The host's invariant, HostInv, has two halves: Shown,   *)
(* how far the journal is shown, and Serial, whose turn it is.  That of a  *)
(* stream has two as well: JournalInv, how each record suits those before  *)
(* it, and StreamInv, how far the stream has followed them.                *)
(***************************************************************************)
EXTENDS EventHub, LocalHost, LoopProjection, WellFoundedInduction, FiniteSetTheorems, TLAPS

Subscriptions ==
  [on : BOOLEAN, after : Nat, last : Nat, preview : BOOLEAN, channel : Seq(Record),
   dropped : Nat, err : {"none", "lagged", "end", "closed"}]
Readers ==
  [status : {"fresh", "open", "ended"}, got : Seq(Nat), told : Nat, lost : Nat]

\* order, and what last is: the highest record delivered so far
Ordered(r, got) ==
  /\ Ascending(r, got)
  /\ \A n \in Pending(r.channel) : r.channel[n].cursor <= r.last
  /\ r.after <= LastRead(r, got) /\ LastRead(r, got) <= r.last

Complete(r, got, records) ==
  /\ r.last = r.after \/ (r.last \in Fed(r, got) /\ r.last \in Range(records))
  /\ r.on => \A n \in DOMAIN records : records[n] > r.after =>
       \/ records[n] \in Fed(r, got)
       \/ \E m \in 1..(n - 1) : records[m] > records[n]

Sound(r, got, records) ==
  /\ r \in Subscriptions /\ got \in Seq(Nat)
  /\ Ordered(r, got) /\ Complete(r, got, records)

(***************************************************************************)
(* What is done to one subscriber.                                         *)
(***************************************************************************)
\* A subscriber whose channel or counters are others.
Changed(r, k, channel, last) ==
  /\ channel \in Seq(Record) /\ last \in Nat
  /\ \E d \in Nat : k = [r EXCEPT !.channel = channel, !.dropped = d, !.last = last]

LEMMA ChangedParts ==
  ASSUME NEW r \in Subscriptions, NEW k, NEW channel, NEW last, Changed(r, k, channel, last)
  PROVE  /\ k \in Subscriptions /\ k.channel = channel /\ k.after = r.after
         /\ k.last = last /\ (k.on <=> r.on)
<1>1. PICK d \in Nat : k = [r EXCEPT !.channel = channel, !.dropped = d, !.last = last]
  BY DEF Changed
<1>2. channel \in Seq(Record) /\ last \in Nat BY DEF Changed
<1>3. k \in Subscriptions /\ k.channel = channel /\ k.after = r.after /\ k.last = last
  BY <1>1, <1>2 DEF Subscriptions
<1>4. k.on <=> r.on BY <1>1 DEF Subscriptions
<1> QED BY <1>3, <1>4

LEMMA DisconnectedParts ==
  ASSUME NEW r \in Subscriptions, NEW err \in {"lagged", "end", "closed"}
  PROVE  /\ Disconnected(r, err) \in Subscriptions
         /\ Disconnected(r, err).channel = r.channel
         /\ Disconnected(r, err).after = r.after
         /\ Disconnected(r, err).last = r.last
         /\ ~Disconnected(r, err).on
         /\ Disconnected(r, err).err = err
BY DEF Subscriptions, Disconnected

\* A subscriber with the same durable records to read.
Same(k, r) ==
  /\ k \in Subscriptions /\ k.after = r.after /\ k.last = r.last /\ (k.on => r.on)
  /\ Pending(k.channel) = Pending(r.channel)
  /\ \A n \in Pending(r.channel) : k.channel[n] = r.channel[n]

LEMMA SameSound ==
  ASSUME NEW r, NEW got, NEW records, Sound(r, got, records), NEW k, Same(k, r)
  PROVE  Sound(k, got, records)
<1>1. Fed(k, got) = Fed(r, got) /\ LastRead(k, got) = LastRead(r, got)
  BY DEF Same, Fed, LastRead
<1>2. Ordered(k, got) BY <1>1 DEF Same, Sound, Ordered, Ascending
<1>3. Complete(k, got, records) BY <1>1 DEF Same, Sound, Complete
<1> QED BY <1>2, <1>3 DEF Sound, Same

LEMMA DisconnectedSame ==
  ASSUME NEW r \in Subscriptions, NEW err \in {"lagged", "end", "closed"}
  PROVE  Same(Disconnected(r, err), r)
BY DisconnectedParts DEF Same

\* A record more in a channel.
OneMore(channel, x, more) ==
  channel \in Seq(Record) /\ x \in Record /\ more = Append(channel, x)

LEMMA MorePending ==
  ASSUME NEW channel, NEW x, NEW more, OneMore(channel, x, more)
  PROVE  /\ more \in Seq(Record) /\ Len(channel) + 1 \in Nat
         /\ more[Len(channel) + 1] = x
         /\ \A n \in Pending(channel) :
              n \in Nat /\ n < Len(channel) + 1 /\ more[n] = channel[n]
         /\ x.preview => Pending(more) = Pending(channel)
         /\ ~x.preview => Pending(more) = Pending(channel) \cup {Len(channel) + 1}
<1>1. /\ Len(channel) \in Nat /\ DOMAIN channel = 1..Len(channel)
      /\ more \in Seq(Record) /\ DOMAIN more = 1..(Len(channel) + 1)
      /\ \A n \in 1..Len(channel) : more[n] = channel[n]
      /\ more[Len(channel) + 1] = x
  BY DEF OneMore
<1> QED BY <1>1 DEF Pending

\* A preview is delivered, dropped or not wanted: the durable records to read are
\* as they were.
LEMMA PreviewSame ==
  ASSUME NEW r \in Subscriptions, NEW x \in Record, x.preview
  PROVE  Same(Delivered(r, x), r)
<1> DEFINE k == Delivered(r, x)
<1>1. CASE k = r BY <1>1 DEF Same
<1>2. CASE k = [r EXCEPT !.dropped = @ + 1]
  <2> DEFINE d == r.dropped + 1
  <2>1. d \in Nat /\ r.channel \in Seq(Record) /\ r.last \in Nat BY DEF Subscriptions
  <2>2. k = [r EXCEPT !.channel = r.channel, !.dropped = d, !.last = r.last]
    BY <1>2 DEF Subscriptions
  <2> HIDE DEF d, k
  <2>3. Changed(r, k, r.channel, r.last) BY <2>1, <2>2 DEF Changed
  <2>4. /\ k \in Subscriptions /\ k.channel = r.channel /\ k.after = r.after
        /\ k.last = r.last /\ (k.on <=> r.on)
    BY <2>3, ChangedParts
  <2>5. Same(k, r) BY <2>4 DEF Same
  <2> QED BY <2>5 DEF k
<1>3. CASE k = Enqueued(r, x)
  <2> DEFINE y == [x EXCEPT !.dropped = r.dropped]
             more == Append(r.channel, y)
  <2>1. y \in Record /\ y.preview BY DEF Record, Subscriptions
  <2>2. k = [r EXCEPT !.channel = more, !.dropped = 0, !.last = r.last] BY <1>3 DEF Enqueued
  <2> HIDE DEF k, y
  <2>3. OneMore(r.channel, y, more) /\ r.last \in Nat BY <2>1 DEF Subscriptions, OneMore
  <2> HIDE DEF more
  <2>4. /\ more \in Seq(Record) /\ Pending(more) = Pending(r.channel)
        /\ \A n \in Pending(r.channel) : more[n] = r.channel[n]
    BY <2>1, <2>3, MorePending
  <2>5. Changed(r, k, more, r.last) BY <2>2, <2>3, <2>4 DEF Changed
  <2>6. /\ k \in Subscriptions /\ k.channel = more /\ k.after = r.after
        /\ k.last = r.last /\ (k.on <=> r.on)
    BY <2>5, ChangedParts
  <2>7. Same(k, r) BY <2>4, <2>6 DEF Same
  <2> QED BY <2>7 DEF k
<1> QED
  BY <1>1, <1>2, <1>3 DEF Delivered, Overflowed

LEMMA PreviewSound ==
  ASSUME NEW r, NEW got, NEW records, Sound(r, got, records), NEW x \in Record, x.preview
  PROVE  Sound(Delivered(r, x), got, records)
BY PreviewSame, SameSound DEF Sound

LEMMA DisconnectedSound ==
  ASSUME NEW r, NEW got, NEW records, Sound(r, got, records),
         NEW err \in {"lagged", "end", "closed"}
  PROVE  Sound(Disconnected(r, err), got, records)
BY DisconnectedSame, SameSound DEF Sound

\* A record published to a subscriber that has it or does not want it.
LEMMA StaleSound ==
  ASSUME NEW r, NEW got, NEW records \in Seq(Nat), Sound(r, got, records), NEW c \in Nat,
         ~r.on \/ c <= r.last
  PROVE  Sound(r, got, Append(records, c))
<1> DEFINE all == Append(records, c)
<1>1. /\ Len(records) \in Nat /\ DOMAIN records = 1..Len(records)
      /\ DOMAIN all = 1..(Len(records) + 1) /\ all[Len(records) + 1] = c
      /\ \A n \in 1..Len(records) : all[n] = records[n] /\ records[n] \in Nat
  OBVIOUS
<1> HIDE DEF all
<1>2. Range(records) \subseteq Range(all) BY <1>1 DEF Range
<1>3. r.last \in Nat /\ r.after \in Nat BY DEF Sound, Subscriptions
<1>4. ASSUME r.on, NEW n \in DOMAIN all, all[n] > r.after
      PROVE  \/ all[n] \in Fed(r, got)
             \/ \E m \in 1..(n - 1) : all[m] > all[n]
  <2>1. CASE n \in 1..Len(records)
    <3>1. \/ records[n] \in Fed(r, got)
          \/ \E m \in 1..(n - 1) : records[m] > records[n]
      BY <1>1, <1>4, <2>1 DEF Sound, Complete
    <3> QED BY <1>1, <2>1, <3>1
  <2>2. CASE n = Len(records) + 1
    <3>1. all[n] = c /\ c <= r.last /\ r.last # r.after BY <1>1, <1>3, <1>4, <2>2
    <3>2. r.last \in Fed(r, got) /\ r.last \in Range(records) BY <3>1 DEF Sound, Complete
    <3>3. PICK m \in 1..Len(records) : records[m] = r.last BY <1>1, <3>2 DEF Range
    <3>4. m \in 1..(n - 1) /\ all[m] = r.last BY <1>1, <2>2, <3>3
    <3> QED BY <1>3, <3>1, <3>2, <3>4
  <2> QED BY <1>1, <2>1, <2>2
<1> QED
  BY <1>2, <1>4 DEF Sound, Complete, all

\* A durable record that a subscriber takes: it is at the place new.
Takes(r, c, k, new) ==
  /\ r \in Subscriptions /\ c \in Nat
  /\ k = Enqueued(r, Durable(c)) /\ new = Len(r.channel) + 1

LEMMA EnqueuedParts ==
  ASSUME NEW r, NEW c, NEW k, NEW new, Takes(r, c, k, new)
  PROVE  /\ k \in Subscriptions /\ k.after = r.after /\ k.last = c /\ (k.on <=> r.on)
         /\ new \in Pending(k.channel) /\ new \in Nat
         /\ \A n \in Pending(k.channel) : n = new \/ n \in Pending(r.channel)
         /\ \A n \in Pending(r.channel) :
              /\ n \in Nat /\ n < new
              /\ n \in Pending(k.channel) /\ k.channel[n] = r.channel[n]
         /\ k.channel[new].cursor = c
<1> DEFINE y == [Durable(c) EXCEPT !.dropped = r.dropped]
           more == Append(r.channel, y)
<1> USE DEF Takes
<1>1. y \in Record /\ ~y.preview /\ y.cursor = c BY DEF Record, Subscriptions, Durable
<1>2. k = [r EXCEPT !.channel = more, !.dropped = 0, !.last = c] BY DEF Enqueued, Durable
<1> HIDE DEF y
<1>3. OneMore(r.channel, y, more) BY <1>1 DEF OneMore, Subscriptions
<1> HIDE DEF more
<1>4. /\ more \in Seq(Record)
      /\ Pending(more) = Pending(r.channel) \cup {new} /\ new \in Nat
      /\ \A n \in Pending(r.channel) : n \in Nat /\ more[n] = r.channel[n] /\ n < new
      /\ more[new].cursor = c
  BY <1>1, <1>3, MorePending
<1>5. Changed(r, k, more, c) BY <1>2, <1>4 DEF Changed
<1>6. /\ k \in Subscriptions /\ k.channel = more /\ k.after = r.after
      /\ k.last = c /\ (k.on <=> r.on)
  BY <1>5, ChangedParts
<1> QED BY <1>4, <1>6

\* A record published to a subscriber that takes it.
LEMMA EnqueuedSound ==
  ASSUME NEW r, NEW got, NEW records \in Seq(Nat), Sound(r, got, records), NEW c \in Nat,
         r.last < c
  PROVE  /\ Sound(Enqueued(r, Durable(c)), got, Append(records, c))
         /\ Fed(Enqueued(r, Durable(c)), got) = Fed(r, got) \cup {c}
<1> DEFINE k == Enqueued(r, Durable(c))
           all == Append(records, c)
           new == Len(r.channel) + 1
           more == k.channel
<1>1. r \in Subscriptions /\ got \in Seq(Nat) /\ r.last \in Nat /\ r.after \in Nat
  BY DEF Sound, Subscriptions
<1> HIDE DEF k, new
<1>2. Takes(r, c, k, new) BY <1>1 DEF k, new, Takes
<1>3. k.on <=> r.on BY <1>2, EnqueuedParts
<1>32. k \in Subscriptions /\ k.channel = more /\ k.after = r.after /\ k.last = c
  BY <1>2, EnqueuedParts
<1>4. /\ new \in Pending(more) /\ new \in Nat
      /\ \A n \in Pending(more) : n = new \/ n \in Pending(r.channel)
      /\ \A n \in Pending(r.channel) :
           /\ n \in Nat /\ n < new
           /\ n \in Pending(more) /\ more[n] = r.channel[n]
      /\ more[new].cursor = c
  BY <1>2, EnqueuedParts
<1> HIDE DEF more
<1>41. ASSUME NEW n \in Pending(more)
       PROVE  \/ n \in Pending(r.channel) /\ n < new /\ more[n] = r.channel[n]
              \/ n = new /\ more[n].cursor = c
  <2>1. CASE n = new
    <3>1. more[new].cursor = c BY <1>4
    <3> QED BY <2>1, <3>1
  <2>2. CASE n # new
    <3>1. n \in Pending(r.channel) BY <1>4, <2>2
    <3> QED BY <1>4, <3>1
  <2> QED BY <2>1, <2>2
<1>5. Fed(k, got) = Fed(r, got) \cup {c} /\ LastRead(k, got) = LastRead(r, got)
  <2>1. ASSUME NEW n \in Pending(more) PROVE more[n].cursor \in Fed(r, got) \cup {c}
    BY <1>41 DEF Fed
  <2>2. ASSUME NEW n \in Pending(r.channel) PROVE r.channel[n].cursor \in Fed(k, got)
    <3>1. n \in Pending(more) /\ more[n] = r.channel[n] BY <1>4
    <3> QED BY <1>32, <3>1 DEF Fed
  <2>3. c \in Fed(k, got)
    <3>1. new \in Pending(more) /\ more[new].cursor = c BY <1>4
    <3> QED BY <1>32, <3>1 DEF Fed
  <2>4. Fed(k, got) \subseteq Fed(r, got) \cup {c} BY <1>32, <2>1 DEF Fed
  <2>5. Fed(r, got) \subseteq Fed(k, got) BY <2>2 DEF Fed
  <2>6. LastRead(k, got) = LastRead(r, got) BY <1>32 DEF LastRead
  <2> QED BY <2>3, <2>4, <2>5, <2>6
<1>6. \A n \in Pending(r.channel) : /\ r.channel[n].cursor \in Nat /\ r.channel[n].cursor <= r.last
                                    /\ r.channel[n].cursor > LastRead(r, got)
  <2>1. \A n \in DOMAIN r.channel : r.channel[n] \in Record BY <1>1 DEF Subscriptions
  <2>2. \A n \in Pending(r.channel) : r.channel[n].cursor \in Nat
    BY <2>1 DEF Pending, Record
  <2> QED BY <2>2 DEF Sound, Ordered, Ascending
<1>7. LastRead(r, got) \in Nat /\ LastRead(r, got) <= r.last
  <2>1. LastRead(r, got) \in Nat BY <1>1 DEF LastRead
  <2> QED BY <2>1 DEF Sound, Ordered
<1>8. Ordered(k, got)
  <2>1. Ordered(r, got) BY DEF Sound
  <2>2. \A n \in DOMAIN got : got[n] > IF n = 1 THEN k.after ELSE got[n - 1]
    BY <1>32, <2>1 DEF Ordered, Ascending
  <2>3. \A n \in Pending(k.channel) : k.channel[n].cursor > LastRead(k, got) /\ k.channel[n].cursor <= k.last
    BY <1>1, <1>32, <1>41, <1>5, <1>6, <1>7, SMTT(30)
  <2>4. \A m, n \in Pending(k.channel) : m < n => k.channel[m].cursor < k.channel[n].cursor
    <3> SUFFICES ASSUME NEW m \in Pending(more), NEW n \in Pending(more), m < n
                 PROVE  more[m].cursor < more[n].cursor
      BY <1>32
    <3>1. CASE n = new
      <4>1. m # new BY <1>4, <3>1
      <4>2. m \in Pending(r.channel) /\ more[m] = r.channel[m] BY <1>41, <4>1
      <4>3. more[m].cursor \in Nat /\ more[m].cursor <= r.last /\ more[n].cursor = c
        BY <1>4, <1>6, <3>1, <4>2
      <4> QED BY <1>1, <4>3
    <3>2. CASE n # new
      <4>1. n \in Pending(r.channel) /\ n < new /\ more[n] = r.channel[n] /\ n \in Nat
        BY <1>4, <1>41, <3>2
      <4>2. m # new BY <1>4, <4>1
      <4>3. m \in Pending(r.channel) /\ more[m] = r.channel[m] BY <1>41, <4>2
      <4> QED BY <2>1, <4>1, <4>3 DEF Ordered, Ascending
    <3> QED BY <3>1, <3>2
  <2>5. k.after <= LastRead(k, got) /\ LastRead(k, got) <= k.last
    BY <1>1, <1>32, <1>5, <1>7, <2>1 DEF Ordered
  <2> QED BY <2>2, <2>3, <2>4, <2>5 DEF Ordered, Ascending
<1>9. Complete(k, got, all)
  <2>1. /\ Len(records) \in Nat /\ DOMAIN records = 1..Len(records)
        /\ DOMAIN all = 1..(Len(records) + 1) /\ all[Len(records) + 1] = c
        /\ \A n \in 1..Len(records) : all[n] = records[n] /\ records[n] \in Nat
    OBVIOUS
  <2> HIDE DEF all
  <2>2. c \in Fed(k, got) /\ c \in Range(all) BY <1>5, <2>1 DEF Range
  <2>3. ASSUME k.on, NEW n \in DOMAIN all, all[n] > k.after
        PROVE  \/ all[n] \in Fed(k, got)
               \/ \E m \in 1..(n - 1) : all[m] > all[n]
    <3>1. CASE n \in 1..Len(records)
      <4>1. \/ records[n] \in Fed(r, got)
            \/ \E m \in 1..(n - 1) : records[m] > records[n]
        BY <1>3, <1>32, <2>1, <2>3, <3>1 DEF Sound, Complete
      <4> QED BY <1>5, <2>1, <3>1, <4>1
    <3>2. CASE n = Len(records) + 1 BY <2>1, <2>2, <3>2
    <3> QED BY <2>1, <3>1, <3>2
  <2> QED BY <1>32, <2>2, <2>3 DEF Complete
<1> QED BY <1>1, <1>32, <1>5, <1>8, <1>9 DEF Sound, k, all

\* Every record that is published leaves a subscriber in order and complete.
LEMMA PublishedSound ==
  ASSUME NEW r, NEW got, NEW records \in Seq(Nat), Sound(r, got, records), NEW c \in Nat
  PROVE  Sound(Delivered(r, Durable(c)), got, Append(records, c))
<1>1. r.last \in Nat BY DEF Sound, Subscriptions
<1>2. CASE ~Wanted(r, Durable(c))
  <2>1. ~r.on \/ c <= r.last BY <1>1, <1>2 DEF Wanted, Stale, Durable
  <2> QED BY <1>2, <2>1, StaleSound DEF Delivered
<1>3. CASE Wanted(r, Durable(c)) /\ Fits(r)
  <2>1. r.last < c BY <1>1, <1>3 DEF Wanted, Stale, Durable
  <2> QED BY <1>3, <2>1, EnqueuedSound DEF Delivered
<1>4. CASE Wanted(r, Durable(c)) /\ ~Fits(r)
  <2>1. Delivered(r, Durable(c)) = Disconnected(r, "lagged")
    BY <1>4 DEF Delivered, Overflowed, Durable
  <2> DEFINE k == Disconnected(r, "lagged")
  <2>2. Sound(k, got, records) /\ ~k.on BY DisconnectedSound, DisconnectedParts DEF Sound
  <2> HIDE DEF k
  <2>3. Sound(k, got, Append(records, c)) BY <2>2, StaleSound
  <2> QED BY <2>1, <2>3 DEF k
<1> QED BY <1>2, <1>3, <1>4

\* The reader takes the first record of the channel.
OneLess(channel, rest) ==
  channel \in Seq(Record) /\ channel # <<>> /\ rest = Tail(channel)

LEMMA LessPending ==
  ASSUME NEW channel, NEW rest, OneLess(channel, rest)
  PROVE  /\ rest \in Seq(Record) /\ Head(channel) = channel[1] /\ channel[1] \in Record
         /\ ~channel[1].preview <=> 1 \in Pending(channel)
         /\ \A n \in Pending(rest) : n \in Nat /\ n + 1 \in Pending(channel) /\ n + 1 > 1
                                     /\ rest[n] = channel[n + 1]
         /\ \A n \in Pending(channel) : n \in Nat /\ n >= 1
              /\ (n > 1 => n - 1 \in Pending(rest) /\ rest[n - 1] = channel[n])
<1>1. /\ channel \in Seq(Record) /\ Len(channel) \in Nat /\ Len(channel) >= 1
      /\ DOMAIN channel = 1..Len(channel) /\ Head(channel) = channel[1]
      /\ rest \in Seq(Record) /\ DOMAIN rest = 1..(Len(channel) - 1)
      /\ \A n \in 1..(Len(channel) - 1) : rest[n] = channel[n + 1]
  BY DEF OneLess
<1>2. channel[1] \in Record /\ 1 \in DOMAIN channel BY <1>1
<1>3. ASSUME NEW n \in Pending(rest)
      PROVE  n \in Nat /\ n + 1 \in Pending(channel) /\ n + 1 > 1 /\ rest[n] = channel[n + 1]
  <2>1. n \in 1..(Len(channel) - 1) /\ ~rest[n].preview BY <1>1 DEF Pending
  <2>2. n \in Nat /\ n + 1 \in DOMAIN channel /\ rest[n] = channel[n + 1] BY <1>1, <2>1
  <2> QED BY <2>1, <2>2 DEF Pending
<1>4. ASSUME NEW n \in Pending(channel)
      PROVE  n \in Nat /\ n >= 1 /\ (n > 1 => n - 1 \in Pending(rest) /\ rest[n - 1] = channel[n])
  <2>1. n \in 1..Len(channel) /\ ~channel[n].preview BY <1>1 DEF Pending
  <2>2. ASSUME n > 1 PROVE n - 1 \in Pending(rest) /\ rest[n - 1] = channel[n]
    <3>1. n - 1 \in 1..(Len(channel) - 1) /\ (n - 1) + 1 = n BY <1>1, <2>1, <2>2
    <3>2. rest[n - 1] = channel[n] /\ n - 1 \in DOMAIN rest BY <1>1, <3>1
    <3> QED BY <2>1, <3>2 DEF Pending
  <2> QED BY <1>1, <2>1, <2>2
<1>5. ~channel[1].preview <=> 1 \in Pending(channel) BY <1>2 DEF Pending
<1> QED BY <1>1, <1>2, <1>3, <1>4, <1>5

\* One record more of those got.
OneGot(got, c, all) == got \in Seq(Nat) /\ c \in Nat /\ all = Append(got, c)

LEMMA MoreGot ==
  ASSUME NEW got, NEW c, NEW all, OneGot(got, c, all)
  PROVE  /\ all \in Seq(Nat) /\ all # <<>> /\ all[Len(all)] = c
         /\ DOMAIN all = 1..(Len(got) + 1) /\ DOMAIN got = 1..Len(got)
         /\ \A n \in DOMAIN got : all[n] = got[n]
         /\ all[Len(got) + 1] = c
         /\ Len(got) \in Nat
BY DEF OneGot

\* What the reader got of a record.
Taken(got, x) == IF x.preview THEN got ELSE Append(got, x.cursor)

\* The subscriber and what was got, after the first record is read.
Reads(r, got, k, all) ==
  /\ r.channel # <<>> /\ k = [r EXCEPT !.channel = Tail(@)]
  /\ all = Taken(got, Head(r.channel))

\* Reading changes neither order nor what the reader gets in the end.
LEMMA ReceivedSound ==
  ASSUME NEW r, NEW got, NEW records, Sound(r, got, records),
         NEW k, NEW all, Reads(r, got, k, all)
  PROVE  /\ Sound(k, all, records)
         /\ LastRead(k, all) =
              IF Head(r.channel).preview THEN LastRead(r, got) ELSE Head(r.channel).cursor
<1> DEFINE rest == Tail(r.channel)
           x == r.channel[1]
<1>1. r \in Subscriptions /\ got \in Seq(Nat) /\ r.channel \in Seq(Record) /\ r.last \in Nat
      /\ r.after \in Nat
  BY DEF Sound, Subscriptions
<1>2. OneLess(r.channel, rest) BY <1>1 DEF OneLess, Reads
<1> HIDE DEF rest
<1>3. /\ rest \in Seq(Record) /\ Head(r.channel) = x /\ x \in Record
      /\ ~x.preview <=> 1 \in Pending(r.channel)
      /\ \A n \in Pending(rest) : n \in Nat /\ n + 1 \in Pending(r.channel) /\ n + 1 > 1
                                  /\ rest[n] = r.channel[n + 1]
      /\ \A n \in Pending(r.channel) : n \in Nat /\ n >= 1
           /\ (n > 1 => n - 1 \in Pending(rest) /\ rest[n - 1] = r.channel[n])
  BY <1>2, LessPending
<1>4. k = [r EXCEPT !.channel = rest] /\ all = Taken(got, x) BY <1>3 DEF rest, Reads
<1>5. /\ k \in Subscriptions /\ k.channel = rest /\ k.after = r.after /\ k.last = r.last
      /\ (k.on <=> r.on)
  <2>1. Changed(r, k, rest, r.last)
    <3>1. r.dropped \in Nat BY <1>1 DEF Subscriptions
    <3>2. k = [r EXCEPT !.channel = rest, !.dropped = r.dropped, !.last = r.last]
      BY <1>1, <1>4 DEF Subscriptions
    <3> QED BY <1>1, <1>3, <3>1, <3>2 DEF Changed
  <2> QED BY <1>1, <2>1, ChangedParts
<1>6. x.cursor \in Nat BY <1>3 DEF Record
<1>7. Ordered(r, got) /\ Complete(r, got, records) BY DEF Sound
<1>8. \A m, n \in Pending(rest) : m < n => rest[m].cursor < rest[n].cursor
  <2> SUFFICES ASSUME NEW m \in Pending(rest), NEW n \in Pending(rest), m < n
               PROVE  rest[m].cursor < rest[n].cursor
    OBVIOUS
  <2>1. /\ m + 1 \in Pending(r.channel) /\ n + 1 \in Pending(r.channel) /\ m + 1 < n + 1
        /\ rest[m] = r.channel[m + 1] /\ rest[n] = r.channel[n + 1]
    BY <1>3
  <2> QED BY <1>7, <2>1 DEF Ordered, Ascending
<1>9. \A n \in Pending(rest) : rest[n].cursor <= r.last /\ rest[n].cursor > LastRead(r, got)
  BY <1>3, <1>7 DEF Ordered, Ascending
<1>10. CASE x.preview
  <2>1. all = got BY <1>4, <1>10 DEF Taken
  <2>2. LastRead(k, all) = LastRead(r, got) BY <1>5, <2>1 DEF LastRead
  <2>3. Fed(r, got) = Fed(k, all)
    <3>1. ASSUME NEW n \in Pending(r.channel) PROVE r.channel[n].cursor \in Fed(k, all)
      <4>1. n - 1 \in Pending(rest) /\ rest[n - 1] = r.channel[n] BY <1>3, <1>10
      <4> QED BY <1>5, <4>1 DEF Fed
    <3>2. ASSUME NEW n \in Pending(rest) PROVE rest[n].cursor \in Fed(r, got)
      BY <1>3 DEF Fed
    <3>3. Fed(r, got) \subseteq Fed(k, all) BY <2>1, <3>1 DEF Fed
    <3>4. Fed(k, all) \subseteq Fed(r, got) BY <1>5, <2>1, <3>2 DEF Fed
    <3> QED BY <3>3, <3>4
  <2>4. Ordered(k, all) BY <1>5, <1>7, <1>8, <1>9, <2>1, <2>2 DEF Ordered, Ascending
  <2>5. Complete(k, all, records) BY <1>5, <1>7, <2>3 DEF Complete
  <2>6. LastRead(k, all) = IF Head(r.channel).preview THEN LastRead(r, got) ELSE Head(r.channel).cursor
    BY <1>3, <1>10, <2>2
  <2> QED BY <1>1, <1>5, <2>1, <2>4, <2>5, <2>6 DEF Sound
<1>11. CASE ~x.preview
  <2>0. PICK c \in Nat : c = x.cursor BY <1>6
  <2>1. OneGot(got, c, all) BY <1>1, <1>4, <1>11, <2>0 DEF Taken, OneGot
  <2>2. /\ all \in Seq(Nat) /\ all # <<>> /\ all[Len(all)] = c
        /\ DOMAIN all = 1..(Len(got) + 1) /\ DOMAIN got = 1..Len(got)
        /\ \A n \in DOMAIN got : all[n] = got[n]
        /\ all[Len(got) + 1] = c
        /\ Len(got) \in Nat
    BY <2>1, MoreGot
  <2>3. 1 \in Pending(r.channel) /\ c <= r.last /\ c > LastRead(r, got)
    <3>1. 1 \in Pending(r.channel) BY <1>3, <1>11, Zenon
    <3>2. \A n \in Pending(r.channel) :
            r.channel[n].cursor <= r.last /\ r.channel[n].cursor > LastRead(r, got)
      BY <1>7 DEF Ordered, Ascending
    <3> QED BY <2>0, <3>1, <3>2
  <2>4. LastRead(k, all) = c BY <2>2 DEF LastRead
  <2>5. LastRead(r, got) \in Nat /\ r.after <= LastRead(r, got)
    <3>1. LastRead(r, got) \in Nat BY <1>1 DEF LastRead
    <3> QED BY <1>7, <3>1 DEF Ordered
  <2>6. Fed(k, all) = Fed(r, got)
    <3>1. ASSUME NEW n \in Pending(r.channel) PROVE r.channel[n].cursor \in Fed(k, all)
      <4>1. CASE n = 1
        <5>1. Len(got) + 1 \in DOMAIN all BY <2>2
        <5>2. all[Len(got) + 1] \in Fed(k, all) BY <5>1 DEF Fed, Range
        <5>3. r.channel[n].cursor = c BY <2>0, <4>1
        <5> QED BY <2>2, <5>2, <5>3
      <4>2. CASE n # 1
        <5>1. n - 1 \in Pending(rest) /\ rest[n - 1] = r.channel[n] BY <1>3, <4>2
        <5> QED BY <1>5, <5>1 DEF Fed
      <4> QED BY <4>1, <4>2
    <3>2. ASSUME NEW n \in DOMAIN got PROVE got[n] \in Fed(k, all)
      <4>1. n \in DOMAIN all /\ all[n] = got[n] BY <2>2
      <4> QED BY <4>1 DEF Fed, Range
    <3>3. ASSUME NEW n \in Pending(rest) PROVE rest[n].cursor \in Fed(r, got)
      BY <1>3 DEF Fed
    <3>4. ASSUME NEW n \in DOMAIN all PROVE all[n] \in Fed(r, got)
      <4>1. CASE n \in DOMAIN got BY <2>2, <4>1 DEF Fed, Range
      <4>2. CASE n = Len(got) + 1
        <5>1. c = r.channel[1].cursor BY <2>0
        <5>2. c \in Fed(r, got) BY <2>3, <5>1 DEF Fed
        <5> QED BY <2>2, <4>2, <5>2
      <4> QED BY <2>2, <4>1, <4>2
    <3>5. Fed(r, got) \subseteq Fed(k, all) BY <3>1, <3>2 DEF Fed, Range
    <3>6. Fed(k, all) \subseteq Fed(r, got) BY <1>5, <3>3, <3>4 DEF Fed, Range
    <3> QED BY <3>5, <3>6
  <2>7. \A n \in DOMAIN all : all[n] > IF n = 1 THEN k.after ELSE all[n - 1]
    <3> SUFFICES ASSUME NEW n \in DOMAIN all
                 PROVE  all[n] > IF n = 1 THEN k.after ELSE all[n - 1]
      OBVIOUS
    <3>1. CASE n \in DOMAIN got
      <4>1. got[n] > IF n = 1 THEN r.after ELSE got[n - 1]
        BY <1>7, <3>1 DEF Ordered, Ascending
      <4>2. n # 1 => n - 1 \in DOMAIN got BY <2>2, <3>1
      <4> QED BY <1>5, <2>2, <3>1, <4>1, <4>2
    <3>2. CASE n = Len(got) + 1 /\ got = <<>>
      <4>1. n = 1 /\ LastRead(r, got) = r.after BY <3>2 DEF LastRead
      <4> QED BY <1>5, <2>2, <2>3, <3>2, <4>1
    <3>3. CASE n = Len(got) + 1 /\ got # <<>>
      <4>1. n # 1 /\ n - 1 = Len(got) /\ n - 1 \in DOMAIN got /\ LastRead(r, got) = got[n - 1]
        BY <1>1, <2>2, <3>3 DEF LastRead
      <4> QED BY <2>2, <2>3, <3>3, <4>1
    <3> QED BY <2>2, <3>1, <3>2, <3>3
  <2>8. \A n \in Pending(rest) : rest[n].cursor > c
    <3> SUFFICES ASSUME NEW n \in Pending(rest) PROVE rest[n].cursor > c
      OBVIOUS
    <3>1. n + 1 \in Pending(r.channel) /\ n + 1 > 1 /\ rest[n] = r.channel[n + 1] BY <1>3
    <3>2. c < r.channel[n + 1].cursor BY <1>7, <2>0, <2>3, <3>1 DEF Ordered, Ascending
    <3>3. rest[n].cursor \in Nat
      <4>1. n \in DOMAIN rest BY DEF Pending
      <4>2. rest[n] \in Record BY <1>3, <4>1
      <4> QED BY <4>2 DEF Record
    <3> QED BY <1>6, <3>1, <3>2, <3>3
  <2>9. Ordered(k, all)
    <3>1. Ascending(k, all) BY <1>5, <1>8, <2>4, <2>7, <2>8 DEF Ascending
    <3>2. k.after <= LastRead(k, all) /\ LastRead(k, all) <= k.last
      BY <1>1, <1>5, <1>6, <2>3, <2>4, <2>5
    <3> QED BY <1>5, <1>9, <3>1, <3>2 DEF Ordered
  <2>10. Complete(k, all, records) BY <1>5, <1>7, <2>6 DEF Complete
  <2>11. LastRead(k, all) = IF Head(r.channel).preview THEN LastRead(r, got) ELSE Head(r.channel).cursor
    BY <1>3, <1>11, <2>0, <2>4
  <2> QED BY <1>5, <2>2, <2>9, <2>10, <2>11 DEF Sound
<1> QED BY <1>10, <1>11

(***************************************************************************)
(* A replay: what a subscriber is after the first n records.               *)
(***************************************************************************)
LEMMA DeliveredParts ==
  ASSUME NEW r \in Subscriptions, NEW x \in Record
  PROVE  Delivered(r, x).after = r.after
BY DEF Delivered, Enqueued, Overflowed, Disconnected, Subscriptions

\* A number a set has, it has a least one.
LEMMA Least ==
  ASSUME NEW I \in SUBSET Nat, I # {}
  PROVE  \E n \in I : \A m \in I : n <= m
<1> DEFINE R == OpToRel(<, Nat)
<1>1. IsWellFoundedOn(R, Nat) BY NatLessThanWellFounded
<1>2. PICK n \in I : \A m \in I : ~(<<m, n>> \in R)
  <2> HIDE DEF R
  <2> QED BY <1>1, WFMin
<1>3. \A m \in I : n <= m
  <2> SUFFICES ASSUME NEW m \in I PROVE ~(m < n)
    OBVIOUS
  <2>1. n \in Nat /\ m \in Nat /\ ~(<<m, n>> \in R) BY <1>2
  <2> QED BY <2>1 DEF OpToRel
<1> QED BY <1>3

IsReplay(f, r, records, len) ==
  f = [n \in 0..len |-> IF n = 0 THEN r ELSE Delivered(f[n - 1], Durable(records[n]))]

LEMMA ReplayExists ==
  ASSUME NEW r, NEW records, NEW len \in Nat
  PROVE  \E f : IsReplay(f, r, records, len)
<1> DEFINE Bad == {k \in Nat : ~\E f : IsReplay(f, r, records, k)}
<1>1. SUFFICES ASSUME Bad # {} PROVE FALSE
  OBVIOUS
<1>2. PICK k \in Bad : \A m \in Bad : k <= m
  <2>1. Bad \in SUBSET Nat
    OBVIOUS
  <2> HIDE DEF Bad
  <2> QED BY <1>1, <2>1, Least
<1>3. CASE k = 0
  <2> DEFINE f == [n \in 0..0 |-> r]
  <2>1. IsReplay(f, r, records, 0) BY DEF IsReplay
  <2> HIDE DEF f
  <2> QED BY <1>2, <1>3, <2>1
<1>4. CASE k # 0
  <2>1. k \in Nat /\ k - 1 \in Nat /\ k - 1 \notin Bad BY <1>2, <1>4
  <2>2. PICK g : IsReplay(g, r, records, k - 1) BY <2>1
  <2> DEFINE f == [n \in 0..k |->
                     IF n = k THEN Delivered(g[k - 1], Durable(records[k])) ELSE g[n]]
  <2>3. \A n \in 0..k :
          f[n] = IF n = 0 THEN r ELSE Delivered(f[n - 1], Durable(records[n]))
    <3> TAKE n \in 0..k
    <3>1. CASE n = k BY <1>4, <2>1, <3>1
    <3>2. CASE n # k
      <4>1. n \in 0..(k - 1) /\ (n # 0 => n - 1 \in 0..(k - 1) /\ n - 1 # k) BY <2>1, <3>2
      <4>2. g[n] = IF n = 0 THEN r ELSE Delivered(g[n - 1], Durable(records[n]))
        BY <2>2, <4>1 DEF IsReplay
      <4> QED BY <2>1, <3>2, <4>1, <4>2
    <3> QED BY <3>1, <3>2
  <2>4. IsReplay(f, r, records, k) BY <2>3 DEF IsReplay
  <2> HIDE DEF f
  <2> QED BY <1>2, <2>4
<1> QED BY <1>3, <1>4

LEMMA ReplaySteps ==
  ASSUME NEW r, NEW records \in Seq(Nat)
  PROVE  /\ Replay(r, records)[0] = r
         /\ \A n \in 1..Len(records) :
              Replay(r, records)[n] = Delivered(Replay(r, records)[n - 1], Durable(records[n]))
<1>1. Len(records) \in Nat
  OBVIOUS
<1>2. IsReplay(Replay(r, records), r, records, Len(records))
  <2>1. \E f : IsReplay(f, r, records, Len(records)) BY <1>1, ReplayExists
  <2>2. Replay(r, records) = CHOOSE f : IsReplay(f, r, records, Len(records))
    BY DEF Replay, IsReplay
  <2> QED BY <2>1, <2>2
<1>3. \A n \in 0..Len(records) :
        Replay(r, records)[n] =
          IF n = 0 THEN r ELSE Delivered(Replay(r, records)[n - 1], Durable(records[n]))
  BY <1>2 DEF IsReplay
<1> QED BY <1>1, <1>3

\* What a replay starts from: a subscriber that has seen nothing.
LEMMA NewSound ==
  ASSUME NEW r \in Subscriptions, r.channel = <<>>, r.last = r.after, NEW records,
         r.on => records = <<>>
  PROVE  Sound(r, <<>>, records)
<1>1. r.after \in Nat /\ <<>> \in Seq(Nat) /\ DOMAIN <<>> = {} BY DEF Subscriptions
<1>2. Pending(r.channel) = {} /\ LastRead(r, <<>>) = r.after BY <1>1 DEF Pending, LastRead
<1> QED BY <1>1, <1>2 DEF Sound, Ordered, Ascending, Complete

LEMMA ReplaySound ==
  ASSUME NEW r \in Subscriptions, r.channel = <<>>, r.last = r.after, NEW records \in Seq(Nat)
  PROVE  \A n \in 0..Len(records) :
           /\ Sound(Replay(r, records)[n], <<>>, SubSeq(records, 1, n))
           /\ Replay(r, records)[n].after = r.after
<1> DEFINE at(n) == Replay(r, records)[n]
           Good(n) == /\ Sound(at(n), <<>>, SubSeq(records, 1, n))
                      /\ at(n).after = r.after
           Bad == {n \in 0..Len(records) : ~Good(n)}
<1>1. SUFFICES ASSUME Bad # {} PROVE FALSE
  OBVIOUS
<1>2. PICK k \in Bad : \A m \in Bad : k <= m
  <2>1. Bad \in SUBSET Nat
    OBVIOUS
  <2> HIDE DEF Bad
  <2> QED BY <1>1, <2>1, Least
<1>3. Good(0)
  <2>1. at(0) = r BY ReplaySteps
  <2>2. SubSeq(records, 1, 0) = <<>>
    OBVIOUS
  <2>3. Sound(r, <<>>, <<>>) BY NewSound
  <2> QED BY <2>1, <2>2, <2>3
<1>4. k \in 1..Len(records) /\ k - 1 \in 0..Len(records) /\ k - 1 \notin Bad
  <2>1. Len(records) \in Nat /\ k \in 0..Len(records) BY <1>2
  <2>2. k # 0 BY <1>2, <1>3
  <2> QED BY <1>2, <2>1, <2>2
<1>5. Good(k - 1) BY <1>4
<1>6. at(k) = Delivered(at(k - 1), Durable(records[k])) BY <1>4, ReplaySteps
<1>7. /\ SubSeq(records, 1, k - 1) \in Seq(Nat) /\ records[k] \in Nat
      /\ Append(SubSeq(records, 1, k - 1), records[k]) = SubSeq(records, 1, k)
  BY <1>4
<1> HIDE DEF at
<1>8. Sound(at(k), <<>>, SubSeq(records, 1, k)) BY <1>5, <1>6, <1>7, PublishedSound
<1>9. at(k).after = r.after
  <2>1. at(k - 1) \in Subscriptions /\ Durable(records[k]) \in Record
    BY <1>5, <1>7 DEF Sound, Durable, Record
  <2> QED BY <1>5, <1>6, <2>1, DeliveredParts
<1> QED BY <1>2, <1>8, <1>9

(***************************************************************************)
(* The invariant.                                                          *)
(***************************************************************************)
Types ==
  /\ top \in Nat /\ cursor \in Nat /\ previews \in Nat /\ open \in BOOLEAN
  /\ unsent \in [Writers -> Seq(Nat)] /\ history \in Seq(Nat)
  /\ sub \in [Subs -> Subscriptions] /\ reader \in [Subs -> Readers]

AllSound == \A s \in Subs : Sound(sub[s], reader[s].got, history)

FreshIsEmpty ==
  \A s \in Subs : reader[s].status = "fresh" => sub[s] = Fresh /\ reader[s].got = <<>>

HubInv == Types /\ AllSound /\ FreshIsEmpty

LEMMA InitHub ==
  Init => HubInv
<1> SUFFICES ASSUME Init PROVE HubInv
  OBVIOUS
<1>1. top \in Nat /\ [n \in 1..top |-> n] \in Seq(Nat) BY DEF Init
<1>2. Fresh \in Subscriptions /\ NoReader \in Readers
  BY DEF Fresh, NoReader, Subscriptions, Readers
<1>3. Types BY <1>1, <1>2 DEF Init, Types
<1>4. ASSUME NEW s \in Subs
      PROVE  sub[s] = Fresh /\ reader[s].got = <<>>
  BY DEF Init, NoReader
<1>5. Sound(Fresh, <<>>, history)
  <2>1. Fresh.channel = <<>> /\ Fresh.last = Fresh.after /\ ~Fresh.on BY DEF Fresh
  <2> QED BY <1>2, <2>1, NewSound
<1> QED BY <1>3, <1>4, <1>5 DEF HubInv, AllSound, FreshIsEmpty

LEMMA CommitHub ==
  ASSUME MaxBatch \in Nat, HubInv, NEW w \in Writers, NEW n \in 1..MaxBatch, Commit(w, n)
  PROVE  HubInv'
<1>1. n \in Nat /\ [i \in 1..n |-> top + i] \in Seq(Nat) BY DEF HubInv, Types
<1>2. Types' BY <1>1 DEF HubInv, Types, Commit
<1> QED BY <1>2 DEF HubInv, AllSound, FreshIsEmpty, Commit

LEMMA PublishHub ==
  ASSUME HubInv, NEW w \in Writers, Publish(w)
  PROVE  HubInv'
<1> DEFINE c == Head(unsent[w])
<1>1. unsent[w] \in Seq(Nat) /\ unsent[w] # <<>> BY DEF HubInv, Types, Publish
<1>2. c \in Nat /\ Tail(unsent[w]) \in Seq(Nat) BY <1>1
<1>3. unsent' \in [Writers -> Seq(Nat)] BY <1>2 DEF HubInv, Types, Publish
<1>4. CASE ~open BY <1>3, <1>4 DEF HubInv, Types, AllSound, FreshIsEmpty, Publish
<1>5. CASE open
  <2>1. /\ history' = Append(history, c) /\ cursor' = IF c > cursor THEN c ELSE cursor
        /\ sub' = [s \in Subs |-> Delivered(sub[s], Durable(c))]
        /\ UNCHANGED <<top, open, reader, previews>>
    BY <1>5 DEF Publish
  <2>2. history \in Seq(Nat) BY DEF HubInv, Types
  <2> HIDE DEF c
  <2>3. ASSUME NEW s \in Subs
        PROVE  Sound(sub'[s], reader'[s].got, history')
    <3>1. Sound(sub[s], reader[s].got, history) BY DEF HubInv, AllSound
    <3>2. Sound(Delivered(sub[s], Durable(c)), reader[s].got, Append(history, c))
      BY <1>2, <2>2, <3>1, PublishedSound
    <3> QED BY <2>1, <3>2
  <2>4. ASSUME NEW s \in Subs, reader'[s].status = "fresh"
        PROVE  sub'[s] = Fresh /\ reader'[s].got = <<>>
    <3>1. sub[s] = Fresh /\ reader[s].got = <<>> BY <2>1, <2>4 DEF HubInv, FreshIsEmpty
    <3>2. ~Fresh.on BY DEF Fresh
    <3>3. Delivered(Fresh, Durable(c)) = Fresh BY <3>2 DEF Delivered, Wanted
    <3> QED BY <2>1, <3>1, <3>3
  <2>5. sub' \in [Subs -> Subscriptions] BY <2>1, <2>3 DEF Sound
  <2>6. Types'
    <3>1. history' \in Seq(Nat) /\ cursor' \in Nat BY <1>2, <2>1, <2>2 DEF HubInv, Types
    <3> QED BY <1>3, <2>1, <2>5, <3>1 DEF HubInv, Types
  <2> QED BY <2>3, <2>4, <2>6 DEF HubInv, AllSound, FreshIsEmpty
<1> QED BY <1>4, <1>5 DEF HubInv, Types

LEMMA PreviewHub ==
  ASSUME HubInv, PublishPreview
  PROVE  HubInv'
<1> DEFINE r == [cursor |-> cursor, preview |-> TRUE, dropped |-> 0]
<1>1. r \in Record /\ r.preview BY DEF HubInv, Types, Record
<1>2. /\ sub' = [s \in Subs |-> Delivered(sub[s], r)]
      /\ reader' = [s \in Subs |->
           IF Wanted(sub[s], r) /\ ~Fits(sub[s])
           THEN [reader[s] EXCEPT !.lost = @ + 1] ELSE reader[s]]
      /\ previews' = previews + 1
      /\ UNCHANGED <<top, unsent, history, cursor, open>>
  BY DEF PublishPreview
<1> HIDE DEF r
<1>3. ASSUME NEW s \in Subs
      PROVE  /\ reader'[s] \in Readers /\ reader'[s].got = reader[s].got
             /\ reader'[s].status = reader[s].status
  <2>1. reader[s] \in Readers BY DEF HubInv, Types
  <2>2. \/ reader'[s] = reader[s]
        \/ reader'[s] = [reader[s] EXCEPT !.lost = @ + 1]
    BY <1>2
  <2> QED BY <2>1, <2>2 DEF Readers
<1>4. ASSUME NEW s \in Subs
      PROVE  Sound(sub'[s], reader'[s].got, history')
  <2>1. Sound(sub[s], reader[s].got, history) BY DEF HubInv, AllSound
  <2>2. Sound(Delivered(sub[s], r), reader[s].got, history) BY <1>1, <2>1, PreviewSound
  <2> QED BY <1>2, <1>3, <2>2
<1>5. ASSUME NEW s \in Subs, reader'[s].status = "fresh"
      PROVE  sub'[s] = Fresh /\ reader'[s].got = <<>>
  <2>1. sub[s] = Fresh /\ reader[s].got = <<>> BY <1>3, <1>5 DEF HubInv, FreshIsEmpty
  <2>2. ~Fresh.on BY DEF Fresh
  <2>3. Delivered(Fresh, r) = Fresh BY <2>2 DEF Delivered, Wanted
  <2> QED BY <1>2, <1>3, <2>1, <2>3
<1>6. Types'
  <2>1. sub' \in [Subs -> Subscriptions] BY <1>2, <1>4 DEF Sound
  <2>2. reader' \in [Subs -> Readers] BY <1>2, <1>3
  <2> QED BY <1>2, <2>1, <2>2 DEF HubInv, Types
<1> QED BY <1>4, <1>5, <1>6 DEF HubInv, AllSound, FreshIsEmpty

\* A step of one subscriber and its reader leaves the others as they were.
LEMMA OneHub ==
  ASSUME HubInv, NEW s \in Subs, NEW r, NEW k \in Readers,
         sub' = [sub EXCEPT ![s] = r], reader' = [reader EXCEPT ![s] = k],
         Sound(r, k.got, history), k.status # "fresh",
         UNCHANGED <<top, unsent, history, cursor, open, previews>>
  PROVE  HubInv'
<1>1. /\ sub \in [Subs -> Subscriptions] /\ reader \in [Subs -> Readers]
      /\ r \in Subscriptions
  BY DEF HubInv, Types, Sound
<1>2. Types' BY <1>1 DEF HubInv, Types
<1>3. sub'[s] = r /\ reader'[s] = k BY <1>1
<1>4. ASSUME NEW t \in Subs, t # s
      PROVE  sub'[t] = sub[t] /\ reader'[t] = reader[t]
  BY <1>1, <1>4
<1>5. AllSound'
  <2> SUFFICES ASSUME NEW t \in Subs PROVE Sound(sub'[t], reader'[t].got, history')
    BY DEF AllSound
  <2>1. CASE t = s BY <1>3, <2>1
  <2>2. CASE t # s BY <1>4, <2>2 DEF HubInv, AllSound
  <2> QED BY <2>1, <2>2
<1>6. FreshIsEmpty' BY <1>3, <1>4 DEF HubInv, FreshIsEmpty
<1> QED BY <1>2, <1>5, <1>6 DEF HubInv

\* A subscriber registered with an open hub, or refused by a closed one.
Registered(after, preview) ==
  [Fresh EXCEPT !.after = after, !.last = after, !.preview = preview, !.on = TRUE]
Refused(after, preview) ==
  Disconnected([Fresh EXCEPT !.after = after, !.last = after, !.preview = preview], "end")

LEMMA SubscribeParts ==
  ASSUME HubInv, NEW s \in Subs, NEW after \in 0..top, NEW preview \in BOOLEAN
  PROVE  /\ Registered(after, preview) \in Subscriptions
         /\ Registered(after, preview).channel = <<>>
         /\ Registered(after, preview).after = after /\ Registered(after, preview).last = after
         /\ Refused(after, preview) \in Subscriptions
         /\ Refused(after, preview).channel = <<>>
         /\ Refused(after, preview).after = after /\ Refused(after, preview).last = after
         /\ ~Refused(after, preview).on
<1> DEFINE new == [Fresh EXCEPT !.after = after, !.last = after, !.preview = preview]
<1>1. after \in Nat BY DEF HubInv, Types
<1>2. new \in Subscriptions /\ new.channel = <<>> /\ new.after = after /\ new.last = after
  <2>1. Fresh \in Subscriptions /\ Fresh.channel = <<>> BY DEF Fresh, Subscriptions
  <2> QED BY <1>1, <2>1 DEF Subscriptions
<1>3. Registered(after, preview) = [new EXCEPT !.on = TRUE] BY DEF Registered, Fresh
<1>4. Refused(after, preview) = Disconnected(new, "end") BY DEF Refused
<1> HIDE DEF new
<1>5. /\ Registered(after, preview) \in Subscriptions
      /\ Registered(after, preview).channel = <<>>
      /\ Registered(after, preview).after = after /\ Registered(after, preview).last = after
  BY <1>2, <1>3 DEF Subscriptions
<1>6. /\ Refused(after, preview) \in Subscriptions
      /\ Refused(after, preview).channel = <<>>
      /\ Refused(after, preview).after = after /\ Refused(after, preview).last = after
      /\ ~Refused(after, preview).on
  BY <1>2, <1>4, DisconnectedParts
<1> QED BY <1>5, <1>6

LEMMA SubscribeSound ==
  ASSUME HubInv, NEW s \in Subs, NEW after \in 0..top, NEW preview \in BOOLEAN,
         Subscribe(s, after, preview)
  PROVE  \E r : /\ sub' = [sub EXCEPT ![s] = r] /\ r.after = after
                /\ Sound(r, <<>>, history)
                /\ \/ r = Replayed(Registered(after, preview)) /\ open
                   \/ r = Refused(after, preview) /\ ~open
<1>1. history \in Seq(Nat) /\ Len(history) \in 0..Len(history) BY DEF HubInv, Types
<1>2. SubSeq(history, 1, Len(history)) = history BY <1>1
<1>3. CASE open
  <2> DEFINE r == Replayed(Registered(after, preview))
  <2>1. Sound(r, <<>>, history) /\ r.after = after
    <3> DEFINE new == Registered(after, preview)
    <3>1. new \in Subscriptions /\ new.channel = <<>> /\ new.last = new.after /\ new.after = after
      BY SubscribeParts
    <3> HIDE DEF new
    <3>2. /\ Sound(Replay(new, history)[Len(history)], <<>>, SubSeq(history, 1, Len(history)))
          /\ Replay(new, history)[Len(history)].after = new.after
      BY <1>1, <3>1, ReplaySound
    <3> QED BY <1>2, <3>1, <3>2 DEF Replayed, new
  <2>2. sub' = [sub EXCEPT ![s] = r] BY <1>3 DEF Subscribe, Registered, Fresh
  <2> HIDE DEF r
  <2>3. r = Replayed(Registered(after, preview)) BY DEF r
  <2> QED BY <1>3, <2>1, <2>2, <2>3
<1>4. CASE ~open
  <2> DEFINE r == Refused(after, preview)
  <2>1. Sound(r, <<>>, history) /\ r.after = after
    <3>1. /\ r \in Subscriptions /\ r.channel = <<>> /\ r.after = after /\ r.last = after
          /\ ~r.on
      BY SubscribeParts
    <3> HIDE DEF r
    <3> QED BY <3>1, NewSound
  <2>2. sub' = [sub EXCEPT ![s] = r] BY <1>4 DEF Subscribe, Refused
  <2> HIDE DEF r
  <2>3. r = Refused(after, preview) BY DEF r
  <2> QED BY <1>4, <2>1, <2>2, <2>3
<1> QED BY <1>3, <1>4

LEMMA SubscribeHub ==
  ASSUME HubInv, NEW s \in Subs, NEW after \in 0..top, NEW preview \in BOOLEAN,
         Subscribe(s, after, preview)
  PROVE  HubInv'
<1>1. PICK r : sub' = [sub EXCEPT ![s] = r] /\ Sound(r, <<>>, history) BY SubscribeSound
<1> DEFINE k == [reader[s] EXCEPT !.status = "open"]
<1>2. reader' = [reader EXCEPT ![s] = k] BY DEF Subscribe
<1>3. k \in Readers /\ k.got = <<>> /\ k.status = "open"
  <2>1. reader[s] \in Readers /\ reader[s].got = <<>>
    BY DEF HubInv, Types, FreshIsEmpty, Subscribe
  <2> QED BY <2>1 DEF Readers
<1> HIDE DEF k
<1>4. UNCHANGED <<top, unsent, history, cursor, open, previews>> BY DEF Subscribe
<1> QED BY <1>1, <1>2, <1>3, <1>4, OneHub

LEMMA UnsubscribeHub ==
  ASSUME HubInv, NEW s \in Subs, Unsubscribe(s)
  PROVE  HubInv'
<1> DEFINE r == Disconnected(sub[s], "closed")
<1>1. sub' = [sub EXCEPT ![s] = r] /\ UNCHANGED <<top, unsent, history, cursor, open, previews>>
  BY DEF Unsubscribe
<1>2. reader' = [reader EXCEPT ![s] = reader[s]] /\ reader[s] \in Readers
      /\ reader[s].status # "fresh"
  BY DEF HubInv, Types, Unsubscribe
<1>3. Sound(r, reader[s].got, history) BY DisconnectedSound DEF HubInv, AllSound
<1> HIDE DEF r
<1> QED BY <1>1, <1>2, <1>3, OneHub

LEMMA CloseHub ==
  ASSUME HubInv, Close
  PROVE  HubInv'
<1>1. /\ sub' = [s \in Subs |-> IF sub[s].on THEN Disconnected(sub[s], "end") ELSE sub[s]]
      /\ open' = FALSE /\ UNCHANGED <<top, unsent, history, cursor, reader, previews>>
  BY DEF Close
<1>2. ASSUME NEW s \in Subs
      PROVE  Sound(sub'[s], reader[s].got, history)
  <2>1. Sound(sub[s], reader[s].got, history) BY DEF HubInv, AllSound
  <2>2. Sound(Disconnected(sub[s], "end"), reader[s].got, history)
    BY <2>1, DisconnectedSound
  <2> QED BY <1>1, <2>1, <2>2
<1>3. Types'
  <2>1. sub' \in [Subs -> Subscriptions] BY <1>1, <1>2 DEF Sound
  <2> QED BY <1>1, <2>1 DEF HubInv, Types
<1>4. ASSUME NEW s \in Subs, reader'[s].status = "fresh"
      PROVE  sub'[s] = Fresh /\ reader'[s].got = <<>>
  <2>1. sub[s] = Fresh /\ reader[s].got = <<>> /\ ~Fresh.on
    BY <1>1, <1>4 DEF HubInv, FreshIsEmpty, Fresh
  <2> QED BY <1>1, <2>1
<1> QED BY <1>1, <1>2, <1>3, <1>4 DEF HubInv, AllSound, FreshIsEmpty

\* Receive, with the reader's and the subscriber's next states named.
LEMMA ReceiveParts ==
  ASSUME HubInv, NEW s \in Subs, Receive(s)
  PROVE  \E r, k :
           /\ sub' = [sub EXCEPT ![s] = r] /\ reader' = [reader EXCEPT ![s] = k]
           /\ k \in Readers /\ k.status = reader[s].status /\ k.status = "open"
           /\ Reads(sub[s], reader[s].got, r, k.got)
           /\ Sound(sub[s], reader[s].got, history)
           /\ Sound(r, k.got, history)
<1> DEFINE x == Head(sub[s].channel)
           r == [sub[s] EXCEPT !.channel = Tail(@)]
           k == [reader[s] EXCEPT !.told = @ + x.dropped,
                                  !.got = IF x.preview THEN @ ELSE Append(@, x.cursor)]
<1>1. /\ sub[s] \in Subscriptions /\ reader[s] \in Readers
      /\ Sound(sub[s], reader[s].got, history) /\ sub[s].channel # <<>>
      /\ reader[s].status = "open"
  BY DEF HubInv, Types, AllSound, Receive
<1>2. x \in Record
  <2>1. sub[s].channel \in Seq(Record) BY <1>1 DEF Subscriptions
  <2> QED BY <1>1, <2>1
<1> HIDE DEF x
<1>3. k \in Readers /\ k.status = "open" /\ k.got = Taken(reader[s].got, x)
  <2>1. x.cursor \in Nat /\ x.dropped \in Nat BY <1>2 DEF Record
  <2>2. reader[s].got \in Seq(Nat) /\ reader[s].told \in Nat BY <1>1 DEF Readers
  <2>3. Taken(reader[s].got, x) \in Seq(Nat) BY <2>1, <2>2 DEF Taken
  <2>4. k = [reader[s] EXCEPT !.told = @ + x.dropped, !.got = Taken(reader[s].got, x)]
    BY DEF Taken
  <2> DEFINE got == Taken(reader[s].got, x)
             told == reader[s].told + x.dropped
  <2>5. told \in Nat /\ got \in Seq(Nat) /\ k = [reader[s] EXCEPT !.told = told, !.got = got]
    BY <2>1, <2>2, <2>3, <2>4
  <2> HIDE DEF k, got, told
  <2>6. k \in Readers /\ k.status = "open" /\ k.got = got BY <1>1, <2>5 DEF Readers
  <2> QED BY <2>6 DEF got
<1>4. sub' = [sub EXCEPT ![s] = r] /\ reader' = [reader EXCEPT ![s] = k]
  <2>1. sub' = [sub EXCEPT ![s] = r] BY DEF HubInv, Types, Receive
  <2>2. reader' = [reader EXCEPT ![s] = k] BY DEF HubInv, Types, Receive, x
  <2> QED BY <2>1, <2>2
<1> HIDE DEF r, k
<1>5. Reads(sub[s], reader[s].got, r, k.got) BY <1>1, <1>3 DEF Reads, r, x
<1>6. Sound(r, k.got, history) BY <1>1, <1>5, ReceivedSound
<1> QED BY <1>1, <1>3, <1>4, <1>5, <1>6

LEMMA ReceiveHub ==
  ASSUME HubInv, NEW s \in Subs, Receive(s)
  PROVE  HubInv'
<1>1. PICK r, k :
        /\ sub' = [sub EXCEPT ![s] = r] /\ reader' = [reader EXCEPT ![s] = k]
        /\ k \in Readers /\ k.status = "open" /\ Sound(r, k.got, history)
  BY ReceiveParts
<1>2. UNCHANGED <<top, unsent, history, cursor, open, previews>> BY DEF Receive
<1> QED BY <1>1, <1>2, OneHub

LEMMA SettleHub ==
  ASSUME HubInv, NEW s \in Subs, Settle(s)
  PROVE  HubInv'
<1> DEFINE k == [reader[s] EXCEPT !.status = "ended"]
<1>1. /\ reader' = [reader EXCEPT ![s] = k] /\ sub' = [sub EXCEPT ![s] = sub[s]]
      /\ UNCHANGED <<top, unsent, history, cursor, open, previews>>
  BY DEF HubInv, Types, Settle
<1>2. k \in Readers /\ k.got = reader[s].got /\ k.status = "ended"
  BY DEF HubInv, Types, Readers
<1>3. Sound(sub[s], reader[s].got, history) BY DEF HubInv, AllSound
<1> HIDE DEF k
<1> QED BY <1>1, <1>2, <1>3, OneHub

LEMMA StutterHub ==
  ASSUME HubInv, UNCHANGED vars
  PROVE  HubInv'
BY DEF HubInv, Types, AllSound, FreshIsEmpty, vars

LEMMA NextHub ==
  ASSUME MaxBatch \in Nat, HubInv, [Next]_vars
  PROVE  HubInv'
<1>1. CASE Writer BY <1>1, CommitHub, PublishHub DEF Writer
<1>2. CASE Reader BY <1>2, ReceiveHub, SettleHub DEF Reader
<1>3. CASE Subscriber BY <1>3, SubscribeHub, UnsubscribeHub DEF Subscriber
<1>4. CASE PublishPreview BY <1>4, PreviewHub
<1>5. CASE Close BY <1>5, CloseHub
<1>6. CASE UNCHANGED vars BY <1>6, StutterHub
<1> QED BY <1>1, <1>2, <1>3, <1>4, <1>5, <1>6 DEF Next

LEMMA HubHolds ==
  ASSUME MaxBatch \in Nat
  PROVE  Spec => []HubInv
<1>1. HubInv /\ [Next]_vars => HubInv' BY NextHub
<1> QED BY <1>1, InitHub, PTL DEF Spec

\* A subscriber gets the records of the journal in the order of the journal,
\* none of them twice, after the position it asked for: whoever publishes first,
\* and whatever was replayed (deliverLocked, Subscribe).
THEOREM InOrder ==
  ASSUME MaxBatch \in Nat
  PROVE  Spec => []FeedInOrder
<1>1. HubInv => FeedInOrder BY DEF HubInv, AllSound, Sound, Ordered, FeedInOrder
<1> QED BY <1>1, HubHolds, PTL

\* A subscriber that is connected misses no published record, except one that
\* reached the hub after a record that follows it in the journal (deliverLocked
\* disconnects rather than drop).
THEOREM OnlyOvertakenAreMissed ==
  ASSUME MaxBatch \in Nat
  PROVE  Spec => []MissedOnlyOvertaken
<1>1. HubInv => MissedOnlyOvertaken
  BY DEF HubInv, AllSound, Sound, Complete, MissedOnlyOvertaken
<1> QED BY <1>1, HubHolds, PTL

(***************************************************************************)
(* A channel is never given more than it holds: what is sent under the     *)
(* hub's mutex does not block.                                             *)
(***************************************************************************)
HasRoom(r) == Len(r.channel) <= Buffer

LEMMA DeliveredRoom ==
  ASSUME Buffer \in Nat, NEW r \in Subscriptions, NEW x \in Record, HasRoom(r)
  PROVE  HasRoom(Delivered(r, x))
<1> DEFINE k == Delivered(r, x)
<1>1. r.channel \in Seq(Record) BY DEF Subscriptions
<1>2. CASE k.channel = r.channel BY <1>2 DEF HasRoom
<1>3. CASE k = Enqueued(r, x) /\ Fits(r)
  <2> DEFINE y == [x EXCEPT !.dropped = r.dropped]
  <2>1. k.channel = Append(r.channel, y) BY <1>3 DEF Enqueued, Subscriptions
  <2>2. Len(k.channel) = Len(r.channel) + 1 BY <1>1, <2>1
  <2> QED BY <1>1, <1>3, <2>2 DEF Fits, HasRoom
<1>4. Overflowed(r, x).channel = r.channel BY DEF Overflowed, Disconnected, Subscriptions
<1> QED BY <1>2, <1>3, <1>4 DEF Delivered

LEMMA ReplayRoom ==
  ASSUME Buffer \in Nat, NEW r \in Subscriptions, r.channel = <<>>, r.last = r.after,
         NEW records \in Seq(Nat)
  PROVE  HasRoom(Replay(r, records)[Len(records)])
<1> DEFINE at(n) == Replay(r, records)[n]
           Bad == {n \in 0..Len(records) : ~HasRoom(at(n))}
<1>0. Len(records) \in Nat /\ Len(records) \in 0..Len(records)
  OBVIOUS
<1>1. SUFFICES ASSUME Bad # {} PROVE FALSE BY <1>0
<1>2. PICK k \in Bad : \A m \in Bad : k <= m
  <2>1. Bad \in SUBSET Nat
    OBVIOUS
  <2> HIDE DEF Bad
  <2> QED BY <1>1, <2>1, Least
<1>3. HasRoom(at(0))
  <2>1. at(0) = r BY ReplaySteps
  <2> QED BY <2>1 DEF HasRoom
<1>4. k \in 1..Len(records) /\ k - 1 \in 0..Len(records) /\ k - 1 \notin Bad
  <2>1. k \in 0..Len(records) BY <1>2
  <2>2. k # 0 BY <1>2, <1>3
  <2> QED BY <1>0, <1>2, <2>1, <2>2
<1>5. HasRoom(at(k - 1)) /\ at(k - 1) \in Subscriptions BY <1>4, ReplaySound DEF Sound
<1>6. at(k) = Delivered(at(k - 1), Durable(records[k])) BY <1>4, ReplaySteps, SMTT(30)
<1>7. Durable(records[k]) \in Record BY <1>4 DEF Durable, Record
<1> HIDE DEF at
<1>8. HasRoom(at(k)) BY <1>5, <1>6, <1>7, DeliveredRoom
<1> QED BY <1>2, <1>8

AllRoom == \A s \in Subs : HasRoom(sub[s])

\* A step of one subscriber.
LEMMA OneRoom ==
  ASSUME HubInv, AllRoom, NEW s \in Subs, NEW r, sub' = [sub EXCEPT ![s] = r], HasRoom(r)
  PROVE  AllRoom'
BY DEF HubInv, Types, AllRoom, HasRoom

LEMMA NextRoom ==
  ASSUME Buffer \in Nat, HubInv, AllRoom, [Next]_vars
  PROVE  AllRoom'
<1> USE DEF AllRoom
<1>0. \A s \in Subs : sub[s] \in Subscriptions /\ sub[s].channel \in Seq(Record)
  BY DEF HubInv, Types, Subscriptions
<1>1. ASSUME NEW x \in Record, sub' = [s \in Subs |-> Delivered(sub[s], x)]
      PROVE  AllRoom'
  <2> SUFFICES ASSUME NEW s \in Subs PROVE HasRoom(sub'[s])
    BY DEF HasRoom
  <2>1. HasRoom(sub[s])
    OBVIOUS
  <2>2. HasRoom(Delivered(sub[s], x)) BY <1>0, <2>1, DeliveredRoom
  <2> QED BY <1>1, <2>2
<1>2. CASE UNCHANGED sub BY <1>2 DEF HasRoom
<1>3. ASSUME NEW w \in Writers, Publish(w)
      PROVE  AllRoom'
  <2> DEFINE c == Head(unsent[w])
  <2>1. c \in Nat BY <1>3 DEF HubInv, Types, Publish
  <2>2. Durable(c) \in Record BY <2>1 DEF Durable, Record
  <2>3. UNCHANGED sub \/ sub' = [s \in Subs |-> Delivered(sub[s], Durable(c))]
    BY <1>3 DEF Publish
  <2> QED BY <1>1, <1>2, <2>2, <2>3
<1>4. ASSUME PublishPreview
      PROVE  AllRoom'
  <2> DEFINE x == [cursor |-> cursor, preview |-> TRUE, dropped |-> 0]
  <2>1. x \in Record BY DEF HubInv, Types, Record
  <2>2. sub' = [s \in Subs |-> Delivered(sub[s], x)] BY <1>4 DEF PublishPreview
  <2> QED BY <1>1, <2>1, <2>2
<1>5. ASSUME Close
      PROVE  AllRoom'
  <2> SUFFICES ASSUME NEW s \in Subs PROVE HasRoom(sub'[s])
    BY DEF HasRoom
  <2>1. sub'[s] = sub[s] \/ sub'[s] = Disconnected(sub[s], "end") BY <1>5 DEF Close
  <2>2. sub'[s].channel = sub[s].channel BY <1>0, <2>1, DisconnectedParts
  <2> QED BY <2>2 DEF HasRoom
<1>6. ASSUME NEW s \in Subs, Unsubscribe(s)
      PROVE  AllRoom'
  <2> DEFINE r == Disconnected(sub[s], "closed")
  <2>1. r.channel = sub[s].channel BY <1>0, DisconnectedParts
  <2>2. sub' = [sub EXCEPT ![s] = r] BY <1>6 DEF Unsubscribe
  <2> HIDE DEF r
  <2>3. HasRoom(r) BY <2>1 DEF HasRoom
  <2> QED BY <2>2, <2>3, OneRoom
<1>7. ASSUME NEW s \in Subs, NEW after \in 0..top, NEW p \in BOOLEAN, Subscribe(s, after, p)
      PROVE  AllRoom'
  <2>1. PICK r : /\ sub' = [sub EXCEPT ![s] = r]
                 /\ r = Replayed(Registered(after, p)) \/ r = Refused(after, p)
    BY <1>7, SubscribeSound
  <2>2. HasRoom(Refused(after, p)) BY SubscribeParts DEF HasRoom
  <2>3. HasRoom(Replayed(Registered(after, p)))
    <3> DEFINE new == Registered(after, p)
    <3>1. new \in Subscriptions /\ new.channel = <<>> /\ new.last = new.after
      BY SubscribeParts
    <3>2. history \in Seq(Nat) BY DEF HubInv, Types
    <3> HIDE DEF new
    <3>3. HasRoom(Replay(new, history)[Len(history)]) BY <3>1, <3>2, ReplayRoom
    <3> QED BY <3>3 DEF Replayed, new
  <2> QED BY <2>1, <2>2, <2>3, OneRoom
<1>8. ASSUME NEW s \in Subs, Receive(s)
      PROVE  AllRoom'
  <2>1. PICK r, k : /\ sub' = [sub EXCEPT ![s] = r] /\ sub[s].channel # <<>>
                    /\ r = [sub[s] EXCEPT !.channel = Tail(@)]
    <3>1. PICK r, k : sub' = [sub EXCEPT ![s] = r] /\ Reads(sub[s], reader[s].got, r, k.got)
      BY <1>8, ReceiveParts
    <3> QED BY <3>1 DEF Reads
  <2>2. r.channel = Tail(sub[s].channel) BY <1>0, <2>1 DEF Subscriptions
  <2>3. HasRoom(r) BY <1>0, <2>1, <2>2 DEF HasRoom
  <2> QED BY <2>1, <2>3, OneRoom
<1>9. CASE Writer BY <1>2, <1>3, <1>9 DEF Writer, Commit
<1>10. CASE Reader BY <1>2, <1>8, <1>10 DEF Reader, Settle
<1>11. CASE Subscriber BY <1>6, <1>7, <1>11 DEF Subscriber
<1> QED BY <1>2, <1>4, <1>5, <1>9, <1>10, <1>11 DEF Next, vars

\* Every variable keeps its type, and a channel holds no more than it was made
\* for: the hub never blocks on a reader that is slow (deliverLocked).
THEOREM NeverBlocks ==
  ASSUME Buffer \in Nat, MaxBatch \in Nat
  PROVE  Spec => []TypeOK
<1>1. Init => AllRoom BY DEF Init, AllRoom, HasRoom, Fresh
<1>2. HubInv /\ AllRoom /\ [Next]_vars => AllRoom' BY NextRoom
<1>3. HubInv /\ AllRoom => TypeOK
  BY DEF HubInv, Types, AllRoom, HasRoom, TypeOK, Subscriptions, Readers
<1> QED BY <1>1, <1>2, <1>3, HubHolds, PTL DEF Spec

(***************************************************************************)
(* Previews may be lost, but each is reported: Reported adds up what the   *)
(* records of a channel tell, and changes with the channel.                *)
(***************************************************************************)
IsSum(f, channel, len) ==
  f = [n \in 0..len |-> IF n = 0 THEN 0 ELSE f[n - 1] + channel[n].dropped]

LEMMA SumExists ==
  ASSUME NEW channel, NEW len \in Nat
  PROVE  \E f : IsSum(f, channel, len)
<1> DEFINE Bad == {k \in Nat : ~\E f : IsSum(f, channel, k)}
<1>1. SUFFICES ASSUME Bad # {} PROVE FALSE
  OBVIOUS
<1>2. PICK k \in Bad : \A m \in Bad : k <= m
  <2>1. Bad \in SUBSET Nat
    OBVIOUS
  <2> HIDE DEF Bad
  <2> QED BY <1>1, <2>1, Least
<1>3. CASE k = 0
  <2> DEFINE f == [n \in 0..0 |-> 0]
  <2>1. IsSum(f, channel, 0) BY DEF IsSum
  <2> HIDE DEF f
  <2> QED BY <1>2, <1>3, <2>1
<1>4. CASE k # 0
  <2>1. k \in Nat /\ k - 1 \in Nat /\ k - 1 \notin Bad BY <1>2, <1>4
  <2>2. PICK g : IsSum(g, channel, k - 1) BY <2>1
  <2> DEFINE f == [n \in 0..k |-> IF n = k THEN g[k - 1] + channel[k].dropped ELSE g[n]]
  <2>3. \A n \in 0..k : f[n] = IF n = 0 THEN 0 ELSE f[n - 1] + channel[n].dropped
    <3> TAKE n \in 0..k
    <3>1. CASE n = k BY <1>4, <2>1, <3>1
    <3>2. CASE n # k
      <4>1. n \in 0..(k - 1) /\ (n # 0 => n - 1 \in 0..(k - 1) /\ n - 1 # k) BY <2>1, <3>2
      <4>2. g[n] = IF n = 0 THEN 0 ELSE g[n - 1] + channel[n].dropped
        BY <2>2, <4>1 DEF IsSum
      <4> QED BY <2>1, <3>2, <4>1, <4>2
    <3> QED BY <3>1, <3>2
  <2>4. IsSum(f, channel, k) BY <2>3 DEF IsSum
  <2> HIDE DEF f
  <2> QED BY <1>2, <2>4
<1> QED BY <1>3, <1>4

\* The sums up to each record, and the last of them.
LEMMA SumSteps ==
  ASSUME NEW channel \in Seq(Record)
  PROVE  \E f : /\ f[0] = 0 /\ Reported(channel) = f[Len(channel)]
                /\ \A n \in 1..Len(channel) : f[n] = f[n - 1] + channel[n].dropped
<1>1. Len(channel) \in Nat
  OBVIOUS
<1>2. PICK f : IsSum(f, channel, Len(channel)) /\ Reported(channel) = f[Len(channel)]
  <2> DEFINE f == CHOOSE f : IsSum(f, channel, Len(channel))
  <2>1. IsSum(f, channel, Len(channel)) BY <1>1, SumExists
  <2>2. Reported(channel) = f[Len(channel)] BY DEF Reported, IsSum
  <2> QED BY <2>1, <2>2
<1>3. \A n \in 0..Len(channel) : f[n] = IF n = 0 THEN 0 ELSE f[n - 1] + channel[n].dropped
  BY <1>2 DEF IsSum
<1> QED BY <1>1, <1>2, <1>3

\* f adds up d, to what there was before.
Adds(f, d, before, len) ==
  f[0] = before /\ \A n \in 1..len : d[n] \in Nat /\ f[n] = f[n - 1] + d[n]

LEMMA SumsAgree ==
  ASSUME NEW f, NEW g, NEW len \in Nat, NEW before \in Nat, NEW d,
         Adds(f, d, 0, len), Adds(g, d, before, len)
  PROVE  f[len] \in Nat /\ g[len] = before + f[len]
<1> DEFINE Bad == {n \in 0..len : ~(f[n] \in Nat /\ g[n] = before + f[n])}
<1>1. SUFFICES ASSUME Bad # {} PROVE FALSE
  <2>1. len \in 0..len
    OBVIOUS
  <2> QED BY <2>1
<1>2. PICK k \in Bad : \A m \in Bad : k <= m
  <2>1. Bad \in SUBSET Nat
    OBVIOUS
  <2> HIDE DEF Bad
  <2> QED BY <1>1, <2>1, Least
<1>3. k \in 1..len /\ k - 1 \in 0..len
  <2>1. k \in 0..len BY <1>2
  <2>2. k # 0 BY <1>2 DEF Adds
  <2> QED BY <2>1, <2>2
<1>4. k - 1 \notin Bad BY <1>2, <1>3
<1>5. f[k - 1] \in Nat /\ g[k - 1] = before + f[k - 1] BY <1>3, <1>4
<1>6. d[k] \in Nat /\ f[k] = f[k - 1] + d[k] /\ g[k] = g[k - 1] + d[k] BY <1>3 DEF Adds
<1>7. f[k] \in Nat /\ g[k] = before + f[k] BY <1>5, <1>6
<1> QED BY <1>2, <1>7

LEMMA ReportedNone ==
  Reported(<<>>) = 0
<1>1. <<>> \in Seq(Record) /\ Len(<<>>) = 0
  OBVIOUS
<1> QED BY <1>1, SumSteps

LEMMA ReportedNat ==
  ASSUME NEW channel \in Seq(Record)
  PROVE  Reported(channel) \in Nat
<1>1. PICK f : /\ f[0] = 0 /\ Reported(channel) = f[Len(channel)]
               /\ \A n \in 1..Len(channel) : f[n] = f[n - 1] + channel[n].dropped
  BY SumSteps
<1> DEFINE len == Len(channel)
           d == [n \in 1..len |-> channel[n].dropped]
<1>2. len \in Nat /\ \A n \in 1..len : channel[n] \in Record
  OBVIOUS
<1>3. Adds(f, d, 0, len) BY <1>1, <1>2 DEF Adds, Record
<1> HIDE DEF d
<1>4. f[len] \in Nat BY <1>2, <1>3, SumsAgree
<1> QED BY <1>1, <1>4

LEMMA ReportedMore ==
  ASSUME NEW channel \in Seq(Record), NEW x \in Record
  PROVE  Reported(Append(channel, x)) = Reported(channel) + x.dropped
<1> DEFINE more == Append(channel, x)
           len == Len(channel)
<1>1. more \in Seq(Record) /\ Len(more) = len + 1 /\ len \in Nat /\ more[len + 1] = x
      /\ \A n \in 1..len : more[n] = channel[n] /\ channel[n] \in Record
  OBVIOUS
<1>2. PICK f : /\ f[0] = 0 /\ Reported(channel) = f[len]
               /\ \A n \in 1..len : f[n] = f[n - 1] + channel[n].dropped
  BY SumSteps
<1>3. PICK g : /\ g[0] = 0 /\ Reported(more) = g[Len(more)]
               /\ \A n \in 1..Len(more) : g[n] = g[n - 1] + more[n].dropped
  BY <1>1, SumSteps
<1> DEFINE d == [n \in 1..len |-> channel[n].dropped]
<1>4. Adds(f, d, 0, len) BY <1>1, <1>2 DEF Adds, Record
<1> HIDE DEF more
<1>5. Adds(g, d, 0, len)
  <2>1. ASSUME NEW n \in 1..len
        PROVE  d[n] \in Nat /\ g[n] = g[n - 1] + d[n]
    <3>1. n \in 1..Len(more) /\ more[n] = channel[n] /\ d[n] = channel[n].dropped BY <1>1
    <3> QED BY <1>1, <1>3, <3>1 DEF Record
  <2> HIDE DEF d
  <2> QED BY <1>3, <2>1 DEF Adds
<1>6. g[len + 1] = g[len] + x.dropped BY <1>1, <1>3
<1> HIDE DEF d, len
<1>7. g[len] = 0 + f[len] /\ f[len] \in Nat BY <1>1, <1>4, <1>5, SumsAgree
<1>8. g[len] = f[len] BY <1>7
<1>9. Reported(more) = Reported(channel) + x.dropped BY <1>1, <1>2, <1>3, <1>6, <1>8
<1> QED BY <1>9 DEF more

LEMMA ReportedLess ==
  ASSUME NEW channel \in Seq(Record), channel # <<>>
  PROVE  Reported(channel) = Head(channel).dropped + Reported(Tail(channel))
<1> DEFINE rest == Tail(channel)
           len == Len(rest)
<1>1. rest \in Seq(Record) /\ Len(channel) = len + 1 /\ len \in Nat
      /\ channel[1] \in Record /\ Head(channel) = channel[1]
      /\ \A n \in 1..len : rest[n] = channel[n + 1] /\ rest[n] \in Record
  OBVIOUS
<1>2. PICK f : /\ f[0] = 0 /\ Reported(rest) = f[len]
               /\ \A n \in 1..len : f[n] = f[n - 1] + rest[n].dropped
  BY <1>1, SumSteps
<1>3. PICK g : /\ g[0] = 0 /\ Reported(channel) = g[Len(channel)]
               /\ \A n \in 1..Len(channel) : g[n] = g[n - 1] + channel[n].dropped
  BY SumSteps
<1> DEFINE d == [n \in 1..len |-> rest[n].dropped]
           h == [n \in 0..len |-> g[n + 1]]
<1>4. Adds(f, d, 0, len) BY <1>1, <1>2 DEF Adds, Record
<1> HIDE DEF rest
<1>6. \A n \in 1..len : d[n] \in Nat /\ h[n] = h[n - 1] + d[n]
  <2> TAKE n \in 1..len
  <2>1. n + 1 \in 1..Len(channel) /\ (n + 1) - 1 = n /\ n - 1 \in 0..len /\ n \in 0..len
        /\ (n - 1) + 1 = n
    BY <1>1
  <2>2. g[n + 1] = g[n] + channel[n + 1].dropped BY <1>3, <2>1
  <2>3. h[n] = g[n + 1] /\ h[n - 1] = g[n] BY <2>1
  <2> QED BY <1>1, <2>2, <2>3 DEF Record
<1>7. h[0] = channel[1].dropped /\ channel[1].dropped \in Nat /\ h[len] = g[Len(channel)]
  <2>1. g[1] = g[0] + channel[1].dropped /\ channel[1].dropped \in Nat
    BY <1>1, <1>3 DEF Record
  <2>2. h[0] = g[1] /\ h[len] = g[len + 1] BY <1>1
  <2> QED BY <1>1, <1>3, <2>1, <2>2
<1> DEFINE b == channel[1].dropped
<1>8. Adds(h, d, b, len) /\ b \in Nat /\ len \in Nat BY <1>1, <1>6, <1>7 DEF Adds
<1> HIDE DEF d, h, len, b
<1>9. h[len] = b + f[len]
  <2>1. b \in Nat /\ len \in Nat /\ Adds(h, d, b, len) BY <1>8
  <2> QED BY <1>4, <2>1, SumsAgree, ZenonT(30)
<1> QED BY <1>1, <1>2, <1>3, <1>7, <1>9 DEF rest, b

\* What a subscriber has been told of, or will be.
Owed(r) == r.dropped + Reported(r.channel)

Lost(r, x) == IF Wanted(r, x) /\ ~Fits(r) /\ x.preview THEN 1 ELSE 0

LEMMA DisconnectedOwed ==
  ASSUME NEW r \in Subscriptions, NEW err
  PROVE  Owed(Disconnected(r, err)) = Owed(r)
BY DEF Owed, Disconnected, Subscriptions

LEMMA DeliveredOwed ==
  ASSUME NEW r \in Subscriptions, NEW x \in Record, x.dropped = 0
  PROVE  Owed(Delivered(r, x)) = Owed(r) + Lost(r, x)
<1>1. r.channel \in Seq(Record) /\ r.dropped \in Nat /\ Reported(r.channel) \in Nat
  BY ReportedNat DEF Subscriptions
<1>2. CASE ~Wanted(r, x) BY <1>1, <1>2 DEF Delivered, Lost, Owed
<1>3. CASE Wanted(r, x) /\ Fits(r)
  <2> DEFINE y == [x EXCEPT !.dropped = r.dropped]
             k == Delivered(r, x)
  <2>1. y \in Record /\ y.dropped = r.dropped BY <1>1 DEF Record
  <2>2. k.channel = Append(r.channel, y) /\ k.dropped = 0
    BY <1>3 DEF Delivered, Enqueued, Subscriptions
  <2> HIDE DEF y, k
  <2>3. Reported(k.channel) = Reported(r.channel) + r.dropped
    BY <1>1, <2>1, <2>2, ReportedMore
  <2>4. Owed(k) = Owed(r) BY <1>1, <2>2, <2>3 DEF Owed
  <2>5. Lost(r, x) = 0 /\ Owed(r) \in Nat BY <1>1, <1>3 DEF Lost, Owed
  <2> QED BY <2>4, <2>5 DEF k
<1>4. CASE Wanted(r, x) /\ ~Fits(r) /\ x.preview
  <2> DEFINE k == [r EXCEPT !.dropped = @ + 1]
  <2>1. Delivered(r, x) = k BY <1>4 DEF Delivered, Overflowed
  <2>2. k.channel = r.channel /\ k.dropped = r.dropped + 1 BY DEF Subscriptions
  <2> HIDE DEF k
  <2>3. Owed(k) = Owed(r) + 1 BY <1>1, <2>2 DEF Owed
  <2> QED BY <1>4, <2>1, <2>3 DEF Lost
<1>5. CASE Wanted(r, x) /\ ~Fits(r) /\ ~x.preview
  <2>1. Delivered(r, x) = Disconnected(r, "lagged") /\ Lost(r, x) = 0
    BY <1>5 DEF Delivered, Overflowed, Lost
  <2>2. Owed(r) \in Nat BY <1>1 DEF Owed
  <2> QED BY <2>1, <2>2, DisconnectedOwed
<1> QED BY <1>2, <1>3, <1>4, <1>5

\* Durable records lose no preview.
LEMMA PublishedOwed ==
  ASSUME NEW r \in Subscriptions, NEW c \in Nat
  PROVE  Owed(Delivered(r, Durable(c))) = Owed(r)
<1> DEFINE x == Durable(c)
<1>1. x \in Record /\ x.dropped = 0 /\ ~x.preview BY DEF Durable, Record
<1>2. Owed(r) \in Nat BY ReportedNat DEF Owed, Subscriptions
<1> HIDE DEF x
<1>3. Lost(r, x) = 0 BY <1>1 DEF Lost
<1>4. Owed(Delivered(r, x)) = Owed(r) + Lost(r, x) BY <1>1, DeliveredOwed
<1> QED BY <1>2, <1>3, <1>4 DEF x

LEMMA ReplayOwed ==
  ASSUME NEW r \in Subscriptions, r.channel = <<>>, r.last = r.after, NEW records \in Seq(Nat)
  PROVE  Owed(Replay(r, records)[Len(records)]) = Owed(r)
<1> DEFINE at(n) == Replay(r, records)[n]
           Bad == {n \in 0..Len(records) : Owed(at(n)) # Owed(r)}
<1>0. Len(records) \in Nat /\ Len(records) \in 0..Len(records)
  OBVIOUS
<1>1. SUFFICES ASSUME Bad # {} PROVE FALSE BY <1>0
<1>2. PICK k \in Bad : \A m \in Bad : k <= m
  <2>1. Bad \in SUBSET Nat
    OBVIOUS
  <2> HIDE DEF Bad
  <2> QED BY <1>1, <2>1, Least
<1>3. Owed(at(0)) = Owed(r) BY ReplaySteps
<1>4. k \in 1..Len(records) /\ k - 1 \in 0..Len(records) /\ k - 1 \notin Bad
  <2>1. k \in 0..Len(records) BY <1>2
  <2>2. k # 0 BY <1>2, <1>3
  <2> QED BY <1>0, <1>2, <2>1, <2>2
<1>5. Owed(at(k - 1)) = Owed(r) /\ at(k - 1) \in Subscriptions
  BY <1>4, ReplaySound DEF Sound
<1>6. at(k) = Delivered(at(k - 1), Durable(records[k])) /\ records[k] \in Nat
  BY <1>4, ReplaySteps, SMTT(30)
<1> HIDE DEF at
<1>7. Owed(at(k)) = Owed(r) BY <1>5, <1>6, PublishedOwed
<1> QED BY <1>2, <1>7

Balanced(r, k) == k.lost = k.told + Owed(r)
AllBalanced == \A s \in Subs : Balanced(sub[s], reader[s])

LEMMA BalancedSame ==
  ASSUME NEW r, NEW q, NEW k, NEW j, Balanced(r, k), Owed(q) = Owed(r), j.lost = k.lost, j.told = k.told
  PROVE  Balanced(q, j)
BY DEF Balanced

LEMMA InitBalanced ==
  Init => AllBalanced
<1>1. Reported(<<>>) = 0 BY ReportedNone
<1> QED BY <1>1 DEF Init, AllBalanced, Balanced, Owed, Fresh, NoReader

LEMMA OneBalanced ==
  ASSUME HubInv, AllBalanced, NEW s \in Subs, NEW r, NEW k, sub' = [sub EXCEPT ![s] = r],
         reader' = [reader EXCEPT ![s] = k], Balanced(r, k)
  PROVE  AllBalanced'
<1> SUFFICES ASSUME NEW t \in Subs PROVE Balanced(sub'[t], reader'[t])
  BY DEF AllBalanced, Balanced, Owed
<1>1. Balanced(sub[t], reader[t]) BY DEF AllBalanced
<1>2. CASE t = s
  <2>1. sub'[t] = r /\ reader'[t] = k BY <1>2 DEF HubInv, Types
  <2> QED BY <2>1
<1>3. CASE t # s
  <2>1. sub'[t] = sub[t] /\ reader'[t] = reader[t] BY <1>3 DEF HubInv, Types
  <2> QED BY <1>1, <2>1
<1> QED BY <1>2, <1>3

LEMMA NextBalanced ==
  ASSUME HubInv, AllBalanced, [Next]_vars
  PROVE  AllBalanced'
<1>0. \A s \in Subs : sub[s] \in Subscriptions /\ reader[s] \in Readers /\ Balanced(sub[s], reader[s])
  BY DEF HubInv, Types, AllBalanced
<1>2. CASE UNCHANGED <<sub, reader>> BY <1>2 DEF AllBalanced, Balanced, Owed
<1>3. ASSUME NEW w \in Writers, Publish(w)
      PROVE  AllBalanced'
  <2> DEFINE c == Head(unsent[w])
  <2>1. c \in Nat BY <1>3 DEF HubInv, Types, Publish
  <2>2. reader' = reader /\ (UNCHANGED sub \/ sub' = [s \in Subs |-> Delivered(sub[s], Durable(c))])
    BY <1>3 DEF Publish
  <2>3. CASE UNCHANGED sub BY <1>2, <2>2, <2>3
  <2>4. CASE sub' = [s \in Subs |-> Delivered(sub[s], Durable(c))]
    <3> HIDE DEF c
    <3> SUFFICES ASSUME NEW s \in Subs PROVE Balanced(sub'[s], reader'[s])
      BY DEF AllBalanced, Balanced, Owed
    <3>1. Owed(Delivered(sub[s], Durable(c))) = Owed(sub[s]) BY <1>0, <2>1, PublishedOwed
    <3>2. sub'[s] = Delivered(sub[s], Durable(c)) /\ reader'[s] = reader[s] BY <2>2, <2>4
    <3> QED BY <1>0, <3>1, <3>2, BalancedSame
  <2> QED BY <2>2, <2>3, <2>4
<1>4. ASSUME PublishPreview
      PROVE  AllBalanced'
  <2> DEFINE x == [cursor |-> cursor, preview |-> TRUE, dropped |-> 0]
  <2>1. x \in Record /\ x.preview /\ x.dropped = 0 BY DEF HubInv, Types, Record
  <2>2. /\ sub' = [s \in Subs |-> Delivered(sub[s], x)]
        /\ reader' = [s \in Subs |->
             IF Wanted(sub[s], x) /\ ~Fits(sub[s])
             THEN [reader[s] EXCEPT !.lost = @ + 1] ELSE reader[s]]
    BY <1>4 DEF PublishPreview
  <2> HIDE DEF x
  <2> SUFFICES ASSUME NEW s \in Subs PROVE Balanced(sub'[s], reader'[s])
    BY DEF AllBalanced, Balanced, Owed
  <2>3. sub'[s] = Delivered(sub[s], x)
        /\ Owed(Delivered(sub[s], x)) = Owed(sub[s]) + Lost(sub[s], x)
    BY <1>0, <2>1, <2>2, DeliveredOwed
  <2>4. reader'[s].told = reader[s].told /\ reader'[s].lost = reader[s].lost + Lost(sub[s], x)
    <3>1. CASE Wanted(sub[s], x) /\ ~Fits(sub[s])
      <4>1. reader'[s] = [reader[s] EXCEPT !.lost = @ + 1] /\ reader[s] \in Readers
        BY <1>0, <2>2, <3>1
      <4>2. Lost(sub[s], x) = 1 BY <2>1, <3>1 DEF Lost
      <4> QED BY <4>1, <4>2 DEF Readers
    <3>2. CASE ~(Wanted(sub[s], x) /\ ~Fits(sub[s]))
      <4>1. reader'[s] = reader[s] /\ reader[s].lost \in Nat BY <1>0, <2>2, <3>2 DEF Readers
      <4>2. Lost(sub[s], x) = 0 BY <3>2 DEF Lost
      <4> QED BY <4>1, <4>2
    <3> QED BY <3>1, <3>2
  <2>5. /\ reader[s].told \in Nat /\ Owed(sub[s]) \in Nat /\ Lost(sub[s], x) \in Nat
        /\ reader[s].lost = reader[s].told + Owed(sub[s])
    <3>1. Reported(sub[s].channel) \in Nat BY <1>0, ReportedNat DEF Subscriptions
    <3> QED BY <1>0, <3>1 DEF Owed, Lost, Balanced, Subscriptions, Readers
  <2> QED BY <2>3, <2>4, <2>5 DEF Balanced
<1>5. ASSUME Close
      PROVE  AllBalanced'
  <2> SUFFICES ASSUME NEW s \in Subs PROVE Balanced(sub'[s], reader'[s])
    BY DEF AllBalanced, Balanced, Owed
  <2>1. reader'[s] = reader[s] /\ (sub'[s] = sub[s] \/ sub'[s] = Disconnected(sub[s], "end"))
    BY <1>5 DEF Close
  <2>2. Owed(sub'[s]) = Owed(sub[s]) BY <1>0, <2>1, DisconnectedOwed
  <2> QED BY <1>0, <2>1, <2>2, BalancedSame
<1>6. ASSUME NEW s \in Subs, Unsubscribe(s)
      PROVE  AllBalanced'
  <2> DEFINE r == Disconnected(sub[s], "closed")
  <2>1. Owed(r) = Owed(sub[s]) BY <1>0, DisconnectedOwed
  <2>2. sub' = [sub EXCEPT ![s] = r] /\ reader' = [reader EXCEPT ![s] = reader[s]]
    BY <1>6 DEF HubInv, Types, Unsubscribe
  <2> HIDE DEF r
  <2>3. Balanced(r, reader[s]) BY <1>0, <2>1, BalancedSame
  <2> QED BY <2>2, <2>3, OneBalanced
<1>7. ASSUME NEW s \in Subs, NEW after \in 0..top, NEW p \in BOOLEAN, Subscribe(s, after, p)
      PROVE  AllBalanced'
  <2>1. PICK r : /\ sub' = [sub EXCEPT ![s] = r]
                 /\ r = Replayed(Registered(after, p)) \/ r = Refused(after, p)
    BY <1>7, SubscribeSound
  <2>2. sub[s] = Fresh /\ reader[s] \in Readers
    BY <1>0, <1>7 DEF Subscribe, HubInv, FreshIsEmpty
  <2>3. Owed(Fresh) = 0 BY ReportedNone DEF Owed, Fresh
  <2>4. Owed(Registered(after, p)) = 0 /\ Owed(Refused(after, p)) = 0
    BY ReportedNone DEF Owed, Registered, Refused, Disconnected, Fresh
  <2>5. Owed(Replayed(Registered(after, p))) = 0
    <3> DEFINE new == Registered(after, p)
    <3>1. new \in Subscriptions /\ new.channel = <<>> /\ new.last = new.after
      BY SubscribeParts
    <3>2. history \in Seq(Nat) BY DEF HubInv, Types
    <3> HIDE DEF new
    <3>3. Owed(Replay(new, history)[Len(history)]) = Owed(new) BY <3>1, <3>2, ReplayOwed
    <3> QED BY <2>4, <3>3 DEF Replayed, new
  <2> DEFINE k == [reader[s] EXCEPT !.status = "open"]
  <2>6. reader' = [reader EXCEPT ![s] = k] BY <1>7 DEF Subscribe
  <2>7. k.lost = reader[s].lost /\ k.told = reader[s].told BY <2>2 DEF Readers
  <2> HIDE DEF k
  <2>8. Balanced(r, k) BY <1>0, <2>1, <2>2, <2>3, <2>4, <2>5, <2>7, BalancedSame
  <2> QED BY <2>1, <2>6, <2>8, OneBalanced
<1>8. ASSUME NEW s \in Subs, Receive(s)
      PROVE  AllBalanced'
  <2> DEFINE x == Head(sub[s].channel)
             r == [sub[s] EXCEPT !.channel = Tail(@)]
             k == [reader[s] EXCEPT !.told = @ + x.dropped,
                                    !.got = IF x.preview THEN @ ELSE Append(@, x.cursor)]
  <2>1. sub' = [sub EXCEPT ![s] = r] /\ reader' = [reader EXCEPT ![s] = k]
    BY <1>8 DEF HubInv, Types, Receive
  <2>2. sub[s].channel \in Seq(Record) /\ sub[s].channel # <<>> /\ sub[s].dropped \in Nat
    BY <1>0, <1>8 DEF Receive, Subscriptions
  <2>3. x \in Record /\ Tail(sub[s].channel) \in Seq(Record) BY <2>2
  <2>4. r.channel = Tail(sub[s].channel) /\ r.dropped = sub[s].dropped
    BY <1>0 DEF Subscriptions
  <2>5. k.told = reader[s].told + x.dropped /\ k.lost = reader[s].lost BY <1>0 DEF Readers
  <2>6. Reported(sub[s].channel) = x.dropped + Reported(Tail(sub[s].channel))
    BY <2>2, ReportedLess
  <2>7. Reported(Tail(sub[s].channel)) \in Nat /\ x.dropped \in Nat /\ reader[s].told \in Nat
    BY <1>0, <2>3, ReportedNat DEF Record, Readers
  <2> HIDE DEF x, r, k
  <2>8. Balanced(r, k)
    <3>1. reader[s].lost = reader[s].told + Owed(sub[s]) BY <1>0 DEF Balanced
    <3> QED BY <2>2, <2>4, <2>5, <2>6, <2>7, <3>1 DEF Balanced, Owed
  <2> QED BY <2>1, <2>8, OneBalanced
<1>9. ASSUME NEW s \in Subs, Settle(s)
      PROVE  AllBalanced'
  <2> DEFINE k == [reader[s] EXCEPT !.status = "ended"]
  <2>1. reader' = [reader EXCEPT ![s] = k] /\ sub' = [sub EXCEPT ![s] = sub[s]]
    BY <1>9 DEF HubInv, Types, Settle
  <2>2. k.lost = reader[s].lost /\ k.told = reader[s].told BY <1>0 DEF Readers
  <2> HIDE DEF k
  <2>3. Balanced(sub[s], k) BY <1>0, <2>2, BalancedSame
  <2> QED BY <2>1, <2>3, OneBalanced
<1>10. CASE Writer BY <1>2, <1>3, <1>10 DEF Writer, Commit
<1>11. CASE Reader BY <1>8, <1>9, <1>11 DEF Reader
<1>12. CASE Subscriber BY <1>6, <1>7, <1>12 DEF Subscriber
<1> QED BY <1>2, <1>4, <1>5, <1>10, <1>11, <1>12 DEF Next, vars

\* What the hub owes its subscribers, for any number of them and of writers: every
\* preview that did not fit is reported by a later record (Delivery.Dropped), and
\* the three promises above hold with it.
THEOREM ServesSubscribers ==
  ASSUME Buffer \in Nat, MaxBatch \in Nat
  PROVE  Spec => []HubServesSubscribers
<1>1. HubInv /\ AllBalanced /\ [Next]_vars => AllBalanced' BY NextBalanced
<1>2. HubInv /\ AllBalanced => PreviewLossReported
  <2> SUFFICES ASSUME HubInv, AllBalanced, NEW s \in Subs
               PROVE  reader[s].lost = reader[s].told + sub[s].dropped + Reported(sub[s].channel)
    BY DEF PreviewLossReported
  <2>1. reader[s].told \in Nat /\ sub[s].dropped \in Nat /\ Reported(sub[s].channel) \in Nat
    BY ReportedNat DEF HubInv, Types, Subscriptions, Readers
  <2>2. reader[s].lost = reader[s].told + (sub[s].dropped + Reported(sub[s].channel))
    BY DEF AllBalanced, Balanced, Owed
  <2> QED BY <2>1, <2>2
<1>3. Spec => []PreviewLossReported BY <1>1, <1>2, InitBalanced, HubHolds, PTL DEF Spec
<1> QED BY <1>3, NeverBlocks, InOrder, OnlyOvertakenAreMissed, PTL DEF HubServesSubscribers

(***************************************************************************)
(* As long as the records reach the hub in the order of the journal they   *)
(* come without a gap, and so do those that a subscriber has not read yet. *)
(* n is the number of records published.                                   *)
(***************************************************************************)
Upto(r, n) == IF n > r.after THEN n ELSE r.after

Tight(r, got, n) ==
  /\ \A c \in Nat : LastRead(r, got) < c /\ c <= r.last =>
       \E m \in Pending(r.channel) : r.channel[m].cursor = c
  /\ r.last <= Upto(r, n) /\ (r.on => r.last = Upto(r, n))

LEMMA SameTight ==
  ASSUME NEW r, NEW got, NEW n, Tight(r, got, n), NEW k, Same(k, r)
  PROVE  Tight(k, got, n) /\ LastRead(k, got) = LastRead(r, got)
<1>1. LastRead(k, got) = LastRead(r, got) /\ Upto(k, n) = Upto(r, n)
  BY DEF Same, LastRead, Upto
<1>2. ASSUME NEW c \in Nat, LastRead(k, got) < c, c <= k.last
      PROVE  \E m \in Pending(k.channel) : k.channel[m].cursor = c
  BY <1>1, <1>2 DEF Same, Tight
<1> QED BY <1>1, <1>2 DEF Same, Tight

\* A subscriber that reads from the position it asked for.
LEMMA NewTight ==
  ASSUME NEW r \in Subscriptions, r.last = r.after, NEW n \in Nat, ~r.on \/ n = 0
  PROVE  Tight(r, <<>>, n)
<1>1. r.after \in Nat /\ LastRead(r, <<>>) = r.after BY DEF Subscriptions, LastRead
<1> QED BY <1>1 DEF Tight, Upto

\* The record after the n published so far.
LEMMA PublishedTight ==
  ASSUME NEW r \in Subscriptions, NEW got, NEW n \in Nat, Tight(r, got, n)
  PROVE  /\ Tight(Delivered(r, Durable(n + 1)), got, n + 1)
         /\ LastRead(Delivered(r, Durable(n + 1)), got) = LastRead(r, got)
         /\ Delivered(r, Durable(n + 1)).after = r.after
<1> DEFINE x == Durable(n + 1)
           k == Delivered(r, x)
<1>1. r.last \in Nat /\ r.after \in Nat BY DEF Subscriptions
<1>2. x \in Record /\ ~x.preview /\ x.cursor = n + 1 BY DEF Record, Durable
<1>3. k.after = r.after BY <1>2, DeliveredParts
<1>4. LastRead(k, got) = LastRead(r, got) BY <1>3 DEF LastRead
<1>5. CASE ~Wanted(r, x)
  <2>1. k = r BY <1>5 DEF Delivered
  <2>2. ~r.on \/ n + 1 <= r.last BY <1>1, <1>2, <1>5 DEF Wanted, Stale
  <2>3. Tight(r, got, n + 1) BY <1>1, <2>2 DEF Tight, Upto
  <2> QED BY <1>3, <1>4, <2>1, <2>3
<1>6. CASE Wanted(r, x) /\ Fits(r)
  <2> DEFINE new == Len(r.channel) + 1
  <2>1. k = Enqueued(r, x) BY <1>6 DEF Delivered
  <2>2. r.on /\ r.last < n + 1 BY <1>1, <1>2, <1>6 DEF Wanted, Stale
  <2> HIDE DEF k, new
  <2>3. Takes(r, n + 1, k, new) BY <2>1 DEF Takes, new
  <2>4. k.after = r.after /\ k.last = n + 1 BY <2>3, EnqueuedParts
  <2>5. new \in Pending(k.channel) /\ k.channel[new].cursor = n + 1 BY <2>3, EnqueuedParts
  <2>6. \A m \in Pending(r.channel) : m \in Pending(k.channel) /\ k.channel[m] = r.channel[m]
    BY <2>3, EnqueuedParts
  <2>7. r.last = n /\ r.after <= n BY <1>1, <2>2 DEF Tight, Upto
  <2>8. ASSUME NEW c \in Nat, LastRead(k, got) < c, c <= k.last
        PROVE  \E m \in Pending(k.channel) : k.channel[m].cursor = c
    <3>1. CASE c = n + 1 BY <2>5, <3>1
    <3>2. CASE c # n + 1
      <4>1. LastRead(r, got) < c /\ c <= r.last BY <1>4, <2>4, <2>7, <2>8, <3>2
      <4>2. PICK m \in Pending(r.channel) : r.channel[m].cursor = c BY <4>1 DEF Tight
      <4> QED BY <2>6, <4>2
    <3> QED BY <3>1, <3>2
  <2>9. Upto(k, n + 1) = n + 1 BY <1>1, <2>4, <2>7 DEF Upto
  <2>10. Tight(k, got, n + 1) BY <2>4, <2>8, <2>9 DEF Tight
  <2> QED BY <1>3, <1>4, <2>10 DEF k
<1>7. CASE Wanted(r, x) /\ ~Fits(r)
  <2>1. k = Disconnected(r, "lagged") BY <1>2, <1>7 DEF Delivered, Overflowed
  <2>2. Same(k, r) /\ ~k.on /\ k.last = r.last BY <2>1, DisconnectedSame, DisconnectedParts
  <2> HIDE DEF k
  <2>3. Tight(k, got, n) BY <2>2, SameTight
  <2>4. Tight(k, got, n + 1) BY <1>1, <1>3, <2>2, <2>3 DEF Tight, Upto
  <2> QED BY <1>3, <1>4, <2>4 DEF k
<1> QED BY <1>5, <1>6, <1>7

LEMMA ReplayTight ==
  ASSUME NEW r \in Subscriptions, r.channel = <<>>, r.last = r.after,
         NEW records \in Seq(Nat), \A n \in DOMAIN records : records[n] = n
  PROVE  Tight(Replay(r, records)[Len(records)], <<>>, Len(records))
<1> DEFINE at(n) == Replay(r, records)[n]
           Bad == {n \in 0..Len(records) : ~Tight(at(n), <<>>, n)}
<1>0. Len(records) \in Nat /\ Len(records) \in 0..Len(records)
  OBVIOUS
<1>1. SUFFICES ASSUME Bad # {} PROVE FALSE BY <1>0
<1>2. PICK k \in Bad : \A m \in Bad : k <= m
  <2>1. Bad \in SUBSET Nat
    OBVIOUS
  <2> HIDE DEF Bad
  <2> QED BY <1>1, <2>1, Least
<1>3. Tight(at(0), <<>>, 0) BY ReplaySteps, NewTight
<1>4. k \in 1..Len(records) /\ k - 1 \in 0..Len(records) /\ k - 1 \notin Bad
      /\ k - 1 \in Nat /\ (k - 1) + 1 = k
  <2>1. k \in 0..Len(records) BY <1>2
  <2>2. k # 0 BY <1>2, <1>3
  <2> QED BY <1>0, <1>2, <2>1, <2>2
<1>5. Tight(at(k - 1), <<>>, k - 1) BY <1>4
<1>6. at(k) = Delivered(at(k - 1), Durable(k))
  <2>1. records[k] = k BY <1>4
  <2> QED BY <1>4, <2>1, ReplaySteps
<1>7. at(k - 1) \in Subscriptions BY <1>4, ReplaySound DEF Sound
<1> HIDE DEF at
<1>8. Tight(at(k), <<>>, k) BY <1>4, <1>5, <1>6, <1>7, PublishedTight
<1> QED BY <1>2, <1>8

\* The next record a reader gets is the one after the last it got.
LEMMA ReceivedTight ==
  ASSUME NEW r, NEW got, NEW records, Sound(r, got, records),
         NEW n, Tight(r, got, n), NEW k, NEW all, Reads(r, got, k, all)
  PROVE  /\ Tight(k, all, n)
         /\ ~Head(r.channel).preview =>
              /\ Head(r.channel).cursor = LastRead(r, got) + 1
              /\ Head(r.channel).cursor <= r.last
<1> DEFINE rest == Tail(r.channel)
           x == r.channel[1]
<1>1. r \in Subscriptions /\ got \in Seq(Nat) /\ r.channel \in Seq(Record) /\ r.last \in Nat
      /\ r.after \in Nat
  BY DEF Sound, Subscriptions
<1>2. OneLess(r.channel, rest) BY <1>1 DEF OneLess, Reads
<1> HIDE DEF rest
<1>3. /\ rest \in Seq(Record) /\ Head(r.channel) = x /\ x \in Record
      /\ ~x.preview <=> 1 \in Pending(r.channel)
      /\ \A m \in Pending(r.channel) : m \in Nat /\ m >= 1
           /\ (m > 1 => m - 1 \in Pending(rest) /\ rest[m - 1] = r.channel[m])
  BY <1>2, LessPending
<1>4. k.channel = rest /\ k.after = r.after /\ k.last = r.last /\ (k.on <=> r.on)
  BY <1>1 DEF Subscriptions, rest, Reads
<1>5. LastRead(k, all) = IF Head(r.channel).preview THEN LastRead(r, got) ELSE Head(r.channel).cursor
  BY ReceivedSound
<1>6. x.cursor \in Nat /\ LastRead(r, got) \in Nat
  <2>1. LastRead(r, got) \in Nat BY <1>1 DEF LastRead
  <2> QED BY <1>3, <2>1 DEF Record
<1>7. \A m \in Pending(r.channel) :
        r.channel[m].cursor <= r.last /\ r.channel[m].cursor > LastRead(r, got)
  BY DEF Sound, Ordered, Ascending
<1>8. \A m \in Pending(r.channel) :
        1 \in Pending(r.channel) /\ m > 1 => x.cursor < r.channel[m].cursor
  BY DEF Sound, Ordered, Ascending
<1>9. ASSUME ~x.preview
      PROVE  x.cursor = LastRead(r, got) + 1 /\ x.cursor <= r.last
  <2>1. 1 \in Pending(r.channel) BY <1>3, <1>9, Zenon
  <2>2. x.cursor <= r.last /\ x.cursor > LastRead(r, got) BY <1>7, <2>1
  <2>3. PICK m \in Pending(r.channel) : r.channel[m].cursor = LastRead(r, got) + 1
    <3> DEFINE c == LastRead(r, got) + 1
    <3>1. c \in Nat /\ LastRead(r, got) < c /\ c <= r.last BY <1>1, <1>6, <2>2
    <3> HIDE DEF c
    <3>2. \E m \in Pending(r.channel) : r.channel[m].cursor = c BY <3>1 DEF Tight
    <3> QED BY <3>2 DEF c
  <2>4. CASE m > 1 BY <1>6, <1>8, <2>1, <2>2, <2>3, <2>4
  <2>5. CASE m = 1 BY <2>2, <2>3, <2>5
  <2> QED BY <1>3, <2>4, <2>5
<1>10. ASSUME NEW c \in Nat, LastRead(k, all) < c, c <= k.last
       PROVE  \E m \in Pending(k.channel) : k.channel[m].cursor = c
  <2>1. LastRead(r, got) < c /\ (~x.preview => x.cursor < c)
    BY <1>3, <1>5, <1>6, <1>9, <1>10
  <2>2. PICK m \in Pending(r.channel) : r.channel[m].cursor = c
    BY <1>4, <1>10, <2>1 DEF Tight
  <2>3. m # 1
    <3>1. CASE m = 1
      <4>1. ~x.preview /\ x.cursor = c BY <2>2, <3>1 DEF Pending
      <4> QED BY <1>6, <2>1, <4>1
    <3> QED BY <3>1
  <2>4. m - 1 \in Pending(rest) /\ rest[m - 1] = r.channel[m] BY <1>3, <2>3
  <2> QED BY <1>4, <2>2, <2>4
<1>11. Upto(k, n) = Upto(r, n) BY <1>4 DEF Upto
<1>12. k.last <= Upto(k, n) /\ (k.on => k.last = Upto(k, n)) BY <1>4, <1>11 DEF Tight
<1> QED BY <1>3, <1>9, <1>10, <1>12 DEF Tight

InLine ==
  /\ Len(history) <= top /\ InSequence
  /\ \A w \in Writers : \A i \in DOMAIN unsent[w] : unsent[w][i] <= top

AllTight ==
  \A s \in Subs : /\ Tight(sub[s], reader[s].got, Len(history))
                  /\ sub[s].after <= top

LineInv == HubInv /\ InLine /\ AllTight

LEMMA InitLine ==
  Init => LineInv
<1> SUFFICES ASSUME Init PROVE LineInv
  OBVIOUS
<1>1. HubInv BY InitHub
<1>2. /\ top \in Nat /\ history = [n \in 1..top |-> n] /\ Len(history) = top
      /\ \A w \in Writers : DOMAIN unsent[w] = {}
  BY DEF Init
<1>3. InLine BY <1>2 DEF InLine, InSequence
<1>4. Fresh \in Subscriptions /\ Fresh.last = Fresh.after /\ ~Fresh.on /\ Fresh.after = 0
  BY DEF Fresh, Subscriptions
<1>5. Tight(Fresh, <<>>, Len(history)) BY <1>2, <1>4, NewTight
<1>6. \A s \in Subs : sub[s] = Fresh /\ reader[s].got = <<>> BY DEF Init, NoReader
<1> QED BY <1>1, <1>2, <1>3, <1>4, <1>5, <1>6 DEF LineInv, AllTight

\* The journal and the records published stay as they are, and one subscriber
\* and its reader change.
LEMMA OneLine ==
  ASSUME LineInv, HubInv', NEW s \in Subs, NEW r, NEW k,
         sub' = [sub EXCEPT ![s] = r], reader' = [reader EXCEPT ![s] = k],
         Tight(r, k.got, Len(history)), r.after <= top,
         UNCHANGED <<top, unsent, history, cursor, open, previews>>
  PROVE  LineInv'
<1>1. sub \in [Subs -> Subscriptions] /\ reader \in [Subs -> Readers]
  BY DEF LineInv, HubInv, Types
<1>2. InLine' BY DEF LineInv, InLine, InSequence
<1>3. ASSUME NEW t \in Subs
      PROVE  Tight(sub'[t], reader'[t].got, Len(history)) /\ sub'[t].after <= top
  <2>1. CASE t = s BY <1>1, <2>1
  <2>2. CASE t # s BY <1>1, <2>2 DEF LineInv, AllTight
  <2> QED BY <2>1, <2>2
<1> QED BY <1>2, <1>3 DEF LineInv, AllTight

LEMMA CommitLine ==
  ASSUME MaxBatch \in Nat, NEW w \in Writers, LineInv, NEW n \in 1..MaxBatch, Commit(w, n)
  PROVE  LineInv' /\ top' \in Nat /\ top' > top
<1>1. n \in Nat /\ n >= 1 /\ top \in Nat /\ unsent \in [Writers -> Seq(Nat)]
      /\ history \in Seq(Nat)
  BY DEF LineInv, HubInv, Types
<1>2. HubInv' BY CommitHub DEF LineInv
<1>3. /\ top' = top + n /\ unsent' = [unsent EXCEPT ![w] = [i \in 1..n |-> top + i]]
      /\ UNCHANGED <<history, cursor, open, sub, reader, previews>>
  BY DEF Commit
<1>4. top' \in Nat /\ top' > top BY <1>1, <1>3
<1>5. InLine'
  <2>1. Len(history) \in Nat /\ Len(history) <= top /\ InSequence
    BY <1>1 DEF LineInv, InLine
  <2>2. Len(history') <= top' /\ InSequence' BY <1>1, <1>3, <1>4, <2>1 DEF InSequence
  <2>3. ASSUME NEW v \in Writers, NEW i \in DOMAIN unsent'[v]
        PROVE  unsent'[v][i] <= top'
    <3>1. CASE v = w BY <1>1, <1>3, <2>3, <3>1
    <3>2. CASE v # w
      <4>1. unsent'[v] = unsent[v] BY <1>3, <3>2
      <4>2. unsent[v][i] <= top /\ unsent[v][i] \in Nat
        BY <1>1, <2>3, <4>1 DEF LineInv, InLine
      <4> QED BY <1>1, <1>4, <4>1, <4>2
    <3> QED BY <3>1, <3>2
  <2> QED BY <2>2, <2>3 DEF InLine
<1>6. AllTight'
  <2> SUFFICES ASSUME NEW s \in Subs
               PROVE  Tight(sub[s], reader[s].got, Len(history)) /\ sub[s].after <= top'
    BY <1>3 DEF AllTight
  <2>1. sub[s].after \in Nat /\ sub[s].after <= top
        /\ Tight(sub[s], reader[s].got, Len(history))
    BY DEF LineInv, HubInv, Types, Subscriptions, AllTight
  <2> QED BY <1>1, <1>4, <2>1
<1> QED BY <1>2, <1>4, <1>5, <1>6 DEF LineInv

\* A record that is published next is the one after those published, or the
\* records are not in the order of the journal any more.
LEMMA PublishLine ==
  ASSUME NEW w \in Writers, LineInv, Publish(w), InSequence'
  PROVE  /\ LineInv'
         /\ UNCHANGED <<top, reader>>
         /\ \A s \in Subs : LastRead(sub'[s], reader[s].got) = LastRead(sub[s], reader[s].got)
<1> DEFINE c == Head(unsent[w])
           n == Len(history)
<1>1. /\ unsent \in [Writers -> Seq(Nat)] /\ unsent[w] \in Seq(Nat) /\ unsent[w] # <<>>
      /\ history \in Seq(Nat) /\ n \in Nat /\ top \in Nat
  BY DEF LineInv, HubInv, Types, Publish
<1>2. HubInv' BY PublishHub DEF LineInv
<1>3. /\ unsent' = [unsent EXCEPT ![w] = Tail(unsent[w])]
      /\ UNCHANGED <<top, open, reader, previews>>
  BY DEF Publish
<1>4. c \in Nat /\ c <= top
  <2>1. 1 \in DOMAIN unsent[w] /\ c = unsent[w][1] BY <1>1
  <2> QED BY <1>1, <2>1 DEF LineInv, InLine
<1>5. ASSUME NEW v \in Writers, NEW i \in DOMAIN unsent'[v]
      PROVE  unsent'[v][i] <= top
  <2>1. CASE v = w
    <3>1. unsent'[v] = Tail(unsent[w]) BY <1>1, <1>3, <2>1
    <3>2. i + 1 \in DOMAIN unsent[w] /\ unsent'[v][i] = unsent[w][i + 1] BY <1>1, <1>5, <3>1
    <3> QED BY <3>2 DEF LineInv, InLine
  <2>2. CASE v # w
    <3>1. unsent'[v] = unsent[v] BY <1>3, <2>2
    <3> QED BY <1>5, <3>1 DEF LineInv, InLine
  <2> QED BY <2>1, <2>2
<1>6. CASE ~open
  <2>1. UNCHANGED <<history, sub>> BY <1>6 DEF Publish
  <2>2. InLine' BY <1>3, <1>5, <2>1 DEF LineInv, InLine
  <2>3. AllTight' BY <1>3, <2>1 DEF LineInv, AllTight
  <2> QED BY <1>2, <1>3, <2>1, <2>2, <2>3 DEF LineInv
<1>7. CASE open
  <2>1. /\ history' = Append(history, c)
        /\ sub' = [s \in Subs |-> Delivered(sub[s], Durable(c))]
    BY <1>7 DEF Publish
  <2>2. Len(history') = n + 1 /\ DOMAIN history' = 1..(n + 1) /\ history'[n + 1] = c
    BY <1>1, <1>4, <2>1
  <2>3. c = n + 1 BY <1>1, <2>2 DEF InSequence
  <2> HIDE DEF n, c
  <2>4. InLine' BY <1>3, <1>4, <1>5, <2>2, <2>3 DEF InLine
  <2>5. ASSUME NEW s \in Subs
        PROVE  /\ Tight(sub'[s], reader[s].got, n + 1) /\ sub'[s].after = sub[s].after
               /\ LastRead(sub'[s], reader[s].got) = LastRead(sub[s], reader[s].got)
    <3>1. sub[s] \in Subscriptions /\ Tight(sub[s], reader[s].got, n)
      BY DEF LineInv, HubInv, Types, AllTight, n
    <3>2. sub'[s] = Delivered(sub[s], Durable(n + 1)) BY <2>1, <2>3
    <3> QED BY <1>1, <3>1, <3>2, PublishedTight
  <2>6. AllTight' BY <1>3, <2>2, <2>5 DEF LineInv, AllTight
  <2> QED BY <1>2, <1>3, <2>4, <2>5, <2>6 DEF LineInv
<1> QED BY <1>6, <1>7

\* Steps of the hub that no reader sees.
LEMMA PreviewLine ==
  ASSUME LineInv, PublishPreview
  PROVE  /\ LineInv' /\ UNCHANGED top
         /\ \A s \in Subs :
              /\ reader'[s].status = reader[s].status
              /\ LastRead(sub'[s], reader'[s].got) = LastRead(sub[s], reader[s].got)
<1> DEFINE r == [cursor |-> cursor, preview |-> TRUE, dropped |-> 0]
<1>1. HubInv /\ HubInv' BY PreviewHub DEF LineInv
<1>2. r \in Record /\ r.preview BY <1>1 DEF HubInv, Types, Record
<1>3. /\ sub' = [s \in Subs |-> Delivered(sub[s], r)]
      /\ reader' = [s \in Subs |->
           IF Wanted(sub[s], r) /\ ~Fits(sub[s])
           THEN [reader[s] EXCEPT !.lost = @ + 1] ELSE reader[s]]
      /\ UNCHANGED <<top, unsent, history, cursor, open>>
  BY DEF PublishPreview
<1> HIDE DEF r
<1>4. ASSUME NEW s \in Subs
      PROVE  reader'[s].status = reader[s].status /\ reader'[s].got = reader[s].got
  <2>1. reader[s] \in Readers BY <1>1 DEF HubInv, Types
  <2>2. \/ reader'[s] = reader[s]
        \/ reader'[s] = [reader[s] EXCEPT !.lost = @ + 1]
    BY <1>3
  <2> QED BY <2>1, <2>2 DEF Readers
<1>5. ASSUME NEW s \in Subs
      PROVE  /\ Tight(sub'[s], reader'[s].got, Len(history)) /\ sub'[s].after <= top
             /\ LastRead(sub'[s], reader'[s].got) = LastRead(sub[s], reader[s].got)
  <2>1. sub[s] \in Subscriptions /\ Tight(sub[s], reader[s].got, Len(history))
        /\ sub[s].after <= top
    BY <1>1 DEF LineInv, HubInv, Types, AllTight
  <2>2. sub'[s] = Delivered(sub[s], r) BY <1>3
  <2>3. Same(sub'[s], sub[s]) BY <1>2, <2>1, <2>2, PreviewSame
  <2>4. Tight(sub'[s], reader[s].got, Len(history))
        /\ LastRead(sub'[s], reader[s].got) = LastRead(sub[s], reader[s].got)
    BY <2>1, <2>3, SameTight
  <2> QED BY <1>4, <2>1, <2>3, <2>4 DEF Same
<1>6. InLine' /\ AllTight' BY <1>3, <1>5 DEF LineInv, InLine, InSequence, AllTight
<1> QED BY <1>1, <1>3, <1>4, <1>5, <1>6 DEF LineInv

LEMMA CloseLine ==
  ASSUME LineInv, Close
  PROVE  /\ LineInv' /\ UNCHANGED <<top, reader>>
         /\ \A s \in Subs : LastRead(sub'[s], reader[s].got) = LastRead(sub[s], reader[s].got)
<1>1. HubInv /\ HubInv' BY CloseHub DEF LineInv
<1>2. /\ sub' = [s \in Subs |-> IF sub[s].on THEN Disconnected(sub[s], "end") ELSE sub[s]]
      /\ open' = FALSE /\ UNCHANGED <<top, unsent, history, cursor, reader, previews>>
  BY DEF Close
<1>3. ASSUME NEW s \in Subs
      PROVE  /\ Tight(sub'[s], reader[s].got, Len(history)) /\ sub'[s].after <= top
             /\ LastRead(sub'[s], reader[s].got) = LastRead(sub[s], reader[s].got)
  <2>1. sub[s] \in Subscriptions /\ Tight(sub[s], reader[s].got, Len(history))
        /\ sub[s].after <= top
    BY <1>1 DEF LineInv, HubInv, Types, AllTight
  <2>2. Same(Disconnected(sub[s], "end"), sub[s]) BY <2>1, DisconnectedSame
  <2>3. Same(sub[s], sub[s]) BY <2>1 DEF Same
  <2>4. Same(sub'[s], sub[s]) BY <1>2, <2>2, <2>3
  <2>5. Tight(sub'[s], reader[s].got, Len(history))
        /\ LastRead(sub'[s], reader[s].got) = LastRead(sub[s], reader[s].got)
    BY <2>1, <2>4, SameTight
  <2> QED BY <2>1, <2>4, <2>5 DEF Same
<1>4. InLine' /\ AllTight' BY <1>2, <1>3 DEF LineInv, InLine, InSequence, AllTight
<1> QED BY <1>1, <1>2, <1>3, <1>4 DEF LineInv

(***************************************************************************)
(* The refinement.                                                         *)
(***************************************************************************)
Status == [s \in Subs |-> reader[s].status]
At == [s \in Subs |-> LastRead(sub[s], reader[s].got)]

\* What the feed sees of a step of one subscriber.
Moves(s, status, at) ==
  Status' = [Status EXCEPT ![s] = status] /\ At' = [At EXCEPT ![s] = at]

LEMMA OneFeed ==
  ASSUME HubInv, NEW s \in Subs, NEW r, NEW k,
         sub' = [sub EXCEPT ![s] = r], reader' = [reader EXCEPT ![s] = k]
  PROVE  Moves(s, k.status, LastRead(r, k.got))
<1>1. sub \in [Subs -> Subscriptions] /\ reader \in [Subs -> Readers] BY DEF HubInv, Types
<1>2. Status' = [Status EXCEPT ![s] = k.status] BY <1>1 DEF Status
<1>3. ASSUME NEW t \in Subs
      PROVE  At'[t] = IF t = s THEN LastRead(r, k.got) ELSE At[t]
  <2>1. CASE t = s BY <1>1, <2>1 DEF At
  <2>2. CASE t # s BY <1>1, <2>2 DEF At
  <2> QED BY <2>1, <2>2
<1>4. DOMAIN At = Subs /\ At' = [t \in Subs |-> At'[t]] /\ At = [t \in Subs |-> At[t]]
  BY DEF At
<1>5. At' = [At EXCEPT ![s] = LastRead(r, k.got)] BY <1>3, <1>4
<1> QED BY <1>2, <1>5 DEF Moves

LEMMA SubscribeLine ==
  ASSUME LineInv, NEW s \in Subs, NEW after \in 0..top,
         NEW preview \in BOOLEAN, Subscribe(s, after, preview)
  PROVE  LineInv' /\ Promise!Open(s, after)
<1>1. HubInv /\ HubInv' /\ top \in Nat /\ reader[s] \in Readers
  BY SubscribeHub DEF LineInv, HubInv, Types
<1>2. PICK r : /\ sub' = [sub EXCEPT ![s] = r] /\ r.after = after
               /\ \/ r = Replayed(Registered(after, preview)) /\ open
                  \/ r = Refused(after, preview) /\ ~open
  BY <1>1, SubscribeSound
<1> DEFINE k == [reader[s] EXCEPT !.status = "open"]
<1>3. /\ reader' = [reader EXCEPT ![s] = k] /\ reader[s].status = "fresh"
      /\ UNCHANGED <<top, unsent, history, cursor, open, previews>>
  BY DEF Subscribe
<1>4. k.got = <<>> /\ k.status = "open"
  <2>1. reader[s].got = <<>> BY <1>1, <1>3 DEF HubInv, FreshIsEmpty
  <2> QED BY <1>1, <2>1 DEF Readers
<1> HIDE DEF k
<1>5. history \in Seq(Nat) /\ \A n \in DOMAIN history : history[n] = n
  BY <1>1 DEF LineInv, HubInv, Types, InLine, InSequence
<1>6. Tight(r, <<>>, Len(history))
  <2>1. CASE r = Replayed(Registered(after, preview))
    <3> DEFINE new == Registered(after, preview)
    <3>1. new \in Subscriptions /\ new.channel = <<>> /\ new.last = new.after
      BY <1>1, SubscribeParts
    <3> HIDE DEF new
    <3>2. Tight(Replay(new, history)[Len(history)], <<>>, Len(history))
      BY <1>5, <3>1, ReplayTight
    <3> QED BY <2>1, <3>2 DEF Replayed, new
  <2>2. CASE r = Refused(after, preview)
    <3>1. r \in Subscriptions /\ r.last = r.after /\ ~r.on BY <1>1, <2>2, SubscribeParts
    <3>2. Len(history) \in Nat BY <1>5
    <3> QED BY <3>1, <3>2, NewTight
  <2> QED BY <1>2, <2>1, <2>2
<1>7. LineInv'
  <2>1. r.after <= top BY <1>1, <1>2
  <2> QED BY <1>1, <1>2, <1>3, <1>4, <1>6, <2>1, OneLine
<1>8. LastRead(r, k.got) = after BY <1>2, <1>4 DEF LastRead
<1>9. Moves(s, "open", after)
  <2>1. Moves(s, k.status, LastRead(r, k.got)) BY <1>1, <1>2, <1>3, OneFeed
  <2> QED BY <1>4, <1>8, <2>1
<1>10. Status[s] = "fresh" /\ after <= top /\ UNCHANGED top BY <1>1, <1>3 DEF Status
<1> QED BY <1>7, <1>9, <1>10 DEF Promise!Open, Moves, Status, At

LEMMA UnsubscribeLine ==
  ASSUME LineInv, NEW s \in Subs, Unsubscribe(s)
  PROVE  LineInv' /\ UNCHANGED <<top, Status, At>>
<1> DEFINE r == Disconnected(sub[s], "closed")
           k == reader[s]
<1>1. HubInv /\ HubInv' BY UnsubscribeHub DEF LineInv
<1>2. /\ sub' = [sub EXCEPT ![s] = r] /\ reader' = [reader EXCEPT ![s] = k]
      /\ UNCHANGED <<top, unsent, history, cursor, open, previews>>
  BY <1>1 DEF HubInv, Types, Unsubscribe
<1>3. sub[s] \in Subscriptions /\ Tight(sub[s], k.got, Len(history)) /\ sub[s].after <= top
  BY DEF LineInv, HubInv, Types, AllTight
<1>4. Same(r, sub[s]) BY <1>3, DisconnectedSame
<1> HIDE DEF r
<1>5. Tight(r, k.got, Len(history)) /\ LastRead(r, k.got) = LastRead(sub[s], k.got)
      /\ r.after <= top
  BY <1>3, <1>4, SameTight DEF Same
<1>6. LineInv' BY <1>1, <1>2, <1>5, OneLine
<1>7. Moves(s, k.status, LastRead(r, k.got)) BY <1>1, <1>2, OneFeed
<1>8. UNCHANGED <<Status, At>> BY <1>5, <1>7 DEF Moves, Status, At
<1> QED BY <1>2, <1>6, <1>8

LEMMA ReceiveLine ==
  ASSUME LineInv, NEW s \in Subs, Receive(s)
  PROVE  LineInv' /\ (Promise!Take(s) \/ UNCHANGED <<top, Status, At>>)
<1> DEFINE x == Head(sub[s].channel)
<1>1. HubInv /\ HubInv' /\ history \in Seq(Nat) /\ top \in Nat
  BY ReceiveHub DEF LineInv, HubInv, Types
<1>2. PICK r, k :
        /\ sub' = [sub EXCEPT ![s] = r] /\ reader' = [reader EXCEPT ![s] = k]
        /\ k.status = reader[s].status /\ k.status = "open"
        /\ Reads(sub[s], reader[s].got, r, k.got)
        /\ Sound(sub[s], reader[s].got, history)
  BY <1>1, ReceiveParts
<1>3. UNCHANGED <<top, unsent, history, cursor, open, previews>> BY DEF Receive
<1>4. /\ Tight(sub[s], reader[s].got, Len(history)) /\ sub[s].after <= top
      /\ sub[s] \in Subscriptions /\ Len(history) <= top /\ Len(history) \in Nat
  BY <1>1 DEF LineInv, HubInv, Types, AllTight, InLine, InSequence
<1>5. /\ Tight(r, k.got, Len(history))
      /\ ~x.preview => /\ x.cursor = LastRead(sub[s], reader[s].got) + 1
                       /\ x.cursor <= sub[s].last
  BY <1>2, <1>4, ReceivedTight
<1>6. LastRead(r, k.got) = IF x.preview THEN LastRead(sub[s], reader[s].got) ELSE x.cursor
  BY <1>2, ReceivedSound
<1> HIDE DEF x
<1>7. r.after = sub[s].after BY <1>2, <1>4 DEF Subscriptions, Reads
<1>8. LineInv' BY <1>1, <1>2, <1>3, <1>4, <1>5, <1>7, OneLine
<1>9. Moves(s, k.status, LastRead(r, k.got)) BY <1>1, <1>2, OneFeed
<1>10. Status[s] = "open" /\ UNCHANGED Status BY <1>2, <1>9 DEF Moves, Status
<1>11. At[s] = LastRead(sub[s], reader[s].got) BY DEF At
<1>12. CASE x.preview
  <2>1. UNCHANGED At BY <1>6, <1>9, <1>11, <1>12 DEF Moves, At
  <2> QED BY <1>3, <1>8, <1>10, <2>1
<1>13. CASE ~x.preview
  <2>1. sub[s].last <= top BY <1>1, <1>4 DEF Tight, Upto, Subscriptions
  <2>2. At[s] \in Nat
    <3>1. LastRead(sub[s], reader[s].got) \in Nat
      BY <1>2, <1>4 DEF Sound, Subscriptions, LastRead
    <3> QED BY <1>11, <3>1
  <2>3. sub[s].last \in Nat BY <1>4 DEF Subscriptions
  <2>4. At[s] < top /\ LastRead(r, k.got) = At[s] + 1
    BY <1>1, <1>5, <1>6, <1>11, <1>13, <2>1, <2>2, <2>3
  <2>5. At' = [At EXCEPT ![s] = At[s] + 1] BY <1>9, <2>4 DEF Moves
  <2>6. Promise!Take(s) BY <1>3, <1>10, <2>4, <2>5 DEF Promise!Take, Status, At
  <2> QED BY <1>8, <2>6
<1> QED BY <1>12, <1>13

LEMMA SettleLine ==
  ASSUME LineInv, NEW s \in Subs, Settle(s)
  PROVE  LineInv' /\ Promise!End(s)
<1> DEFINE k == [reader[s] EXCEPT !.status = "ended"]
<1>1. HubInv /\ HubInv' /\ reader[s] \in Readers BY SettleHub DEF LineInv, HubInv, Types
<1>2. /\ reader' = [reader EXCEPT ![s] = k] /\ sub' = [sub EXCEPT ![s] = sub[s]]
      /\ reader[s].status = "open"
      /\ UNCHANGED <<top, unsent, history, cursor, open, previews>>
  BY <1>1 DEF HubInv, Types, Settle
<1>3. k.got = reader[s].got /\ k.status = "ended" BY <1>1 DEF Readers
<1> HIDE DEF k
<1>4. Tight(sub[s], k.got, Len(history)) /\ sub[s].after <= top
  BY <1>3 DEF LineInv, AllTight
<1>5. LineInv' BY <1>1, <1>2, <1>4, OneLine
<1>6. Moves(s, k.status, LastRead(sub[s], k.got)) BY <1>1, <1>2, OneFeed
<1>7. UNCHANGED At BY <1>3, <1>6 DEF Moves, At
<1>8. Status[s] = "open" /\ Status' = [Status EXCEPT ![s] = "ended"]
  BY <1>2, <1>3, <1>6 DEF Moves, Status
<1> QED BY <1>2, <1>5, <1>7, <1>8 DEF Promise!End, Status, At

\* Of the steps that change nobody's feed.
LEMMA SameFeed ==
  ASSUME \A s \in Subs : /\ reader'[s].status = reader[s].status
                         /\ LastRead(sub'[s], reader'[s].got) = LastRead(sub[s], reader[s].got)
  PROVE  UNCHANGED <<Status, At>>
BY DEF Status, At

\* Records out of order stay so.
LEMMA SequenceKept ==
  ASSUME HubInv, [Next]_vars, InSequence'
  PROVE  InSequence
<1>1. history \in Seq(Nat) BY DEF HubInv, Types
<1>2. ASSUME NEW c \in Nat, history' = Append(history, c)
      PROVE  InSequence
  <2>1. \A n \in DOMAIN history : n \in DOMAIN history' /\ history'[n] = history[n]
    BY <1>1, <1>2
  <2> QED BY <2>1 DEF InSequence
<1>3. ASSUME history' = history
      PROVE  InSequence
  BY <1>3 DEF InSequence
<1>4. ASSUME NEW w \in Writers, Publish(w)
      PROVE  InSequence
  <2>1. Head(unsent[w]) \in Nat BY <1>4 DEF HubInv, Types, Publish
  <2> QED BY <1>2, <1>3, <1>4, <2>1 DEF Publish
<1>5. CASE UNCHANGED vars \/ PublishPreview \/ Close
  BY <1>3, <1>5 DEF vars, PublishPreview, Close
<1>6. CASE Reader \/ Subscriber
  BY <1>3, <1>6 DEF Reader, Subscriber, Receive, Settle, Subscribe, Unsubscribe
<1>7. CASE Writer BY <1>3, <1>4, <1>7 DEF Writer, Commit
<1> QED BY <1>5, <1>6, <1>7 DEF Next

LEMMA NextLine ==
  ASSUME MaxBatch \in Nat, LineInv, [Next]_vars, InSequence'
  PROVE  LineInv' /\ [Promise!Next]_(Promise!feed)
<1> DEFINE Quiet == UNCHANGED <<top, Status, At>>
<1>1. Quiet => [Promise!Next]_(Promise!feed) BY DEF Promise!feed, Status, At
<1>2. ASSUME NEW w \in Writers, NEW n \in 1..MaxBatch, Commit(w, n)
      PROVE  LineInv' /\ Promise!Next
  <2>1. LineInv' /\ top' \in Nat /\ top' > top BY <1>2, CommitLine
  <2>2. UNCHANGED <<Status, At>> BY <1>2 DEF Commit, Status, At
  <2>3. Promise!Grow BY <2>1, <2>2 DEF Promise!Grow, Status, At
  <2> QED BY <2>1, <2>3 DEF Promise!Next
<1>3. ASSUME NEW w \in Writers, Publish(w)
      PROVE  LineInv' /\ Quiet
  BY <1>3, PublishLine, SameFeed
<1>4. ASSUME PublishPreview
      PROVE  LineInv' /\ Quiet
  BY <1>4, PreviewLine, SameFeed
<1>5. ASSUME Close
      PROVE  LineInv' /\ Quiet
  BY <1>5, CloseLine, SameFeed
<1>6. ASSUME NEW s \in Subs, NEW after \in 0..top, NEW p \in BOOLEAN, Subscribe(s, after, p)
      PROVE  LineInv' /\ Promise!Next
  BY <1>6, SubscribeLine DEF Promise!Next
<1>7. ASSUME NEW s \in Subs, Unsubscribe(s)
      PROVE  LineInv' /\ Quiet
  BY <1>7, UnsubscribeLine
<1>8. ASSUME NEW s \in Subs, Receive(s)
      PROVE  LineInv' /\ (Promise!Next \/ Quiet)
  BY <1>8, ReceiveLine DEF Promise!Next
<1>9. ASSUME NEW s \in Subs, Settle(s)
      PROVE  LineInv' /\ Promise!Next
  BY <1>9, SettleLine DEF Promise!Next
<1>10. ASSUME UNCHANGED vars
       PROVE  LineInv' /\ Quiet
  <2>1. HubInv' BY <1>10, StutterHub DEF LineInv
  <2>2. InLine' /\ AllTight' /\ Quiet
    BY <1>10 DEF LineInv, InLine, InSequence, AllTight, vars, Status, At
  <2> QED BY <2>1, <2>2 DEF LineInv
<1> HIDE DEF Quiet
<1>11. CASE Writer BY <1>1, <1>2, <1>3, <1>11 DEF Writer
<1>12. CASE Reader BY <1>1, <1>8, <1>9, <1>12 DEF Reader
<1>13. CASE Subscriber BY <1>1, <1>6, <1>7, <1>13 DEF Subscriber
<1> QED
  BY <1>1, <1>4, <1>5, <1>10, <1>11, <1>12, <1>13 DEF Next

\* EventHub implements EventFeed as long as the records of the journal reach it in
\* their order: a reader gets the entries after the position it asked for, one by
\* one, and learns of the end of its feed (Subscribe, deliverLocked, loopStream.Next).
THEOREM ImplementsTheFeed ==
  ASSUME MaxBatch \in Nat
  PROVE  Spec => ImplementsFeed
<1> DEFINE FeedInv == HubInv /\ (InSequence => LineInv)
<1>1. Init => FeedInv BY InitHub, InitLine
<1>2. FeedInv /\ [Next]_vars => FeedInv'
  <2> SUFFICES ASSUME FeedInv, [Next]_vars
               PROVE  FeedInv'
    OBVIOUS
  <2>1. HubInv' BY NextHub
  <2>2. InSequence' => LineInv' BY SequenceKept, NextLine
  <2> QED BY <2>1, <2>2
<1>3. FeedInv /\ [Next]_vars => [InSequence' => [Promise!Next]_(Promise!feed)]_vars
  BY SequenceKept, NextLine
<1>4. Init => Promise!Init BY DEF Init, Promise!Init, NoReader, Fresh, LastRead
<1> HIDE DEF FeedInv
<1> QED BY <1>1, <1>2, <1>3, <1>4, PTL DEF Spec, ImplementsFeed

(***************************************************************************)
(* One writer: its records come in the order of the journal.               *)
(***************************************************************************)
Alone(w) ==
  /\ InSequence
  /\ open => /\ top = Len(history) + Len(unsent[w])
             /\ \A i \in DOMAIN unsent[w] : unsent[w][i] = Len(history) + i

LEMMA CommitAlone ==
  ASSUME MaxBatch \in Nat, HubInv, NEW w \in Writers, Alone(w),
         NEW n \in 1..MaxBatch, Commit(w, n)
  PROVE  Alone(w)'
<1>1. n \in Nat /\ top \in Nat /\ unsent \in [Writers -> Seq(Nat)] /\ history \in Seq(Nat)
  BY DEF HubInv, Types
<1>2. /\ unsent[w] = <<>> /\ top' = top + n /\ unsent'[w] = [i \in 1..n |-> top + i]
      /\ UNCHANGED <<history, open>>
  BY <1>1 DEF Commit
<1>3. open => top = Len(history) BY <1>1, <1>2 DEF Alone
<1>4. Len(unsent'[w]) = n /\ DOMAIN unsent'[w] = 1..n BY <1>1, <1>2
<1> QED BY <1>2, <1>3, <1>4 DEF Alone, InSequence

LEMMA PublishAlone ==
  ASSUME HubInv, NEW w \in Writers, Alone(w), Publish(w)
  PROVE  Alone(w)'
<1> DEFINE c == Head(unsent[w])
           n == Len(history)
           k == Len(unsent[w])
<1>1. /\ unsent \in [Writers -> Seq(Nat)] /\ unsent[w] \in Seq(Nat) /\ unsent[w] # <<>>
      /\ history \in Seq(Nat) /\ n \in Nat /\ top \in Nat /\ k \in Nat
  BY DEF HubInv, Types, Publish
<1>2. unsent'[w] = Tail(unsent[w]) /\ UNCHANGED <<top, open>> BY <1>1 DEF Publish
<1>3. CASE ~open BY <1>2, <1>3 DEF Alone, Publish, InSequence
<1>4. CASE open
  <2>1. /\ top = n + k /\ DOMAIN unsent[w] = 1..k /\ k >= 1 /\ c = n + 1
        /\ \A i \in 1..k : unsent[w][i] = n + i
    BY <1>1, <1>4 DEF Alone
  <2>2. history' = Append(history, n + 1) BY <1>4, <2>1 DEF Publish
  <2>3. Len(history') = n + 1 /\ InSequence' BY <1>1, <2>2 DEF Alone, InSequence
  <2>4. /\ Len(unsent'[w]) = k - 1 /\ DOMAIN unsent'[w] = 1..(k - 1)
        /\ \A i \in 1..(k - 1) : unsent'[w][i] = unsent[w][i + 1]
    BY <1>1, <1>2, <2>1
  <2> HIDE DEF n, k, c
  <2>5. \A i \in 1..(k - 1) : unsent'[w][i] = (n + 1) + i BY <1>1, <2>1, <2>4
  <2>6. top' = (n + 1) + (k - 1) BY <1>1, <1>2, <2>1
  <2> QED BY <2>3, <2>4, <2>5, <2>6 DEF Alone
<1> QED BY <1>3, <1>4

LEMMA NextAlone ==
  ASSUME MaxBatch \in Nat, NEW w, Writers = {w}, HubInv, Alone(w), [Next]_vars
  PROVE  Alone(w)'
<1>1. CASE Writer BY <1>1, CommitAlone, PublishAlone DEF Writer
<1>2. CASE UNCHANGED vars \/ PublishPreview \/ Close
  BY <1>2 DEF Alone, InSequence, vars, PublishPreview, Close
<1>3. CASE Reader \/ Subscriber
  <2>1. UNCHANGED <<top, unsent, history, open>> BY <1>3, ZenonT(30)
    DEF Reader, Subscriber, Receive, Settle, Subscribe, Unsubscribe
  <2> QED BY <2>1 DEF Alone, InSequence
<1> QED BY <1>1, <1>2, <1>3 DEF Next

\* Where one goroutine writes, every behaviour of the hub is one of the feed.
THEOREM OneWriterFeeds ==
  ASSUME MaxBatch \in Nat, NEW w, Writers = {w}
  PROVE  Spec => Promise!Spec
<1>1. Init => Alone(w)
  <2> SUFFICES ASSUME Init PROVE Alone(w)
    OBVIOUS
  <2>1. top \in Nat /\ history = [n \in 1..top |-> n] /\ unsent[w] = <<>> BY DEF Init
  <2> QED BY <2>1 DEF Alone, InSequence
<1>2. HubInv /\ Alone(w) /\ [Next]_vars => Alone(w)' BY NextAlone
<1>3. Alone(w) => InSequence BY DEF Alone
<1>4. InSequence' /\ [InSequence' => [Promise!Next]_(Promise!feed)]_vars
        => [Promise!Next]_(Promise!feed)
  BY DEF vars, Promise!feed
<1>5. Spec => [](HubInv /\ Alone(w)) BY <1>1, <1>2, HubHolds, PTL DEF Spec
<1>6. Spec => ImplementsFeed BY ImplementsTheFeed
<1> QED BY <1>3, <1>4, <1>5, <1>6, PTL DEF ImplementsFeed, Promise!Spec

(***************************************************************************)
(* The local channel host.  What its state holds.                          *)
(***************************************************************************)
Kinds == {"created", "started", "injected", "settled"}
HostEvents == Nat \X Nat
SnapshotStates == {"unread", "idle", "running"}
Snapshots == [worker : BOOLEAN, position : Nat, state : SnapshotStates, reconcile : BOOLEAN]
Owners == [live : BOOLEAN, since : Nat, streaming : BOOLEAN, at : Nat, lost : BOOLEAN,
           reading : Snapshots]
Views == [position : Nat, state : SnapshotStates, ready : BOOLEAN, covered : Nat,
          published : SUBSET HostEvents, history : Seq(HostEvents),
          startID : StartIds \cup {NoStart}, receipts : [StartIds -> Nat]]
Listeners == [on : BOOLEAN, after : Nat, taken : Seq(HostEvents), replay : Seq(HostEvents),
              pending : Seq(HostEvents), ended : BOOLEAN]
Stages == {"new", "refreshing", "refreshed", "waiting", "accepted"}

HostTyped ==
  /\ facts \in Seq(Kinds) /\ owner \in Owners /\ owners \in Nat /\ view \in Views
  /\ mailbox \in SUBSET StartIds /\ asked \in [StartIds -> Stages]
  /\ accepted \in [StartIds -> Nat] /\ listener \in Listeners

\* what the host shows of a journal with these events
Shows(v, l, all) ==
  /\ Len(v.history) <= Len(all) /\ v.history = SubSeq(all, 1, Len(v.history))
  /\ v.published = {v.history[i] : i \in DOMAIN v.history}
  /\ l.on /\ ~l.ended =>
       l.taken \o l.replay \o l.pending = Beyond(v.history, l.after)[Len(v.history)]

\* how far each has come: the part of the journal within a position is shown
ShownUpTo(n) == n <= Len(facts) /\ CountOf(n) <= Len(view.history)
\* what a refresh covered, where an owner's stream begins and how far it got are
\* shown; an owner that does not stream reads to reconcile, and what is read is not
\* older than what the view has
Reached ==
  /\ ShownUpTo(view.covered) /\ ShownUpTo(owner.since) /\ owner.at <= Len(view.history)
  /\ owner.since = 0 => ~owner.streaming /\ (owner.reading # NoSnapshot => owner.reading.reconcile)
  /\ view.position <= Len(facts) /\ owner.reading.position <= Len(facts)
  /\ owner.reading # NoSnapshot => owner.live /\ view.position <= owner.reading.position

\* a snapshot that says idle, which is read after its position, is right about the
\* runs within it
Tells(snapshot) ==
  snapshot.state = "idle" => ~\E n \in 1..snapshot.position : Unsettled(n, Len(facts))
\* the run that was accepted last
LastStart(n) ==
  /\ n \in DOMAIN facts /\ facts[n] = "started"
  /\ \A m \in DOMAIN facts : m > n => facts[m] # "started"
\* startID names the Start in the mailbox and, once it is accepted, the last run;
\* when it is free, a run that is open is one that the view has seen
Serial ==
  /\ \A id \in mailbox : /\ view.startID = id /\ view.receipts[id] = 0
                         /\ asked[id] \in {"waiting", "accepted"}
                         /\ asked[id] = "waiting" => ~Running
  /\ \A id \in StartIds : /\ asked[id] = "accepted" /\ view.startID = id => LastStart(accepted[id])
                          /\ view.receipts[id] > 0 => asked[id] = "accepted" /\ view.receipts[id] = accepted[id]
  /\ view.startID = NoStart =>
       \A n \in DOMAIN facts : Unsettled(n, Len(facts)) => n <= view.position
  /\ Tells(view) /\ Tells(owner.reading)

Shown == HostTyped /\ Shows(view, listener, All) /\ Reached /\ RetiredIsObserved
HostInv == Shown /\ Serial

IsEvents(f, records, len) ==
  f = [n \in 0..len |-> IF n = 0 THEN <<>> ELSE f[n - 1] \o EventsAt(records[n], n)]

\* A function that adds the events record by record exists, so EventsOf is it.
LEMMA EventsExist ==
  ASSUME NEW records, NEW len \in Nat
  PROVE  \E f : IsEvents(f, records, len)
<1> DEFINE Bad == {k \in Nat : ~\E f : IsEvents(f, records, k)}
<1>1. SUFFICES ASSUME Bad # {} PROVE FALSE
  OBVIOUS
<1>2. PICK k \in Bad : \A m \in Bad : k <= m
  <2>1. Bad \in SUBSET Nat
    OBVIOUS
  <2> HIDE DEF Bad
  <2> QED BY <1>1, <2>1, Least
<1>3. CASE k = 0
  <2> DEFINE f == [n \in 0..0 |-> <<>>]
  <2>1. IsEvents(f, records, 0) BY DEF IsEvents
  <2> HIDE DEF f
  <2> QED BY <1>2, <1>3, <2>1
<1>4. CASE k # 0
  <2>1. k \in Nat /\ k - 1 \in Nat /\ k - 1 \notin Bad BY <1>2, <1>4
  <2>2. PICK g : IsEvents(g, records, k - 1) BY <2>1
  <2> DEFINE f == [n \in 0..k |-> IF n = k THEN g[k - 1] \o EventsAt(records[k], k) ELSE g[n]]
  <2>3. \A n \in 0..k : f[n] = IF n = 0 THEN <<>> ELSE f[n - 1] \o EventsAt(records[n], n)
    <3> TAKE n \in 0..k
    <3>1. CASE n = k BY <1>4, <2>1, <3>1
    <3>2. CASE n # k
      <4>1. n \in 0..(k - 1) /\ (n # 0 => n - 1 \in 0..(k - 1) /\ n - 1 \in 0..k /\ n - 1 # k)
        BY <2>1, <3>2
      <4>2. g[n] = IF n = 0 THEN <<>> ELSE g[n - 1] \o EventsAt(records[n], n)
        BY <2>2, <4>1 DEF IsEvents
      <4>3. f[n] = g[n] /\ (n # 0 => f[n - 1] = g[n - 1]) BY <3>2, <4>1
      <4> HIDE DEF f
      <4> QED BY <4>2, <4>3
    <3> QED BY <3>1, <3>2
  <2>4. IsEvents(f, records, k)
    <3>1. f = [n \in 0..k |-> f[n]]
      OBVIOUS
    <3> HIDE DEF f
    <3> QED BY <2>3, <3>1 DEF IsEvents
  <2> HIDE DEF f
  <2> QED BY <1>2, <2>4
<1> QED BY <1>3, <1>4

\* The events of a journal, record by record.
LEMMA EventsSteps ==
  ASSUME NEW records, records \in Seq(Kinds)
  PROVE  /\ EventsOf(records)[0] = <<>>
         /\ \A n \in 1..Len(records) : EventsOf(records)[n] = EventsOf(records)[n - 1] \o EventsAt(records[n], n)
<1>1. Len(records) \in Nat
  OBVIOUS
<1>2. IsEvents(EventsOf(records), records, Len(records))
  <2>1. \E f : IsEvents(f, records, Len(records)) BY <1>1, EventsExist
  <2>2. EventsOf(records) = CHOOSE f : IsEvents(f, records, Len(records))
    BY DEF EventsOf, IsEvents
  <2> QED BY <2>1, <2>2
<1>3. \A n \in 0..Len(records) : EventsOf(records)[n] = IF n = 0 THEN <<>> ELSE EventsOf(records)[n - 1] \o EventsAt(records[n], n)
  BY <1>2 DEF IsEvents
<1>4. EventsOf(records)[0] = <<>> BY <1>1, <1>3
<1>5. ASSUME NEW n \in 1..Len(records)
      PROVE  EventsOf(records)[n] = EventsOf(records)[n - 1] \o EventsAt(records[n], n)
  <2>1. n \in 0..Len(records) /\ n # 0 BY <1>1
  <2> QED BY <1>3, <2>1, Zenon
<1> QED BY <1>4, <1>5

IsPublished(f, host, events, len) ==
  f = [n \in 0..len |-> IF n = 0 THEN host ELSE PublishOne(f[n - 1], events[n])]

\* A host that publishes event by event exists, so Publishing is it.
LEMMA PublishingExists ==
  ASSUME NEW host, NEW events, NEW len \in Nat
  PROVE  \E f : IsPublished(f, host, events, len)
<1> DEFINE Bad == {k \in Nat : ~\E f : IsPublished(f, host, events, k)}
<1>1. SUFFICES ASSUME Bad # {} PROVE FALSE
  OBVIOUS
<1>2. PICK k \in Bad : \A m \in Bad : k <= m
  <2>1. Bad \in SUBSET Nat
    OBVIOUS
  <2> HIDE DEF Bad
  <2> QED BY <1>1, <2>1, Least
<1>3. CASE k = 0
  <2> DEFINE f == [n \in 0..0 |-> host]
  <2>1. IsPublished(f, host, events, 0) BY DEF IsPublished
  <2> HIDE DEF f
  <2> QED BY <1>2, <1>3, <2>1
<1>4. CASE k # 0
  <2>1. k \in Nat /\ k - 1 \in Nat /\ k - 1 \notin Bad BY <1>2, <1>4
  <2>2. PICK g : IsPublished(g, host, events, k - 1) BY <2>1
  <2> DEFINE f == [n \in 0..k |-> IF n = k THEN PublishOne(g[k - 1], events[k]) ELSE g[n]]
  <2>3. \A n \in 0..k : f[n] = IF n = 0 THEN host ELSE PublishOne(f[n - 1], events[n])
    <3> TAKE n \in 0..k
    <3>1. CASE n = k BY <1>4, <2>1, <3>1
    <3>2. CASE n # k
      <4>1. n \in 0..(k - 1) /\ (n # 0 => n - 1 \in 0..(k - 1) /\ n - 1 \in 0..k /\ n - 1 # k)
        BY <2>1, <3>2
      <4>2. g[n] = IF n = 0 THEN host ELSE PublishOne(g[n - 1], events[n])
        BY <2>2, <4>1 DEF IsPublished
      <4>3. f[n] = g[n] /\ (n # 0 => f[n - 1] = g[n - 1]) BY <3>2, <4>1
      <4> HIDE DEF f
      <4> QED BY <4>2, <4>3
    <3> QED BY <3>1, <3>2
  <2>4. IsPublished(f, host, events, k)
    <3>1. f = [n \in 0..k |-> f[n]]
      OBVIOUS
    <3> HIDE DEF f
    <3> QED BY <2>3, <3>1 DEF IsPublished
  <2> HIDE DEF f
  <2> QED BY <1>2, <2>4
<1> QED BY <1>3, <1>4

\* What is published, event by event.
LEMMA PublishingSteps ==
  ASSUME NEW host, NEW events, events \in Seq(HostEvents)
  PROVE  /\ Publishing(host, events)[0] = host
         /\ \A n \in 1..Len(events) : Publishing(host, events)[n] = PublishOne(Publishing(host, events)[n - 1], events[n])
<1>1. Len(events) \in Nat
  OBVIOUS
<1>2. IsPublished(Publishing(host, events), host, events, Len(events))
  <2>1. \E f : IsPublished(f, host, events, Len(events)) BY <1>1, PublishingExists
  <2>2. Publishing(host, events) = CHOOSE f : IsPublished(f, host, events, Len(events))
    BY DEF Publishing, IsPublished
  <2> QED BY <2>1, <2>2
<1>3. \A n \in 0..Len(events) : Publishing(host, events)[n] = IF n = 0 THEN host ELSE PublishOne(Publishing(host, events)[n - 1], events[n])
  BY <1>2 DEF IsPublished
<1> QED BY <1>1, <1>3

IsBeyond(f, events, after, len) ==
  f = [n \in 0..len |-> IF n = 0 THEN <<>> ELSE (IF events[n][1] > after THEN Append(f[n - 1], events[n]) ELSE f[n - 1])]

\* A function that keeps what lies beyond a position exists, so Beyond is it.
LEMMA BeyondExists ==
  ASSUME NEW events, NEW after, NEW len \in Nat
  PROVE  \E f : IsBeyond(f, events, after, len)
<1> DEFINE Bad == {k \in Nat : ~\E f : IsBeyond(f, events, after, k)}
<1>1. SUFFICES ASSUME Bad # {} PROVE FALSE
  OBVIOUS
<1>2. PICK k \in Bad : \A m \in Bad : k <= m
  <2>1. Bad \in SUBSET Nat
    OBVIOUS
  <2> HIDE DEF Bad
  <2> QED BY <1>1, <2>1, Least
<1>3. CASE k = 0
  <2> DEFINE f == [n \in 0..0 |-> <<>>]
  <2>1. IsBeyond(f, events, after, 0) BY DEF IsBeyond
  <2> HIDE DEF f
  <2> QED BY <1>2, <1>3, <2>1
<1>4. CASE k # 0
  <2>1. k \in Nat /\ k - 1 \in Nat /\ k - 1 \notin Bad BY <1>2, <1>4
  <2>2. PICK g : IsBeyond(g, events, after, k - 1) BY <2>1
  <2> DEFINE f == [n \in 0..k |-> IF n = k THEN (IF events[k][1] > after THEN Append(g[k - 1], events[k]) ELSE g[k - 1]) ELSE g[n]]
  <2>3. \A n \in 0..k : f[n] = IF n = 0 THEN <<>> ELSE (IF events[n][1] > after THEN Append(f[n - 1], events[n]) ELSE f[n - 1])
    <3> TAKE n \in 0..k
    <3>1. CASE n = k BY <1>4, <2>1, <3>1
    <3>2. CASE n # k
      <4>1. n \in 0..(k - 1) /\ (n # 0 => n - 1 \in 0..(k - 1) /\ n - 1 \in 0..k /\ n - 1 # k)
        BY <2>1, <3>2
      <4>2. g[n] = IF n = 0 THEN <<>> ELSE (IF events[n][1] > after THEN Append(g[n - 1], events[n]) ELSE g[n - 1])
        BY <2>2, <4>1 DEF IsBeyond
      <4>3. f[n] = g[n] /\ (n # 0 => f[n - 1] = g[n - 1]) BY <3>2, <4>1
      <4> HIDE DEF f
      <4> QED BY <4>2, <4>3
    <3> QED BY <3>1, <3>2
  <2>4. IsBeyond(f, events, after, k)
    <3>1. f = [n \in 0..k |-> f[n]]
      OBVIOUS
    <3> HIDE DEF f
    <3> QED BY <2>3, <3>1 DEF IsBeyond
  <2> HIDE DEF f
  <2> QED BY <1>2, <2>4
<1> QED BY <1>3, <1>4

\* What lies beyond a position, event by event.
LEMMA BeyondSteps ==
  ASSUME NEW events, NEW after, events \in Seq(HostEvents)
  PROVE  /\ Beyond(events, after)[0] = <<>>
         /\ \A n \in 1..Len(events) : Beyond(events, after)[n] = (IF events[n][1] > after THEN Append(Beyond(events, after)[n - 1], events[n]) ELSE Beyond(events, after)[n - 1])
<1>1. Len(events) \in Nat
  OBVIOUS
<1>2. IsBeyond(Beyond(events, after), events, after, Len(events))
  <2>1. \E f : IsBeyond(f, events, after, Len(events)) BY <1>1, BeyondExists
  <2>2. Beyond(events, after) = CHOOSE f : IsBeyond(f, events, after, Len(events))
    BY DEF Beyond, IsBeyond
  <2> QED BY <2>1, <2>2
<1>3. \A n \in 0..Len(events) : Beyond(events, after)[n] = IF n = 0 THEN <<>> ELSE (IF events[n][1] > after THEN Append(Beyond(events, after)[n - 1], events[n]) ELSE Beyond(events, after)[n - 1])
  BY <1>2 DEF IsBeyond
<1> QED BY <1>1, <1>3

\* n records project to events of their positions, each once.
Listed(events, n) ==
  /\ events \in Seq(HostEvents)
  /\ \A i \in DOMAIN events : events[i][1] \in 1..n
  /\ \A i, j \in DOMAIN events : events[i] = events[j] => i = j

\* A record projects to one or two events of its position, told apart by their entry.
LEMMA EventsAtOne ==
  ASSUME NEW kind, NEW n \in Nat
  PROVE  /\ EventsAt(kind, n) \in Seq(HostEvents) /\ Len(EventsAt(kind, n)) \in {1, 2}
         /\ \A i \in DOMAIN EventsAt(kind, n) : EventsAt(kind, n)[i] = <<n, i>>
<1>1. <<n, 1>> \in HostEvents /\ <<n, 2>> \in HostEvents BY DEF HostEvents
<1>2. CASE kind = "injected"
  <2>1. EventsAt(kind, n) = <<<<n, 1>>, <<n, 2>>>> BY <1>2 DEF EventsAt
  <2> QED BY <1>1, <2>1
<1>3. CASE kind # "injected"
  <2>1. EventsAt(kind, n) = <<<<n, 1>>>> BY <1>3 DEF EventsAt
  <2> QED BY <1>1, <2>1
<1> QED BY <1>2, <1>3

\* The events of one more record are new ones.
LEMMA ListedOneMore ==
  ASSUME NEW n \in Nat, NEW events, Listed(events, n), NEW kind
  PROVE  Listed(events \o EventsAt(kind, n + 1), n + 1)
<1> DEFINE new == EventsAt(kind, n + 1)
           all == events \o new
<1>1. /\ new \in Seq(HostEvents) /\ Len(new) \in {1, 2}
      /\ \A i \in DOMAIN new : new[i] = <<n + 1, i>>
  <2>1. n + 1 \in Nat
    OBVIOUS
  <2> QED BY <2>1, EventsAtOne
<1>2. events \in Seq(HostEvents) /\ Len(events) \in Nat /\ DOMAIN events = 1..Len(events)
  BY DEF Listed
<1> HIDE DEF new
<1>3. /\ all \in Seq(HostEvents) /\ Len(all) = Len(events) + Len(new) /\ DOMAIN all = 1..Len(all)
      /\ \A i \in 1..Len(events) : all[i] = events[i]
      /\ \A i \in (Len(events) + 1)..Len(all) : all[i] = new[i - Len(events)] /\ i - Len(events) \in DOMAIN new
  BY <1>1, <1>2
<1>4. \A i \in (Len(events) + 1)..Len(all) : all[i] = <<n + 1, i - Len(events)>>
  BY <1>1, <1>3
<1> HIDE DEF all
<1>5. \A i \in DOMAIN all : all[i][1] \in 1..(n + 1)
  <2> TAKE i \in DOMAIN all
  <2>1. CASE i <= Len(events)
    <3>1. i \in DOMAIN events /\ all[i] = events[i] BY <1>2, <1>3, <2>1
    <3>2. events[i][1] \in 1..n BY <3>1 DEF Listed
    <3> QED BY <3>1, <3>2
  <2>2. CASE ~(i <= Len(events))
    <3>1. i \in (Len(events) + 1)..Len(all) BY <1>2, <1>3, <2>2
    <3> QED BY <1>4, <3>1
  <2> QED BY <2>1, <2>2
<1>6. \A i, j \in DOMAIN all : all[i] = all[j] => i = j
  <2> SUFFICES ASSUME NEW i \in DOMAIN all, NEW j \in DOMAIN all, all[i] = all[j]
               PROVE  i = j
    OBVIOUS
  <2>1. \A k \in DOMAIN all : k <= Len(events) => k \in DOMAIN events /\ all[k] = events[k] /\ all[k][1] \in 1..n
    <3> SUFFICES ASSUME NEW k \in DOMAIN all, k <= Len(events)
                 PROVE  k \in DOMAIN events /\ all[k] = events[k] /\ all[k][1] \in 1..n
      OBVIOUS
    <3>1. k \in DOMAIN events /\ all[k] = events[k] BY <1>2, <1>3
    <3> QED BY <3>1 DEF Listed
  <2>2. \A k \in DOMAIN all : ~(k <= Len(events)) => all[k] = <<n + 1, k - Len(events)>>
    BY <1>2, <1>3, <1>4
  <2>3. CASE i <= Len(events) /\ j <= Len(events) BY <2>1, <2>3 DEF Listed
  <2>4. CASE i <= Len(events) /\ ~(j <= Len(events))
    <3>1. all[j][1] = n + 1 /\ all[i][1] \in 1..n BY <2>1, <2>2, <2>4
    <3> QED BY <3>1
  <2>5. CASE ~(i <= Len(events)) /\ j <= Len(events)
    <3>1. all[i][1] = n + 1 /\ all[j][1] \in 1..n BY <2>1, <2>2, <2>5
    <3> QED BY <3>1
  <2>6. CASE ~(i <= Len(events)) /\ ~(j <= Len(events))
    <3>1. all[i][2] = i - Len(events) /\ all[j][2] = j - Len(events) BY <2>2, <2>6
    <3> QED BY <1>2, <1>3, <3>1
  <2> QED BY <2>3, <2>4, <2>5, <2>6
<1>7. Listed(all, n + 1) BY <1>3, <1>5, <1>6 DEF Listed
<1> QED BY <1>7 DEF all, new

\* So no event occurs twice in what a journal projects to.
LEMMA EventsListed ==
  ASSUME NEW records \in Seq(Kinds)
  PROVE  \A n \in 0..Len(records) : Listed(EventsOf(records)[n], n)
<1> DEFINE Bad == {n \in 0..Len(records) : ~Listed(EventsOf(records)[n], n)}
<1>1. SUFFICES ASSUME Bad # {} PROVE FALSE
  OBVIOUS
<1>2. PICK k \in Bad : \A m \in Bad : k <= m
  <2>1. Bad \in SUBSET Nat
    OBVIOUS
  <2> HIDE DEF Bad
  <2> QED BY <1>1, <2>1, Least
<1>3. Listed(EventsOf(records)[0], 0)
  <2>1. Listed(<<>>, 0) BY DEF Listed
  <2> QED BY <2>1, EventsSteps
<1>4. k \in 1..Len(records) /\ k - 1 \in 0..Len(records) /\ k - 1 < k BY <1>2, <1>3
<1>5. Listed(EventsOf(records)[k - 1], k - 1) BY <1>2, <1>4
<1>6. Listed(EventsOf(records)[k - 1] \o EventsAt(records[k], (k - 1) + 1), (k - 1) + 1)
  BY <1>4, <1>5, ListedOneMore
<1>7. (k - 1) + 1 = k BY <1>4
<1>8. EventsOf(records)[k] = EventsOf(records)[k - 1] \o EventsAt(records[k], k)
  BY <1>4, EventsSteps
<1> QED BY <1>2, <1>6, <1>7, <1>8

\* A longer journal begins with the same events.
LEMMA EventsSame ==
  ASSUME NEW records \in Seq(Kinds), NEW more \in Seq(Kinds), Len(records) <= Len(more),
         \A i \in 1..Len(records) : more[i] = records[i]
  PROVE  \A n \in 0..Len(records) : EventsOf(more)[n] = EventsOf(records)[n]
<1> DEFINE Bad == {n \in 0..Len(records) : EventsOf(more)[n] # EventsOf(records)[n]}
<1>1. SUFFICES ASSUME Bad # {} PROVE FALSE
  OBVIOUS
<1>2. PICK k \in Bad : \A m \in Bad : k <= m
  <2>1. Bad \in SUBSET Nat
    OBVIOUS
  <2> HIDE DEF Bad
  <2> QED BY <1>1, <2>1, Least
<1>3. EventsOf(more)[0] = <<>> /\ EventsOf(records)[0] = <<>> BY EventsSteps
<1>4. k \in 1..Len(records) /\ k \in 1..Len(more) /\ k - 1 \in 0..Len(records) /\ k - 1 < k
  BY <1>2, <1>3
<1>5. EventsOf(more)[k - 1] = EventsOf(records)[k - 1] /\ more[k] = records[k] BY <1>2, <1>4
<1>6. EventsOf(records)[k] = EventsOf(records)[k - 1] \o EventsAt(records[k], k)
  BY <1>4, EventsSteps
<1>7. EventsOf(more)[k] = EventsOf(more)[k - 1] \o EventsAt(more[k], k) BY <1>4, EventsSteps
<1>8. EventsOf(more)[k] # EventsOf(records)[k] BY <1>2
<1> QED BY <1>5, <1>6, <1>7, <1>8

\* The events of a prefix of the journal are a prefix of its events.
Begins(s, t) == Len(s) <= Len(t) /\ s = SubSeq(t, 1, Len(s))

\* A beginning stays one when something is added at the end.
LEMMA BeginsLonger ==
  ASSUME NEW S, NEW s \in Seq(S), NEW t \in Seq(S), NEW u \in Seq(S), Begins(s, t)
  PROVE  Begins(s, t \o u)
<1>1. Len(s) \in Nat /\ Len(t) \in Nat /\ Len(u) \in Nat /\ Len(s) <= Len(t) BY DEF Begins
<1>2. t \o u \in Seq(S) /\ Len(t \o u) = Len(t) + Len(u) /\ \A i \in 1..Len(t) : (t \o u)[i] = t[i]
  OBVIOUS
<1>3. \A i \in 1..Len(s) : s[i] = t[i] /\ (t \o u)[i] = t[i] BY <1>1, <1>2 DEF Begins
<1>4. s = SubSeq(t \o u, 1, Len(s))
  <2> DEFINE w == t \o u
  <2>1. w \in Seq(S) /\ Len(s) <= Len(w) /\ \A i \in 1..Len(s) : s[i] = w[i]
    BY <1>1, <1>2, <1>3
  <2> HIDE DEF w
  <2>2. SubSeq(w, 1, Len(s)) \in Seq(S) /\ Len(SubSeq(w, 1, Len(s))) = Len(s)
        /\ \A i \in 1..Len(s) : SubSeq(w, 1, Len(s))[i] = w[i]
    BY <1>1, <2>1
  <2>3. s = SubSeq(w, 1, Len(s)) BY <2>1, <2>2
  <2> QED BY <2>3 DEF w
<1> QED BY <1>1, <1>2, <1>4 DEF Begins

\* The events of fewer records begin the events of more.
LEMMA EventsGrow ==
  ASSUME NEW records \in Seq(Kinds), NEW m \in 0..Len(records)
  PROVE  \A n \in m..Len(records) : Begins(EventsOf(records)[m], EventsOf(records)[n])
<1> DEFINE at == EventsOf(records)
           Bad == {n \in m..Len(records) : ~Begins(at[m], at[n])}
<1>1. SUFFICES ASSUME Bad # {} PROVE FALSE
  OBVIOUS
<1>0. Len(records) \in Nat
  OBVIOUS
<1>2. PICK k \in Bad : \A i \in Bad : k <= i
  <2>1. Bad \in SUBSET Nat BY <1>0
  <2> HIDE DEF Bad
  <2> QED BY <1>1, <2>1, Least
<1>3. Begins(at[m], at[m])
  <2>1. at[m] \in Seq(HostEvents) BY EventsListed DEF Listed
  <2> HIDE DEF at
  <2> QED BY <2>1 DEF Begins
<1>4. k \in 1..Len(records) /\ k - 1 \in m..Len(records) /\ k - 1 \in 0..Len(records) /\ k - 1 < k
  BY <1>0, <1>2, <1>3
<1>5. Begins(at[m], at[k - 1]) BY <1>2, <1>4
<1>6. at[m] \in Seq(HostEvents) /\ at[k - 1] \in Seq(HostEvents)
  BY <1>4, EventsListed DEF Listed
<1>7. EventsAt(records[k], k) \in Seq(HostEvents)
  <2>1. k \in Nat BY <1>4
  <2> QED BY <2>1, EventsAtOne
<1>8. at[k] = at[k - 1] \o EventsAt(records[k], k) BY <1>4, EventsSteps
<1> HIDE DEF at
<1>9. Begins(at[m], at[k]) BY <1>5, <1>6, <1>7, <1>8, BeginsLonger
<1> QED BY <1>2, <1>9

\* One event more to be read, or not, beyond a position.
LEMMA BeyondTyped ==
  ASSUME NEW events \in Seq(HostEvents), NEW after \in Nat
  PROVE  \A n \in 0..Len(events) : Beyond(events, after)[n] \in Seq(HostEvents)
<1> DEFINE at == Beyond(events, after)
           Bad == {n \in 0..Len(events) : at[n] \notin Seq(HostEvents)}
<1>1. SUFFICES ASSUME Bad # {} PROVE FALSE
  OBVIOUS
<1>2. PICK k \in Bad : \A m \in Bad : k <= m
  <2>1. Bad \in SUBSET Nat
    OBVIOUS
  <2> HIDE DEF Bad
  <2> QED BY <1>1, <2>1, Least
<1>3. at[0] = <<>> /\ <<>> \in Seq(HostEvents) BY BeyondSteps
<1>9. k \in 0..Len(events) /\ k # 0 /\ Len(events) \in Nat
  <2>1. k \in 0..Len(events) /\ at[k] \notin Seq(HostEvents) BY <1>2
  <2> HIDE DEF at
  <2>2. k # 0 BY <1>3, <2>1, Zenon
  <2> QED BY <2>1, <2>2
<1>4. k \in 1..Len(events) /\ k - 1 \in 0..Len(events) /\ k - 1 < k BY <1>9
<1>5. at[k - 1] \in Seq(HostEvents) /\ events[k] \in HostEvents BY <1>2, <1>4
<1>6. at[k] = IF events[k][1] > after THEN Append(at[k - 1], events[k]) ELSE at[k - 1]
  BY <1>4, BeyondSteps
<1> HIDE DEF at
<1>7. at[k] \in Seq(HostEvents) BY <1>5, <1>6
<1> QED BY <1>2, <1>7

\* What lies beyond a position, when one more event is shown.
LEMMA BeyondOneMore ==
  ASSUME NEW events \in Seq(HostEvents), NEW event \in HostEvents, NEW after \in Nat
  PROVE  Beyond(Append(events, event), after)[Len(events) + 1] =
           IF event[1] > after THEN Append(Beyond(events, after)[Len(events)], event)
           ELSE Beyond(events, after)[Len(events)]
<1> DEFINE more == Append(events, event)
           Bad == {n \in 0..Len(events) : Beyond(more, after)[n] # Beyond(events, after)[n]}
<1>1. /\ more \in Seq(HostEvents) /\ Len(more) = Len(events) + 1 /\ more[Len(events) + 1] = event
      /\ \A i \in 1..Len(events) : more[i] = events[i]
  OBVIOUS
<1> HIDE DEF more
<1>2. Beyond(more, after)[Len(events)] = Beyond(events, after)[Len(events)]
  <2>1. SUFFICES ASSUME Bad # {} PROVE FALSE
    OBVIOUS
  <2>2. PICK k \in Bad : \A m \in Bad : k <= m
    <3>1. Bad \in SUBSET Nat
      OBVIOUS
    <3> HIDE DEF Bad
    <3> QED BY <2>1, <3>1, Least
  <2>3. Beyond(more, after)[0] = <<>> /\ Beyond(events, after)[0] = <<>>
    BY <1>1, BeyondSteps
  <2>4. k \in 1..Len(events) /\ k \in 1..Len(more) /\ k - 1 \in 0..Len(events) /\ k - 1 < k
    BY <1>1, <2>2, <2>3
  <2>5. Beyond(more, after)[k - 1] = Beyond(events, after)[k - 1] /\ more[k] = events[k]
    BY <1>1, <2>2, <2>4
  <2>6. Beyond(events, after)[k] = IF events[k][1] > after THEN Append(Beyond(events, after)[k - 1], events[k])
                                   ELSE Beyond(events, after)[k - 1]
    BY <2>4, BeyondSteps
  <2>7. Beyond(more, after)[k] = IF more[k][1] > after THEN Append(Beyond(more, after)[k - 1], more[k])
                                 ELSE Beyond(more, after)[k - 1]
    BY <1>1, <2>4, BeyondSteps
  <2>8. Beyond(more, after)[k] # Beyond(events, after)[k] BY <2>2
  <2> QED BY <2>5, <2>6, <2>7, <2>8
<1>3. Len(events) + 1 \in 1..Len(more) /\ (Len(events) + 1) - 1 = Len(events) BY <1>1
<1>4. Beyond(more, after)[Len(events) + 1] =
        IF more[Len(events) + 1][1] > after
        THEN Append(Beyond(more, after)[(Len(events) + 1) - 1], more[Len(events) + 1])
        ELSE Beyond(more, after)[(Len(events) + 1) - 1]
  BY <1>1, <1>3, BeyondSteps
<1> QED BY <1>1, <1>2, <1>3, <1>4 DEF more

(***************************************************************************)
(* What is published.                                                      *)
(***************************************************************************)

\* An element more at the end of the last of three.
LEMMA AppendLast ==
  ASSUME NEW s \in Seq(HostEvents), NEW t \in Seq(HostEvents), NEW u \in Seq(HostEvents),
         NEW x \in HostEvents
  PROVE  s \o t \o Append(u, x) = Append(s \o t \o u, x)
<1>1. s \o t \in Seq(HostEvents)
  OBVIOUS
<1> DEFINE w == s \o t
<1>2. w \in Seq(HostEvents) BY <1>1
<1> HIDE DEF w
<1>3. w \o Append(u, x) = Append(w \o u, x) BY <1>2
<1> QED BY <1>3 DEF w

\* A sequence whose elements are the first ones of another.
LEMMA IsBeginning ==
  ASSUME NEW S, NEW s \in Seq(S), NEW t \in Seq(S), NEW n \in Nat, Len(s) = n, n <= Len(t),
         \A i \in 1..n : s[i] = t[i]
  PROVE  s = SubSeq(t, 1, n)
<1>1. SubSeq(t, 1, n) \in Seq(S) /\ Len(SubSeq(t, 1, n)) = n
      /\ \A i \in 1..n : SubSeq(t, 1, n)[i] = t[i]
  OBVIOUS
<1> QED BY <1>1

\* The same view, but for what it shows.
Kept(w, v) ==
  /\ w \in Views /\ w.position = v.position /\ w.state = v.state /\ w.ready = v.ready
  /\ w.covered = v.covered /\ w.startID = v.startID /\ w.receipts = v.receipts

EachOnce(all) == \A i, j \in DOMAIN all : all[i] = all[j] => i = j

\* One event for a stream: it gets what lies beyond its position, or is ended.
LEMMA DeliverGoes ==
  ASSUME NEW l \in Listeners, NEW event \in HostEvents, NEW shown \in Seq(HostEvents),
         l.on /\ ~l.ended => l.taken \o l.replay \o l.pending = Beyond(shown, l.after)[Len(shown)],
         NEW k, k = Deliver(l, event)
  PROVE  /\ k \in Listeners
         /\ k.on /\ ~k.ended =>
              k.taken \o k.replay \o k.pending
                = Beyond(Append(shown, event), k.after)[Len(shown) + 1]
<1>1. l.after \in Nat /\ event[1] \in Nat BY DEF Listeners, HostEvents
<1> DEFINE new == Beyond(Append(shown, event), l.after)[Len(shown) + 1]
           old == Beyond(shown, l.after)[Len(shown)]
<1>2. new = IF event[1] > l.after THEN Append(old, event) ELSE old BY <1>1, BeyondOneMore
<1> HIDE DEF new, old
<1>3. CASE ~l.on \/ l.ended
  <2>1. k = l BY <1>3 DEF Deliver
  <2> QED BY <1>3, <2>1
<1>4. CASE l.on /\ ~l.ended /\ event[1] <= l.after
  <2>1. k = l BY <1>4 DEF Deliver
  <2>2. new = old BY <1>1, <1>2, <1>4
  <2> QED BY <1>4, <2>1, <2>2 DEF new, old
<1>5. CASE l.on /\ ~l.ended /\ ~(event[1] <= l.after) /\ Len(l.pending) >= Capacity
  <2>1. k = [l EXCEPT !.ended = TRUE] BY <1>5 DEF Deliver
  <2>2. k \in Listeners /\ k.ended BY <2>1 DEF Listeners
  <2> QED BY <2>2
<1>6. CASE l.on /\ ~l.ended /\ ~(event[1] <= l.after) /\ ~(Len(l.pending) >= Capacity)
  <2>1. k = [l EXCEPT !.pending = Append(l.pending, event)] BY <1>6 DEF Deliver
  <2>2. l.taken \in Seq(HostEvents) /\ l.replay \in Seq(HostEvents) /\ l.pending \in Seq(HostEvents)
    BY DEF Listeners
  <2>3. Append(l.pending, event) \in Seq(HostEvents) BY <2>2
  <2>4. /\ k \in Listeners /\ k.taken = l.taken /\ k.replay = l.replay
        /\ k.pending = Append(l.pending, event) /\ k.after = l.after
    BY <2>1, <2>3 DEF Listeners
  <2>5. l.taken \o l.replay \o Append(l.pending, event) = Append(l.taken \o l.replay \o l.pending, event)
    BY <2>2, AppendLast, Zenon
  <2>6. new = Append(old, event) BY <1>1, <1>2, <1>6
  <2>7. l.taken \o l.replay \o l.pending = old BY <1>6 DEF old
  <2> QED BY <2>4, <2>5, <2>6, <2>7 DEF new
<1> QED BY <1>3, <1>4, <1>5, <1>6

\* One event of the journal is published: if it was shown it changes nothing, and
\* if not it is the next (state.publish).
LEMMA PublishOneGoes ==
  ASSUME NEW all \in Seq(HostEvents), EachOnce(all), NEW v \in Views, NEW l \in Listeners,
         Shows(v, l, all), NEW i \in 1..Len(all), i <= Len(v.history) + 1,
         NEW h, h = PublishOne([view |-> v, listener |-> l], all[i])
  PROVE  /\ Kept(h.view, v) /\ h.listener \in Listeners
         /\ h = [view |-> h.view, listener |-> h.listener]
         /\ Shows(h.view, h.listener, all)
         /\ i <= Len(h.view.history) /\ Len(v.history) <= Len(h.view.history)
<1> DEFINE n == Len(v.history)
           event == all[i]
<1>1. /\ v.history \in Seq(HostEvents) /\ n \in Nat /\ n <= Len(all) /\ event \in HostEvents
      /\ v.published \in SUBSET HostEvents /\ DOMAIN v.history = 1..n /\ i \in Nat
  BY DEF Views, Shows
<1>2. \A j \in 1..n : v.history[j] = all[j] BY <1>1 DEF Shows
<1>3. event \in v.published <=> i <= n
  <2>1. \A j \in DOMAIN v.history : v.history[j] = event => j = i BY <1>1, <1>2 DEF EachOnce
  <2>2. i <= n => v.history[i] = event /\ i \in DOMAIN v.history BY <1>1, <1>2
  <2>3. event \in v.published <=> \E j \in DOMAIN v.history : v.history[j] = event
    BY DEF Shows
  <2>4. (\E j \in DOMAIN v.history : v.history[j] = event) <=> i <= n BY <1>1, <2>1, <2>2
  <2> QED BY <2>3, <2>4
<1>4. CASE i <= n
  <2>1. h = [view |-> v, listener |-> l] BY <1>3, <1>4 DEF PublishOne, Key
  <2> QED BY <1>1, <1>4, <2>1 DEF Kept
<1>5. CASE ~(i <= n)
  <2>1. i = n + 1 BY <1>1, <1>5
  <2> DEFINE w == [v EXCEPT !.published = v.published \cup {event}, !.history = Append(v.history, event)]
             k == Deliver(l, event)
  <2>2. h = [view |-> w, listener |-> k] BY <1>3, <1>5 DEF PublishOne, Key
  <2>3. /\ Append(v.history, event) \in Seq(HostEvents) /\ Len(Append(v.history, event)) = n + 1
        /\ \A j \in 1..n : Append(v.history, event)[j] = v.history[j]
        /\ Append(v.history, event)[n + 1] = event
        /\ DOMAIN Append(v.history, event) = 1..(n + 1)
    BY <1>1
  <2>4. /\ Kept(w, v) /\ w.history = Append(v.history, event)
        /\ w.published = v.published \cup {event}
    BY <1>1, <2>3 DEF Kept, Views
  <2>5. k \in Listeners /\ (k.on /\ ~k.ended =>
          k.taken \o k.replay \o k.pending = Beyond(Append(v.history, event), k.after)[n + 1])
    <3>1. l.on /\ ~l.ended => l.taken \o l.replay \o l.pending = Beyond(v.history, l.after)[n]
      BY DEF Shows
    <3> HIDE DEF k, n, event
    <3>2. n = Len(v.history) /\ k = Deliver(l, event) BY DEF n, k
    <3> QED BY <1>1, <3>1, <3>2, DeliverGoes
  <2> HIDE DEF w, k, n, event
  <2>6. n + 1 <= Len(all) /\ Len(w.history) = n + 1 BY <2>1, <2>3, <2>4
  <2>7. w.history = SubSeq(all, 1, n + 1)
    <3>1. \A j \in 1..(n + 1) : w.history[j] = all[j]
      BY <1>1, <1>2, <2>1, <2>3, <2>4 DEF event
    <3>2. w.history \in Seq(HostEvents) BY <2>3, <2>4
    <3> QED BY <1>1, <2>6, <3>1, <3>2, IsBeginning
  <2>8. w.published = {w.history[j] : j \in DOMAIN w.history}
    <3>1. DOMAIN w.history = 1..(n + 1) /\ w.history[n + 1] = event
          /\ \A j \in 1..n : w.history[j] = v.history[j]
      BY <2>3, <2>4
    <3>2. v.published = {v.history[j] : j \in 1..n} BY <1>1 DEF Shows
    <3>3. \A x : x \in {w.history[j] : j \in 1..(n + 1)} <=> x \in v.published \/ x = event
      <4>1. \A j : j \in 1..(n + 1) <=> j \in 1..n \/ j = n + 1 BY <1>1
      <4> QED BY <3>1, <3>2, <4>1
    <3> QED BY <2>4, <3>1, <3>3
  <2>9. Shows(w, k, all) BY <2>4, <2>5, <2>6, <2>7, <2>8 DEF Shows
  <2>10. h.view = w /\ h.listener = k BY <2>2
  <2> QED BY <1>1, <2>1, <2>2, <2>4, <2>5, <2>6, <2>9, <2>10 DEF n
<1> QED BY <1>4, <1>5

\* A run of the journal's events that begins with what is shown, or one that
\* follows, leaves all up to its end shown.
IsPart(events, all, c) ==
  /\ c \in Nat /\ events \in Seq(HostEvents) /\ c + Len(events) <= Len(all)
  /\ \A i \in 1..Len(events) : events[i] = all[c + i]

\* A part of the journal's events that overlaps what is shown, or follows it at
\* once, is published without a gap and without a duplicate.
LEMMA PublishingGoes ==
  ASSUME NEW all \in Seq(HostEvents), EachOnce(all), NEW v \in Views, NEW l \in Listeners,
         Shows(v, l, all), NEW c, NEW events, IsPart(events, all, c), c <= Len(v.history),
         NEW h, h = Publishing([view |-> v, listener |-> l], events)[Len(events)]
  PROVE  /\ Kept(h.view, v) /\ h.listener \in Listeners /\ Shows(h.view, h.listener, all)
         /\ c + Len(events) <= Len(h.view.history) /\ Len(v.history) <= Len(h.view.history)
<1> DEFINE at == Publishing([view |-> v, listener |-> l], events)
           Good(g, n) == /\ Kept(g.view, v) /\ g.listener \in Listeners
                         /\ g = [view |-> g.view, listener |-> g.listener]
                         /\ Shows(g.view, g.listener, all)
                         /\ c + n <= Len(g.view.history) /\ Len(v.history) <= Len(g.view.history)
           Bad == {n \in 0..Len(events) : ~Good(at[n], n)}
<1>1. /\ Len(events) \in Nat /\ Len(all) \in Nat /\ Len(v.history) \in Nat
      /\ c \in Nat /\ events \in Seq(HostEvents)
  BY DEF Views, IsPart
<1>2. Good(at[0], 0)
  <2>1. at[0] = [view |-> v, listener |-> l] BY <1>1, PublishingSteps
  <2> HIDE DEF at
  <2> QED BY <1>1, <2>1 DEF Kept
<1>3. Bad = {}
  <2>1. SUFFICES ASSUME Bad # {} PROVE FALSE
    OBVIOUS
  <2>2. PICK k \in Bad : \A m \in Bad : k <= m
    <3>1. Bad \in SUBSET Nat
      OBVIOUS
    <3> HIDE DEF Bad
    <3> QED BY <2>1, <3>1, Least
  <2>3. k \in 0..Len(events) /\ ~Good(at[k], k) BY <2>2
  <2>4. k # 0
    <3> HIDE DEF Good, at
    <3> QED BY <1>2, <2>3
  <2>5. k \in 1..Len(events) /\ k - 1 \in 0..Len(events) /\ k - 1 < k /\ k - 1 \in Nat
    BY <1>1, <2>3, <2>4
  <2>6. Good(at[k - 1], k - 1)
    <3> HIDE DEF Good, at
    <3>1. k - 1 \notin Bad
      <4> HIDE DEF Bad
      <4> QED BY <2>2, <2>3, <2>5
    <3> QED BY <2>5, <3>1
  <2>7. at[k] = PublishOne(at[k - 1], events[k]) BY <1>1, <2>5, PublishingSteps
  <2> DEFINE g == at[k - 1]
  <2>8. g = [view |-> g.view, listener |-> g.listener] /\ g.view \in Views /\ Kept(g.view, v)
        /\ g.listener \in Listeners /\ Shows(g.view, g.listener, all)
        /\ Len(v.history) <= Len(g.view.history) /\ c + (k - 1) <= Len(g.view.history)
    BY <2>6 DEF Kept
  <2>9. events[k] = all[c + k] /\ c + k \in 1..Len(all) BY <1>1, <2>5 DEF IsPart
  <2>10. Len(g.view.history) \in Nat BY <2>8 DEF Views
  <2>11. c + k <= Len(g.view.history) + 1 BY <1>1, <2>3, <2>8, <2>10
  <2> HIDE DEF g
  <2>12. at[k] = PublishOne([view |-> g.view, listener |-> g.listener], all[c + k])
    BY <2>7, <2>8, <2>9 DEF g
  <2> DEFINE f == at[k]
  <2> HIDE DEF at
  <2>13. /\ Kept(f.view, g.view) /\ f.listener \in Listeners
         /\ f = [view |-> f.view, listener |-> f.listener] /\ Shows(f.view, f.listener, all)
         /\ c + k <= Len(f.view.history) /\ Len(g.view.history) <= Len(f.view.history)
    BY <2>8, <2>9, <2>11, <2>12, PublishOneGoes
  <2>14. Len(f.view.history) \in Nat BY <2>13 DEF Kept, Views
  <2>15. Good(f, k) BY <1>1, <2>8, <2>10, <2>13, <2>14 DEF Kept
  <2> QED BY <2>3, <2>15
<1>4. Good(h, Len(events))
  <2> HIDE DEF Good, at
  <2> QED BY <1>1, <1>3 DEF at
<1> QED BY <1>4

(***************************************************************************)
(* The journal.                                                            *)
(***************************************************************************)
LEMMA JournalParts ==
  ASSUME HostTyped
  PROVE  /\ All \in Seq(HostEvents) /\ EachOnce(All) /\ CountOf(Len(facts)) = Len(All)
         /\ \A n \in 0..Len(facts) : CountOf(n) \in Nat /\ CountOf(n) <= Len(All)
<1>1. facts \in Seq(Kinds) /\ Len(facts) \in 0..Len(facts) BY DEF HostTyped
<1>2. Listed(All, Len(facts)) BY <1>1, EventsListed DEF All
<1>3. ASSUME NEW n \in 0..Len(facts) PROVE CountOf(n) \in Nat /\ CountOf(n) <= Len(All)
  <2>1. EventsOf(facts)[n] \in Seq(HostEvents) BY <1>1, EventsListed DEF Listed
  <2>2. Len(facts) \in n..Len(facts) BY <1>1
  <2>3. Begins(EventsOf(facts)[n], EventsOf(facts)[Len(facts)]) BY <1>1, <2>2, EventsGrow
  <2> QED BY <2>1, <2>3 DEF CountOf, All, Begins
<1> QED BY <1>2, <1>3 DEF Listed, EachOnce, CountOf, All

\* One more record leaves the events of those before it.
LEMMA JournalGrows ==
  ASSUME HostTyped, NEW kind \in Kinds, facts' = Append(facts, kind)
  PROVE  /\ facts' \in Seq(Kinds) /\ Len(facts') = Len(facts) + 1 /\ Len(facts) \in Nat
         /\ \A n \in 1..Len(facts) : facts'[n] = facts[n]
         /\ facts'[Len(facts) + 1] = kind
         /\ All' \in Seq(HostEvents) /\ Begins(All, All')
         /\ \A n \in 0..Len(facts) : Len(EventsOf(facts')[n]) = CountOf(n)
<1>1. facts \in Seq(Kinds) /\ Len(facts) \in Nat BY DEF HostTyped
<1>2. /\ facts' \in Seq(Kinds) /\ Len(facts') = Len(facts) + 1
      /\ \A n \in 1..Len(facts) : facts'[n] = facts[n]
      /\ facts'[Len(facts) + 1] = kind
  BY <1>1
<1>3. \A n \in 0..Len(facts) : EventsOf(facts')[n] = EventsOf(facts)[n]
  <2>1. Len(facts) <= Len(facts') BY <1>1, <1>2
  <2> QED BY <1>1, <1>2, <2>1, EventsSame
<1>4. Len(facts') \in 0..Len(facts') /\ Len(facts) \in 0..Len(facts') /\ Len(facts') \in Len(facts)..Len(facts')
  BY <1>1, <1>2
<1>5. EventsOf(facts')[Len(facts')] \in Seq(HostEvents)
  BY <1>2, <1>4, EventsListed DEF Listed
<1>6. Begins(EventsOf(facts')[Len(facts)], EventsOf(facts')[Len(facts')])
  BY <1>2, <1>4, EventsGrow
<1>7. EventsOf(facts')[Len(facts)] = EventsOf(facts)[Len(facts)] BY <1>1, <1>3
<1>8. All' = EventsOf(facts')[Len(facts')] /\ All = EventsOf(facts)[Len(facts)] BY DEF All
<1>9. \A n \in 0..Len(facts) : Len(EventsOf(facts')[n]) = CountOf(n) BY <1>3 DEF CountOf
<1> QED BY <1>1, <1>2, <1>5, <1>6, <1>7, <1>8, <1>9

\* A part of a sequence.
LEMMA Slice ==
  ASSUME NEW s \in Seq(HostEvents), NEW a \in Nat, NEW b \in Nat, a < b, b <= Len(s)
  PROVE  /\ SubSeq(s, a + 1, b) \in Seq(HostEvents) /\ Len(SubSeq(s, a + 1, b)) = b - a
         /\ \A i \in 1..(b - a) : SubSeq(s, a + 1, b)[i] = s[a + i]
<1>1. \A i \in (a + 1)..b : i \in 1..Len(s) /\ s[i] \in HostEvents
  OBVIOUS
<1>2. /\ Len(SubSeq(s, a + 1, b)) = b - a
      /\ \A i \in 1..(b - a) : SubSeq(s, a + 1, b)[i] = s[a + i]
  OBVIOUS
<1> QED BY <1>1, <1>2

\* What is shown of a journal is shown of a longer one.
LEMMA ShowsOfLonger ==
  ASSUME NEW v \in Views, NEW l, NEW all \in Seq(HostEvents), NEW more \in Seq(HostEvents),
         Begins(all, more), Shows(v, l, all)
  PROVE  Shows(v, l, more)
<1> DEFINE n == Len(v.history)
<1>1. v.history \in Seq(HostEvents) /\ n \in Nat /\ Len(all) \in Nat /\ Len(more) \in Nat
      /\ n <= Len(all) /\ Len(all) <= Len(more)
  BY DEF Views, Shows, Begins
<1>2. \A i \in 1..n : v.history[i] = all[i] BY <1>1 DEF Shows
<1>3. \A i \in 1..n : all[i] = more[i] BY <1>1 DEF Begins
<1>4. v.history = SubSeq(more, 1, n) BY <1>1, <1>2, <1>3, IsBeginning
<1>5. n <= Len(more) BY <1>1
<1> QED BY <1>4, <1>5, Zenon DEF Shows

(***************************************************************************)
(* The steps.  What is shown, and how far each has come.                   *)
(***************************************************************************)
LEMMA RefreshShows ==
  ASSUME Shown, NEW snapshot \in Snapshots, snapshot.position <= Len(facts), Refresh(snapshot)
  PROVE  /\ view' \in Views /\ listener' \in Listeners /\ Shows(view', listener', All)
         /\ Len(view.history) <= Len(view'.history)
         /\ snapshot.reconcile => CountOf(snapshot.position) <= Len(view'.history)
         /\ view'.covered = IF snapshot.reconcile THEN snapshot.position ELSE view.covered
         /\ view'.position = snapshot.position /\ view'.state = snapshot.state
         /\ view'.receipts = view.receipts
         /\ view'.startID = IF view.startID # NoStart /\ Covered(view.startID, snapshot.position)
                            THEN NoStart ELSE view.startID
<1> DEFINE start == IF view.startID # NoStart /\ Covered(view.startID, snapshot.position)
                    THEN NoStart ELSE view.startID
           covered == IF snapshot.reconcile THEN snapshot.position ELSE view.covered
           seen == [view EXCEPT !.position = snapshot.position, !.state = snapshot.state, !.ready = TRUE,
                                !.covered = covered, !.startID = start]
           events == IF snapshot.reconcile THEN EventsBetween(view.covered, snapshot.position) ELSE <<>>
           c == IF snapshot.reconcile THEN CountOf(view.covered) ELSE 0
           h == Publishing([view |-> seen, listener |-> listener], events)[Len(events)]
<1>1. view \in Views /\ listener \in Listeners /\ facts \in Seq(Kinds) /\ Len(facts) \in Nat
      /\ Shows(view, listener, All)
  BY DEF Shown, HostTyped
<1>2. view' = h.view /\ listener' = h.listener BY DEF Refresh, Publishes
<1>3. /\ seen \in Views /\ seen.history = view.history /\ seen.published = view.published
      /\ seen.position = snapshot.position /\ seen.state = snapshot.state
      /\ seen.covered = covered /\ seen.startID = start /\ seen.receipts = view.receipts
  <2>1. /\ snapshot.position \in Nat /\ snapshot.state \in SnapshotStates /\ covered \in Nat
        /\ start \in StartIds \cup {NoStart}
    BY <1>1 DEF Snapshots, Views
  <2> HIDE DEF covered, start
  <2> QED BY <1>1, <2>1 DEF Views
<1> HIDE DEF seen, start, covered
<1>4. Shows(seen, listener, All) BY <1>1, <1>3 DEF Shows
<1>5. All \in Seq(HostEvents) /\ EachOnce(All) /\ Len(All) \in Nat BY JournalParts DEF Shown
<1>6. /\ c \in Nat /\ c <= Len(view.history) /\ events \in Seq(HostEvents)
      /\ c + Len(events) <= Len(All) /\ \A i \in 1..Len(events) : events[i] = All[c + i]
      /\ snapshot.reconcile => CountOf(snapshot.position) <= c + Len(events)
  <2>1. Len(view.history) \in Nat BY <1>1 DEF Views
  <2>2. CASE ~snapshot.reconcile
    <3>1. c = 0 /\ events = <<>> BY <2>2
    <3> HIDE DEF c, events
    <3> QED BY <1>5, <2>1, <2>2, <3>1
  <2>3. CASE snapshot.reconcile
    <3> DEFINE a == CountOf(view.covered)
               b == CountOf(snapshot.position)
    <3>1. view.covered \in 0..Len(facts) /\ snapshot.position \in 0..Len(facts)
          /\ a <= Len(view.history)
      BY <1>1 DEF Shown, Reached, ShownUpTo, Views, Snapshots
    <3>2. a \in Nat /\ b \in Nat /\ a <= Len(All) /\ b <= Len(All)
      BY <3>1, JournalParts DEF Shown
    <3>3. c = a /\ events = SubSeq(All, a + 1, b) BY <2>3 DEF EventsBetween
    <3> HIDE DEF a, b, c, events
    <3>4. CASE b <= a
      <4>1. SubSeq(All, a + 1, b) = <<>> BY <1>5, <3>2, <3>4
      <4>2. events = <<>> /\ Len(events) = 0 BY <3>3, <4>1
      <4> QED BY <3>1, <3>2, <3>3, <3>4, <4>2 DEF b
    <3>5. CASE ~(b <= a)
      <4>1. /\ SubSeq(All, a + 1, b) \in Seq(HostEvents) /\ Len(SubSeq(All, a + 1, b)) = b - a
            /\ \A i \in 1..(b - a) : SubSeq(All, a + 1, b)[i] = All[a + i]
        BY <1>5, <3>2, <3>5, Slice
      <4> QED BY <3>1, <3>2, <3>3, <3>5, <4>1 DEF b
    <3> QED BY <3>4, <3>5
  <2> QED BY <2>2, <2>3
<1> HIDE DEF c, events, h
<1>7. h = Publishing([view |-> seen, listener |-> listener], events)[Len(events)] BY DEF h
<1>10. IsPart(events, All, c) BY <1>6 DEF IsPart
<1>8. /\ Kept(h.view, seen) /\ h.listener \in Listeners /\ Shows(h.view, h.listener, All)
      /\ c + Len(events) <= Len(h.view.history) /\ Len(seen.history) <= Len(h.view.history)
  <2>1. c <= Len(seen.history) BY <1>3, <1>6
  <2>2. seen \in Views /\ listener \in Listeners BY <1>1, <1>3
  <2> QED BY <1>4, <1>5, <1>7, <1>10, <2>1, <2>2, PublishingGoes, Zenon
<1>9. snapshot.reconcile => CountOf(snapshot.position) <= Len(h.view.history)
  <2>1. SUFFICES ASSUME snapshot.reconcile PROVE CountOf(snapshot.position) <= Len(h.view.history)
    OBVIOUS
  <2>2. snapshot.position \in 0..Len(facts) BY <1>1 DEF Snapshots
  <2>3. CountOf(snapshot.position) \in Nat BY <2>2, JournalParts DEF Shown
  <2>4. Len(events) \in Nat /\ Len(h.view.history) \in Nat BY <1>6, <1>8 DEF Kept, Views
  <2> QED BY <1>6, <1>8, <2>1, <2>3, <2>4
<1> QED BY <1>2, <1>3, <1>8, <1>9 DEF Kept, start, covered

\* A step of the journal shows nothing more.
LEMMA JournalGoesShown ==
  ASSUME Shown, NEW kind \in Kinds, facts' = Append(facts, kind), owner.live,
         UNCHANGED <<owner, owners, view, mailbox, listener>>,
         asked' \in [StartIds -> Stages], accepted' \in [StartIds -> Nat]
  PROVE  Shown'
<1>1. HostTyped /\ Shows(view, listener, All) /\ Reached BY DEF Shown
<1>2. /\ facts' \in Seq(Kinds) /\ Len(facts') = Len(facts) + 1 /\ Len(facts) \in Nat
      /\ All' \in Seq(HostEvents) /\ Begins(All, All')
      /\ \A n \in 0..Len(facts) : Len(EventsOf(facts')[n]) = CountOf(n)
  BY <1>1, JournalGrows
<1>3. HostTyped' BY <1>1, <1>2 DEF HostTyped
<1>4. Shows(view, listener, All)'
  <2>1. view \in Views /\ All \in Seq(HostEvents) BY <1>1, JournalParts DEF HostTyped
  <2>2. Shows(view, listener, All') BY <1>1, <1>2, <2>1, ShowsOfLonger
  <2> QED BY <2>2
<1>5. \A n \in Nat : ShownUpTo(n) => n <= Len(facts') /\ Len(EventsOf(facts')[n]) <= Len(view.history)
  <2> SUFFICES ASSUME NEW n \in Nat, ShownUpTo(n)
               PROVE  n <= Len(facts') /\ Len(EventsOf(facts')[n]) <= Len(view.history)
    OBVIOUS
  <2>1. n \in 0..Len(facts) /\ CountOf(n) <= Len(view.history) BY <1>2 DEF ShownUpTo
  <2> QED BY <1>2, <2>1
<1>6. Reached'
  <2>1. view.covered \in Nat /\ owner.since \in Nat /\ view.position \in Nat /\ owner.reading.position \in Nat
    BY <1>1 DEF HostTyped, Views, Owners, Snapshots
  <2>2. ShownUpTo(view.covered)' /\ ShownUpTo(owner.since)'
    BY <1>1, <1>5, <2>1 DEF Reached, ShownUpTo, CountOf
  <2> QED BY <1>1, <1>2, <2>1, <2>2 DEF Reached
<1>7. RetiredIsObserved' BY DEF RetiredIsObserved
<1> QED BY <1>3, <1>4, <1>6, <1>7 DEF Shown

\* A step of the owner alone.
LEMMA OwnerGoesShown ==
  ASSUME Shown, UNCHANGED <<facts, view, mailbox, accepted, listener>>, owner' \in Owners,
         owners' \in Nat, asked' \in [StartIds -> Stages],
         ShownUpTo(owner'.since), owner'.at <= Len(view.history),
         owner'.since = 0 =>
           ~owner'.streaming /\ (owner'.reading # NoSnapshot => owner'.reading.reconcile),
         owner'.reading.position <= Len(facts),
         owner'.reading # NoSnapshot => owner'.live /\ view.position <= owner'.reading.position,
         owner'.live \/ owner'.lost
  PROVE  Shown'
<1>1. HostTyped /\ Shows(view, listener, All) /\ Reached BY DEF Shown
<1>2. HostTyped' BY <1>1 DEF HostTyped
<1>3. All' = All /\ Shows(view, listener, All)' BY <1>1 DEF All
<1>4. ShownUpTo(view.covered)' /\ ShownUpTo(owner.since)'
  BY <1>1 DEF Reached, ShownUpTo, CountOf
<1>5. Reached' BY <1>1, <1>4 DEF Reached
<1>6. RetiredIsObserved' BY DEF RetiredIsObserved
<1> QED BY <1>2, <1>3, <1>5, <1>6 DEF Shown

\* A step of the view, which shows no less.
LEMMA ViewGoesShown ==
  ASSUME Shown, UNCHANGED <<facts, owners, accepted>>, owner' \in Owners, mailbox' \in SUBSET StartIds,
         asked' \in [StartIds -> Stages], view' \in Views, listener' \in Listeners,
         Shows(view', listener', All), Len(view.history) <= Len(view'.history),
         owner'.since = owner.since \/ (owner'.since <= Len(facts) /\ CountOf(owner'.since) <= Len(view'.history)),
         view'.covered = view.covered \/ (view'.covered <= Len(facts) /\ CountOf(view'.covered) <= Len(view'.history)),
         owner'.at <= Len(view'.history), view'.position <= Len(facts),
         owner'.since = 0 =>
           ~owner'.streaming /\ (owner'.reading # NoSnapshot => owner'.reading.reconcile),
         owner'.reading.position <= Len(facts),
         owner'.reading # NoSnapshot => owner'.live /\ view'.position <= owner'.reading.position,
         owner'.live \/ owner'.lost \/ Len(All) <= Len(view'.history)
           \/ (~owner.live /\ owner'.lost = owner.lost /\ view'.history = view.history)
  PROVE  Shown'
<1>1. HostTyped /\ Shows(view, listener, All) /\ Reached BY DEF Shown
<1>2. HostTyped' BY <1>1 DEF HostTyped
<1>3. All' = All /\ Shows(view, listener, All)' BY <1>1 DEF All
<1>4. \A n \in Nat : ShownUpTo(n) => n <= Len(facts) /\ CountOf(n) <= Len(view'.history)
  <2> SUFFICES ASSUME NEW n \in Nat, ShownUpTo(n) PROVE n <= Len(facts) /\ CountOf(n) <= Len(view'.history)
    OBVIOUS
  <2>1. n \in 0..Len(facts) BY <1>1 DEF ShownUpTo, HostTyped
  <2>2. CountOf(n) \in Nat BY <1>1, <2>1, JournalParts
  <2>3. Len(view.history) \in Nat /\ Len(view'.history) \in Nat BY <1>1 DEF HostTyped, Views
  <2> QED BY <2>2, <2>3 DEF ShownUpTo
<1>5. ShownUpTo(view.covered) /\ ShownUpTo(owner.since) /\ view.covered \in Nat /\ owner.since \in Nat
  BY <1>1 DEF Reached, HostTyped, Views, Owners
<1>6. view'.covered <= Len(facts) /\ CountOf(view'.covered) <= Len(view'.history)
  BY <1>4, <1>5
<1>7. owner'.since <= Len(facts) /\ CountOf(owner'.since) <= Len(view'.history)
  BY <1>4, <1>5
<1>8. ShownUpTo(view.covered)' /\ ShownUpTo(owner.since)'
  BY <1>6, <1>7 DEF ShownUpTo, CountOf
<1>9. Reached' BY <1>1, <1>8 DEF Reached
<1>10. RetiredIsObserved'
  <2>1. CASE owner'.live \/ owner'.lost BY <2>1 DEF RetiredIsObserved
  <2>2. CASE Len(All) <= Len(view'.history)
    <3>1. All \in Seq(HostEvents) /\ Len(view'.history) <= Len(All) /\ view'.history = SubSeq(All, 1, Len(view'.history))
      BY <1>1, JournalParts DEF Shows
    <3>2. Len(view'.history) = Len(All) BY <2>2, <3>1, <1>2 DEF HostTyped, Views
    <3>3. SubSeq(All, 1, Len(All)) = All BY <3>1
    <3>4. view'.history = All' BY <1>3, <3>1, <3>2, <3>3
    <3> QED BY <3>4 DEF RetiredIsObserved
  <2>3. CASE ~owner.live /\ owner'.lost = owner.lost /\ view'.history = view.history
    BY <1>3, <2>3 DEF Shown, RetiredIsObserved
  <2> QED BY <2>1, <2>2, <2>3
<1> QED BY <1>2, <1>3, <1>9, <1>10 DEF Shown

\* Nothing needs to be shown for position 0.
LEMMA NothingShown ==
  ASSUME HostTyped
  PROVE  ShownUpTo(0) /\ NoSnapshot \in Snapshots /\ NoOwner \in Owners /\ NoListener \in Listeners
<1>1. facts \in Seq(Kinds) /\ Len(view.history) \in Nat /\ Len(facts) \in Nat
  BY DEF HostTyped, Views
<1>2. EventsOf(facts)[0] = <<>> BY <1>1, EventsSteps
<1>3. ShownUpTo(0) BY <1>1, <1>2 DEF ShownUpTo, CountOf
<1>4. <<>> \in Seq(HostEvents)
  OBVIOUS
<1> QED BY <1>3, <1>4 DEF NoSnapshot, NoOwner, NoListener, Snapshots, Owners, Listeners, SnapshotStates

\* A snapshot read goes no further than the journal does.
LEMMA ReadParts ==
  ASSUME Shown, NEW worker \in BOOLEAN, ReadSnapshot(worker)
  PROVE  /\ owner' \in Owners /\ owner'.since = owner.since /\ owner'.at = owner.at
         /\ owner'.streaming = owner.streaming /\ owner'.live /\ owner'.lost = owner.lost
         /\ owner'.reading.position = Len(facts) /\ owner'.reading.state = "unread"
         /\ owner'.reading.reconcile = ~owner.streaming /\ owner'.reading \in Snapshots
<1>1. owner \in Owners /\ Len(facts) \in Nat BY DEF Shown, HostTyped
<1> DEFINE snapshot == [worker |-> worker, position |-> Len(facts), state |-> "unread",
                        reconcile |-> ~owner.streaming]
<1>2. snapshot \in Snapshots
  <2>1. "unread" \in SnapshotStates BY DEF SnapshotStates
  <2> DEFINE reconcile == ~owner.streaming
  <2>2. reconcile \in BOOLEAN
    OBVIOUS
  <2>3. snapshot = [worker |-> worker, position |-> Len(facts), state |-> "unread", reconcile |-> reconcile]
    OBVIOUS
  <2> HIDE DEF reconcile, snapshot
  <2> QED BY <1>1, <2>1, <2>2, <2>3 DEF Snapshots
<1>3. owner' = [owner EXCEPT !.reading = snapshot] BY DEF ReadSnapshot
<1>4. /\ snapshot.position = Len(facts) /\ snapshot.state = "unread" /\ snapshot.reconcile = ~owner.streaming
  OBVIOUS
<1> HIDE DEF snapshot
<1>5. owner.live BY DEF ReadSnapshot
<1>6. /\ owner'.reading = snapshot /\ owner'.since = owner.since /\ owner'.at = owner.at
      /\ owner'.streaming = owner.streaming /\ owner'.live = owner.live /\ owner'.lost = owner.lost
      /\ owner' \in Owners
  BY <1>1, <1>2, <1>3 DEF Owners
<1> QED BY <1>2, <1>4, <1>5, <1>6

\* The state that is read goes with the position read before.
LEMMA ReadStateParts ==
  ASSUME owner \in Owners, ReadState
  PROVE  /\ owner' \in Owners /\ owner'.since = owner.since /\ owner'.at = owner.at /\ owner'.live = owner.live
         /\ owner'.streaming = owner.streaming /\ owner'.reading.position = owner.reading.position
         /\ owner'.reading.reconcile = owner.reading.reconcile /\ owner'.reading.state = State
<1> DEFINE read == [owner.reading EXCEPT !.state = State]
<1>1. owner' = [owner EXCEPT !.reading = read] BY DEF ReadState
<1>2. State \in SnapshotStates BY DEF State, SnapshotStates
<1>3. owner.reading \in Snapshots BY DEF Owners
<1>4. /\ read \in Snapshots /\ read.position = owner.reading.position /\ read.state = State
      /\ read.reconcile = owner.reading.reconcile
  BY <1>2, <1>3 DEF Snapshots
<1> HIDE DEF read
<1>5. /\ owner' \in Owners /\ owner'.since = owner.since /\ owner'.at = owner.at /\ owner'.live = owner.live
      /\ owner'.streaming = owner.streaming /\ owner'.reading = read
  BY <1>1, <1>4 DEF Owners
<1> QED BY <1>4, <1>5

\* Opening, reading a snapshot and then the state, subscribing, losing the lease and abandoning.
LEMMA OwnerStepsShown ==
  ASSUME Shown,
         OpenOwned \/ WorkerSnapshot \/ ReadState \/ OwnerSubscribe \/ LoseLease \/ OwnerAbandon
  PROVE  Shown'
<1>1. /\ HostTyped /\ Reached /\ owner \in Owners /\ owners \in Nat /\ asked \in [StartIds -> Stages]
      /\ Len(facts) \in Nat /\ view.position \in Nat /\ Len(view.history) \in Nat
  BY DEF Shown, HostTyped, Views
<1>2. /\ ShownUpTo(0) /\ NoSnapshot \in Snapshots /\ NoOwner \in Owners /\ NoSnapshot.position = 0
  BY <1>1, NothingShown DEF NoSnapshot
<1>3. CASE OpenOwned
  <2>1. /\ owner' \in Owners /\ owner'.since = 0 /\ owner'.at = 0 /\ ~owner'.streaming
        /\ owner'.reading = NoSnapshot /\ owner'.live /\ owners' \in Nat
    <3>1. owner' = [NoOwner EXCEPT !.live = TRUE] /\ owners' = owners + 1
      BY <1>3 DEF OpenOwned
    <3>2. NoOwner.since = 0 /\ NoOwner.at = 0 /\ NoOwner.streaming = FALSE /\ NoOwner.reading = NoSnapshot
      BY DEF NoOwner
    <3>3. /\ owner'.since = NoOwner.since /\ owner'.at = NoOwner.at /\ owner'.live
          /\ owner'.streaming = NoOwner.streaming /\ owner'.reading = NoOwner.reading /\ owner' \in Owners
      BY <1>2, <3>1 DEF Owners
    <3> QED BY <1>1, <3>1, <3>2, <3>3
  <2>2. UNCHANGED <<facts, view, mailbox, asked, accepted, listener>> BY <1>3 DEF OpenOwned
  <2> QED BY <1>1, <1>2, <2>1, <2>2, OwnerGoesShown
<1>4. CASE WorkerSnapshot
  <2>1. ReadSnapshot(TRUE) /\ UNCHANGED <<facts, owners, view, mailbox, asked, accepted, listener>>
    BY <1>4 DEF WorkerSnapshot
  <2>2. /\ owner' \in Owners /\ owner'.since = owner.since /\ owner'.at = owner.at
        /\ owner'.streaming = owner.streaming /\ owner'.live
        /\ owner'.reading.position = Len(facts) /\ owner'.reading.reconcile = ~owner.streaming
    BY <2>1, ReadParts
  <2>3. ShownUpTo(owner'.since) /\ owner'.at <= Len(view.history) /\ view.position <= Len(facts)
    BY <1>1, <2>2 DEF Reached
  <2>4. owner'.since = 0 => ~owner'.streaming /\ owner'.reading.reconcile
    BY <1>1, <2>2 DEF Reached
  <2>5. owner'.reading.position <= Len(facts) /\ view.position <= owner'.reading.position
    BY <1>1, <2>2, <2>3
  <2> QED BY <1>1, <2>1, <2>2, <2>3, <2>4, <2>5, OwnerGoesShown
<1>5. CASE OwnerSubscribe
  <2>1. /\ owner' = [owner EXCEPT !.streaming = TRUE, !.at = CountOf(owner.since)] /\ owner.live
        /\ owner.since > 0 /\ UNCHANGED <<facts, owners, view, mailbox, asked, accepted, listener>>
    BY <1>5 DEF OwnerSubscribe
  <2>2. owner.since \in 0..Len(facts) /\ CountOf(owner.since) <= Len(view.history)
    BY <1>1 DEF Reached, ShownUpTo, Owners
  <2>3. CountOf(owner.since) \in Nat BY <1>1, <2>2, JournalParts
  <2>4. /\ owner' \in Owners /\ owner'.since = owner.since /\ owner'.at = CountOf(owner.since)
        /\ owner'.live /\ owner'.reading = owner.reading
    BY <1>1, <2>1, <2>3 DEF Owners
  <2> QED BY <1>1, <2>1, <2>2, <2>4, OwnerGoesShown DEF Reached
<1>6. CASE LoseLease
  <2>1. owner' = [owner EXCEPT !.lost = TRUE] /\ owner.live
        /\ UNCHANGED <<facts, owners, view, mailbox, asked, accepted, listener>>
    BY <1>6 DEF LoseLease
  <2>2. /\ owner' \in Owners /\ owner'.since = owner.since /\ owner'.at = owner.at
        /\ owner'.streaming = owner.streaming /\ owner'.live /\ owner'.reading = owner.reading
    BY <1>1, <2>1 DEF Owners
  <2> QED BY <1>1, <2>1, <2>2, OwnerGoesShown DEF Reached
<1>7. CASE OwnerAbandon
  <2>1. owner' = [NoOwner EXCEPT !.lost = TRUE]
        /\ UNCHANGED <<facts, owners, view, mailbox, asked, accepted, listener>>
    BY <1>7 DEF OwnerAbandon
  <2>2. /\ owner' \in Owners /\ owner'.since = 0 /\ owner'.at = 0
        /\ ~owner'.streaming /\ owner'.lost /\ owner'.reading = NoSnapshot
    BY <1>2, <2>1 DEF Owners, NoOwner
  <2> QED BY <1>1, <1>2, <2>1, <2>2, OwnerGoesShown
<1>8. CASE ReadState
  <2>1. UNCHANGED <<facts, owners, view, mailbox, asked, accepted, listener>>
    BY <1>8 DEF ReadState
  <2>2. /\ owner' \in Owners /\ owner'.since = owner.since /\ owner'.at = owner.at /\ owner'.live = owner.live
        /\ owner'.streaming = owner.streaming /\ owner'.reading.position = owner.reading.position
        /\ owner'.reading.reconcile = owner.reading.reconcile
    BY <1>1, <1>8, ReadStateParts
  <2>3. owner.reading # NoSnapshot BY <1>8 DEF ReadState, NoSnapshot
  <2>4. ShownUpTo(owner'.since) /\ owner'.at <= Len(view.history) BY <1>1, <2>2 DEF Reached
  <2>5. owner'.since = 0 => ~owner'.streaming /\ owner'.reading.reconcile
    BY <1>1, <2>2, <2>3 DEF Reached
  <2>6. owner'.reading.position <= Len(facts) /\ view.position <= owner'.reading.position /\ owner'.live
    BY <1>1, <2>2, <2>3 DEF Reached
  <2> QED BY <1>1, <2>1, <2>2, <2>4, <2>5, <2>6, OwnerGoesShown
<1> QED BY <1>3, <1>4, <1>5, <1>6, <1>7, <1>8

\* A snapshot that was read earlier is stored.
LEMMA StoreSnapshotShown ==
  ASSUME Shown, StoreSnapshot
  PROVE  Shown'
<1> DEFINE snapshot == owner.reading
<1>1. /\ HostTyped /\ Reached /\ owner \in Owners /\ asked \in [StartIds -> Stages]
      /\ snapshot \in Snapshots /\ snapshot.position <= Len(facts) /\ Len(facts) \in Nat
  BY DEF Shown, HostTyped, Owners, Reached
<1>2. /\ snapshot # NoSnapshot /\ Refresh(snapshot) /\ UNCHANGED <<facts, owners, mailbox, accepted>>
      /\ owner' = [owner EXCEPT !.reading = NoSnapshot,
                                !.since = IF snapshot.worker /\ owner.since = 0 THEN snapshot.position
                                          ELSE owner.since]
      /\ asked' = [id \in StartIds |-> IF asked[id] = "refreshing" THEN "refreshed" ELSE asked[id]]
  BY DEF StoreSnapshot
<1>3. /\ view' \in Views /\ listener' \in Listeners /\ Shows(view', listener', All)
      /\ Len(view.history) <= Len(view'.history)
      /\ snapshot.reconcile => CountOf(snapshot.position) <= Len(view'.history)
      /\ view'.covered = IF snapshot.reconcile THEN snapshot.position ELSE view.covered
      /\ view'.position = snapshot.position
  BY <1>1, <1>2, RefreshShows
<1>4. asked' \in [StartIds -> Stages] /\ mailbox' \in SUBSET StartIds
  BY <1>1, <1>2 DEF Stages, HostTyped
<1> DEFINE since == IF snapshot.worker /\ owner.since = 0 THEN snapshot.position ELSE owner.since
<1>5. /\ NoSnapshot \in Snapshots /\ since \in Nat
  BY <1>1, NothingShown DEF Owners, Snapshots
<1>6. /\ owner' \in Owners /\ owner'.since = since /\ owner'.at = owner.at /\ owner'.live = owner.live
      /\ owner'.lost = owner.lost /\ owner'.streaming = owner.streaming /\ owner'.reading = NoSnapshot
  BY <1>1, <1>2, <1>5 DEF Owners
<1>7. owner'.since = owner.since \/ (owner'.since <= Len(facts) /\ CountOf(owner'.since) <= Len(view'.history))
  <2>1. CASE snapshot.worker /\ owner.since = 0
    <3>1. snapshot.reconcile BY <1>1, <1>2, <2>1 DEF Reached
    <3> QED BY <1>1, <1>3, <1>6, <2>1, <3>1
  <2>2. CASE ~(snapshot.worker /\ owner.since = 0) BY <1>6, <2>2
  <2> QED BY <2>1, <2>2
<1>8. owner'.since = 0 => ~owner'.streaming
  <2>1. SUFFICES ASSUME owner'.since = 0 PROVE ~owner.streaming BY <1>6
  <2>2. owner.since = 0 BY <1>6, <2>1
  <2> QED BY <1>1, <2>2 DEF Reached
<1>9. view'.covered = view.covered \/ (view'.covered <= Len(facts) /\ CountOf(view'.covered) <= Len(view'.history))
  BY <1>1, <1>3
<1>10. owner'.at <= Len(view'.history)
  <2>1. owner.at <= Len(view.history) /\ owner.at \in Nat /\ Len(view.history) \in Nat /\ Len(view'.history) \in Nat
    BY <1>1, <1>3 DEF Reached, Owners, HostTyped, Views
  <2> QED BY <1>3, <1>6, <2>1
<1>11. owner'.live BY <1>1, <1>2, <1>6 DEF Reached
<1>12. NoSnapshot.position <= Len(facts) /\ view'.position <= Len(facts)
  BY <1>1, <1>3 DEF NoSnapshot
<1> HIDE DEF snapshot
<1> QED BY <1>2, <1>3, <1>4, <1>6, <1>7, <1>8, <1>9, <1>10, <1>11, <1>12, ViewGoesShown

\* Retiring replays the rest of the journal.
LEMMA OwnerCloseShown ==
  ASSUME Shown, OwnerClose
  PROVE  Shown'
<1> DEFINE snapshot == [worker |-> TRUE, position |-> Len(facts), state |-> State,
                        reconcile |-> ReplaysToRetire]
<1>1. HostTyped /\ Len(facts) \in Nat /\ State \in SnapshotStates
  BY DEF Shown, HostTyped, State, SnapshotStates
<1>2. /\ owner' = NoOwner /\ Refresh(snapshot)
      /\ UNCHANGED <<facts, owners, mailbox, asked, accepted>>
  BY DEF OwnerClose
<1>3. snapshot \in Snapshots /\ snapshot.position = Len(facts) /\ snapshot.reconcile
  BY <1>1 DEF Snapshots, ReplaysToRetire
<1> HIDE DEF snapshot
<1>4. /\ view' \in Views /\ listener' \in Listeners /\ Shows(view', listener', All)
      /\ Len(view.history) <= Len(view'.history)
      /\ CountOf(Len(facts)) <= Len(view'.history)
      /\ view'.covered = Len(facts) /\ view'.position = Len(facts)
  BY <1>1, <1>2, <1>3, RefreshShows
<1>5. Len(All) <= Len(view'.history) BY <1>1, <1>4, JournalParts
<1>6. /\ owner' \in Owners /\ owner'.since = 0 /\ owner'.at = 0 /\ ~owner'.streaming
      /\ owner'.reading = NoSnapshot /\ NoSnapshot.position = 0
  <2>1. NoOwner \in Owners BY <1>1, NothingShown
  <2> QED BY <1>2, <2>1 DEF NoOwner, NoSnapshot
<1>7. owner'.since <= Len(facts) /\ CountOf(owner'.since) <= Len(view'.history)
  <2>1. ShownUpTo(0) BY <1>1, NothingShown
  <2>2. CountOf(0) <= Len(view.history) /\ CountOf(0) \in Nat
    BY <1>1, <2>1, JournalParts DEF ShownUpTo
  <2>3. Len(view.history) \in Nat /\ Len(view'.history) \in Nat
    BY <1>1, <1>4 DEF HostTyped, Views
  <2> QED BY <1>1, <1>4, <1>6, <2>2, <2>3
<1>8. owner'.at <= Len(view'.history) /\ view'.position <= Len(facts) /\ owner'.reading.position <= Len(facts)
  BY <1>1, <1>4, <1>6 DEF Views
<1>9. asked' \in [StartIds -> Stages] /\ mailbox' \in SUBSET StartIds
  BY <1>1, <1>2 DEF HostTyped
<1>10. view'.covered <= Len(facts) /\ CountOf(view'.covered) <= Len(view'.history)
  BY <1>1, <1>4
<1> QED BY <1>2, <1>4, <1>5, <1>6, <1>7, <1>8, <1>9, <1>10, ViewGoesShown

\* One event of the owner's stream.
LEMMA ObserveKeeps ==
  ASSUME Shown, Observe
  PROVE  /\ Kept(view', view) /\ listener' \in Listeners /\ Shows(view', listener', All)
         /\ owner.at + 1 <= Len(view'.history) /\ Len(view.history) <= Len(view'.history)
<1> DEFINE events == <<All[owner.at + 1]>>
           h == Publishing([view |-> view, listener |-> listener], events)[Len(events)]
<1>1. /\ HostTyped /\ Reached /\ Shows(view, listener, All) /\ view \in Views /\ listener \in Listeners
      /\ owner \in Owners /\ owner.at \in Nat /\ Len(view.history) \in Nat
  BY DEF Shown, HostTyped, Views, Owners
<1>2. /\ owner.live /\ owner.at < Len(All) /\ owner' = [owner EXCEPT !.at = owner.at + 1]
      /\ view' = h.view /\ listener' = h.listener
      /\ UNCHANGED <<facts, owners, mailbox, asked, accepted>>
  BY DEF Observe, Publishes
<1>3. All \in Seq(HostEvents) /\ EachOnce(All) /\ Len(All) \in Nat BY <1>1, JournalParts
<1>4. IsPart(events, All, owner.at) /\ Len(events) = 1
  <2>1. owner.at + 1 \in 1..Len(All) /\ All[owner.at + 1] \in HostEvents BY <1>1, <1>2, <1>3
  <2> QED BY <1>1, <1>3, <2>1 DEF IsPart
<1>5. owner.at <= Len(view.history) BY <1>1 DEF Reached
<1> HIDE DEF events
<1>6. h = Publishing([view |-> view, listener |-> listener], events)[Len(events)]
  OBVIOUS
<1> HIDE DEF h
<1>7. /\ Kept(h.view, view) /\ h.listener \in Listeners /\ Shows(h.view, h.listener, All)
      /\ owner.at + Len(events) <= Len(h.view.history) /\ Len(view.history) <= Len(h.view.history)
  BY <1>1, <1>3, <1>4, <1>5, <1>6, PublishingGoes, Zenon
<1> QED BY <1>2, <1>4, <1>7

\* The owner's stream carries on where it is shown or overlaps it.
LEMMA ObserveShown ==
  ASSUME Shown, Observe
  PROVE  Shown'
<1>1. /\ HostTyped /\ Reached /\ owner \in Owners BY DEF Shown, HostTyped
<1>2. /\ owner.live /\ owner' = [owner EXCEPT !.at = owner.at + 1]
      /\ UNCHANGED <<facts, owners, mailbox, asked, accepted>>
  BY DEF Observe
<1>7. /\ Kept(view', view) /\ listener' \in Listeners /\ Shows(view', listener', All)
      /\ owner.at + 1 <= Len(view'.history) /\ Len(view.history) <= Len(view'.history)
  BY ObserveKeeps
<1>8. /\ owner' \in Owners /\ owner'.since = owner.since /\ owner'.at = owner.at + 1 /\ owner'.live
      /\ owner'.streaming = owner.streaming /\ owner'.reading = owner.reading
  BY <1>1, <1>2 DEF Owners
<1>9. view' \in Views /\ view'.covered = view.covered /\ view'.position = view.position
  BY <1>7 DEF Kept
<1>10. asked' \in [StartIds -> Stages] /\ mailbox' \in SUBSET StartIds
  BY <1>1, <1>2 DEF HostTyped
<1>11. owner'.at <= Len(view'.history) BY <1>7, <1>8
<1>12. /\ view.position <= Len(facts) /\ owner.reading.position <= Len(facts)
       /\ owner.since = 0 => ~owner.streaming /\ (owner.reading # NoSnapshot => owner.reading.reconcile)
       /\ owner.reading # NoSnapshot => view.position <= owner.reading.position
  BY <1>1 DEF Reached
<1> QED BY <1>2, <1>7, <1>8, <1>9, <1>10, <1>11, <1>12, ViewGoesShown

\* A client has the owner refresh before it decides.
LEMMA RefreshForStartShown ==
  ASSUME Shown, NEW id \in StartIds, RefreshForStart(id)
  PROVE  Shown'
<1>1. /\ HostTyped /\ Reached /\ RetiredIsObserved /\ owner \in Owners /\ asked \in [StartIds -> Stages] /\ Len(facts) \in Nat
      /\ Shows(view, listener, All)
  BY DEF Shown, HostTyped
<1>2. UNCHANGED <<facts, owners, view, mailbox, accepted, listener>> BY DEF RefreshForStart
<1>3. CASE ReadSnapshot(FALSE) /\ asked' = [asked EXCEPT ![id] = "refreshing"]
  <2>1. asked' \in [StartIds -> Stages] BY <1>1, <1>3 DEF Stages
  <2>2. /\ owner' \in Owners /\ owner'.since = owner.since /\ owner'.at = owner.at
        /\ owner'.streaming = owner.streaming /\ owner'.live
        /\ owner'.reading.position = Len(facts) /\ owner'.reading.reconcile = ~owner.streaming
    BY <1>3, ReadParts
  <2>3. ShownUpTo(owner'.since) /\ owner'.at <= Len(view.history) /\ view.position <= Len(facts)
    BY <1>1, <2>2 DEF Reached
  <2>4. owner'.since = 0 => ~owner'.streaming /\ owner'.reading.reconcile
    BY <1>1, <2>2 DEF Reached
  <2>5. owner'.reading.position <= Len(facts) /\ view.position <= owner'.reading.position
    BY <1>1, <2>2, <2>3
  <2>6. owners' \in Nat BY <1>1, <1>2 DEF HostTyped
  <2> QED BY <1>2, <2>1, <2>2, <2>3, <2>4, <2>5, <2>6, OwnerGoesShown
<1>4. CASE asked' = [asked EXCEPT ![id] = "refreshed"] /\ owner' = owner
  <2>1. asked' \in [StartIds -> Stages] BY <1>1, <1>4 DEF Stages
  <2>2. HostTyped' BY <1>1, <1>2, <1>4, <2>1 DEF HostTyped
  <2>3. All' = All BY <1>2 DEF All
  <2>4. ShownUpTo(view.covered)' /\ ShownUpTo(owner.since)'
    BY <1>1, <1>2, <1>4 DEF Reached, ShownUpTo, CountOf
  <2>5. Reached' BY <1>1, <1>2, <1>4, <2>4 DEF Reached
  <2>6. RetiredIsObserved' BY <1>1, <1>2, <1>4, <2>3 DEF RetiredIsObserved
  <2>7. Shows(view, listener, All)' BY <1>1, <1>2, <2>3
  <2> QED BY <2>2, <2>5, <2>6, <2>7 DEF Shown
<1> QED BY <1>3, <1>4 DEF RefreshForStart

\* The session accepts a Start, and works.
LEMMA JournalStepsShown ==
  ASSUME Shown, Work \/ \E id \in StartIds : Accept(id)
  PROVE  Shown'
<1>1. /\ facts \in Seq(Kinds) /\ Len(facts) \in Nat /\ asked \in [StartIds -> Stages]
      /\ accepted \in [StartIds -> Nat]
  BY DEF Shown, HostTyped
<1>2. CASE Work
  <2>1. PICK kind \in {"injected", "settled"} : Grow(kind) BY <1>2 DEF Work
  <2>2. kind \in Kinds /\ facts' = Append(facts, kind) BY <2>1 DEF Kinds, Grow
  <2>3. owner.live /\ UNCHANGED <<owner, owners, view, mailbox, asked, accepted, listener>>
    BY <1>2 DEF Work
  <2> QED BY <1>1, <2>2, <2>3, JournalGoesShown
<1>3. ASSUME NEW id \in StartIds, Accept(id) PROVE Shown'
  <2>1. "started" \in Kinds /\ facts' = Append(facts, "started")
    BY <1>3 DEF Kinds, Accept, Grow
  <2>2. /\ owner.live /\ UNCHANGED <<owner, owners, view, mailbox, listener>>
        /\ asked' = [asked EXCEPT ![id] = "accepted"]
        /\ accepted' = [accepted EXCEPT ![id] = Len(facts) + 1]
    BY <1>3 DEF Accept
  <2>3. asked' \in [StartIds -> Stages] /\ accepted' \in [StartIds -> Nat]
    BY <1>1, <2>2 DEF Stages
  <2> QED BY <2>1, <2>2, <2>3, JournalGoesShown
<1> QED BY <1>2, <1>3

\* A step that shows nothing more.
LEMMA SameOwnerShown ==
  ASSUME Shown, UNCHANGED <<facts, owner, owners, accepted>>, mailbox' \in SUBSET StartIds,
         asked' \in [StartIds -> Stages], view' \in Views, view'.history = view.history,
         view'.covered = view.covered, view'.position = view.position, listener' \in Listeners,
         Shows(view', listener', All)
  PROVE  Shown'
<1>1. HostTyped /\ Reached /\ owner \in Owners /\ Len(view.history) \in Nat /\ Len(view'.history) \in Nat
  BY DEF Shown, HostTyped, Views
<1>2. Len(view.history) <= Len(view'.history) BY <1>1
<1>3. owner' = owner
  OBVIOUS
<1>4. /\ owner.at <= Len(view'.history) /\ view'.position <= Len(facts)
      /\ owner.since = 0 => ~owner.streaming /\ (owner.reading # NoSnapshot => owner.reading.reconcile)
      /\ owner.reading.position <= Len(facts)
      /\ owner.reading # NoSnapshot => owner.live /\ view'.position <= owner.reading.position
  BY <1>1 DEF Reached
<1>5. owner'.live \/ owner'.lost \/ Len(All) <= Len(view'.history)
           \/ (~owner.live /\ owner'.lost = owner.lost /\ view'.history = view.history)
  BY <1>3
<1> QED BY <1>1, <1>2, <1>3, <1>4, <1>5, ViewGoesShown

\* What is shown does not depend on positions and receipts.
LEMMA ShowsAlike ==
  ASSUME NEW v, NEW w, NEW l, NEW all, Shows(v, l, all), w.history = v.history,
         w.published = v.published
  PROVE  Shows(w, l, all)
  BY Zenon DEF Shows

\* A Start is submitted and acknowledged.
LEMMA ClientStepsShown ==
  ASSUME Shown, NEW id \in StartIds, Acknowledge(id) \/ SubmitStart(id)
  PROVE  Shown'
<1>1. /\ view \in Views /\ listener \in Listeners /\ Shows(view, listener, All)
      /\ asked \in [StartIds -> Stages] /\ mailbox \in SUBSET StartIds
      /\ accepted \in [StartIds -> Nat]
  BY DEF Shown, HostTyped
<1>2. CASE Acknowledge(id)
  <2> DEFINE start == IF Frees(id, accepted[id]) THEN NoStart ELSE view.startID
             receipts == [view.receipts EXCEPT ![id] = accepted[id]]
  <2>1. /\ UNCHANGED <<facts, owner, owners, asked, accepted, listener>> /\ mailbox' = mailbox \ {id}
        /\ view' = [view EXCEPT !.receipts = receipts, !.startID = start]
    BY <1>2 DEF Acknowledge
  <2>2. start \in StartIds \cup {NoStart} /\ receipts \in [StartIds -> Nat]
    BY <1>1 DEF Views
  <2> HIDE DEF start, receipts
  <2>3. /\ view' \in Views /\ view'.history = view.history /\ view'.published = view.published
        /\ view'.covered = view.covered /\ view'.position = view.position
    BY <1>1, <2>1, <2>2 DEF Views
  <2>4. Shows(view', listener', All) BY <1>1, <2>1, <2>3 DEF Shows
  <2>5. mailbox' \in SUBSET StartIds BY <1>1, <2>1
  <2> QED BY <1>1, <2>1, <2>3, <2>4, <2>5, SameOwnerShown
<1>3. CASE SubmitStart(id)
  <2>1. /\ UNCHANGED <<facts, owner, owners, accepted, listener>>
        /\ asked' = [asked EXCEPT ![id] = "new"] \/ asked' = [asked EXCEPT ![id] = "waiting"]
        /\ mailbox' = mailbox \/ mailbox' = mailbox \cup {id}
        /\ view' = view \/ view' = [view EXCEPT !.startID = id]
    BY <1>3 DEF SubmitStart
  <2>2. asked' \in [StartIds -> Stages] /\ mailbox' \in SUBSET StartIds
    BY <1>1, <2>1 DEF Stages
  <2>3. /\ view' \in Views /\ view'.history = view.history /\ view'.published = view.published
        /\ view'.covered = view.covered /\ view'.position = view.position
    BY <1>1, <2>1 DEF Views
  <2>4. Shows(view', listener, All) /\ listener' = listener
    BY <1>1, <2>1, <2>3, ShowsAlike, Zenon
  <2> QED BY <1>1, <2>1, <2>2, <2>3, <2>4, SameOwnerShown
<1> QED BY <1>2, <1>3

\* What is taken from one part is appended to what was taken.
LEMMA TakeOne ==
  ASSUME NEW taken \in Seq(HostEvents), NEW rest \in Seq(HostEvents), rest # <<>>
  PROVE  /\ Append(taken, Head(rest)) \in Seq(HostEvents) /\ Tail(rest) \in Seq(HostEvents)
         /\ Append(taken, Head(rest)) \o Tail(rest) = taken \o rest
  OBVIOUS

\* A replay that is finished leaves what was taken and what is pending.
LEMMA EmptyMiddle ==
  ASSUME NEW s \in Seq(HostEvents), NEW t \in Seq(HostEvents)
  PROVE  s \o <<>> \o t = s \o t
<1>1. s \o <<>> = s
  OBVIOUS
<1> QED BY <1>1

\* A stream begins with what lies beyond its position and is read in order.
LEMMA ListenerStepsShown ==
  ASSUME Shown, SubscribeListener \/ ListenerNext
  PROVE  Shown'
<1>1. /\ view \in Views /\ listener \in Listeners /\ Shows(view, listener, All) /\ HostTyped
      /\ asked \in [StartIds -> Stages] /\ mailbox \in SUBSET StartIds
  BY DEF Shown, HostTyped
<1>2. UNCHANGED <<facts, owner, owners, view, mailbox, asked, accepted>>
  BY DEF SubscribeListener, ListenerNext
<1>3. SUFFICES listener' \in Listeners /\ Shows(view, listener', All)
  <2>1. /\ asked' \in [StartIds -> Stages] /\ mailbox' \in SUBSET StartIds /\ view' \in Views /\ view' = view
    BY <1>1, <1>2
  <2> QED BY <1>2, <2>1, SameOwnerShown
<1>4. CASE SubscribeListener
  <2>1. PICK after \in 0..view.position :
          listener' = [NoListener EXCEPT !.on = TRUE, !.after = after,
                                         !.replay = Beyond(view.history, after)[Len(view.history)]]
    BY <1>4 DEF SubscribeListener
  <2> DEFINE replay == Beyond(view.history, after)[Len(view.history)]
  <2>2. after \in Nat /\ view.history \in Seq(HostEvents) /\ Len(view.history) \in 0..Len(view.history)
    BY <1>1 DEF Views
  <2>3. replay \in Seq(HostEvents) BY <2>2, BeyondTyped
  <2>4. listener' = [NoListener EXCEPT !.on = TRUE, !.after = after, !.replay = replay]
    BY <2>1
  <2>5. NoListener \in Listeners /\ NoListener.taken = <<>> /\ NoListener.pending = <<>>
    BY <1>1, NothingShown DEF NoListener
  <2> HIDE DEF replay
  <2>6. /\ listener' \in Listeners /\ listener'.after = after /\ listener'.replay = replay
        /\ listener'.taken = <<>> /\ listener'.pending = <<>>
    BY <2>2, <2>3, <2>4, <2>5 DEF Listeners
  <2>7. <<>> \o replay \o <<>> = replay BY <2>3
  <2>8. listener'.taken \o listener'.replay \o listener'.pending = replay BY <2>6, <2>7
  <2> QED BY <1>1, <2>6, <2>8 DEF Shows, replay
<1>5. CASE ListenerNext
  <2>1. /\ listener.on /\ ~listener.ended
        /\ \/ /\ listener.replay # <<>>
              /\ listener' = [listener EXCEPT !.taken = Append(listener.taken, Head(listener.replay)),
                                              !.replay = Tail(listener.replay)]
           \/ /\ listener.replay = <<>> /\ listener.pending # <<>>
              /\ listener' = [listener EXCEPT !.taken = Append(listener.taken, Head(listener.pending)),
                                              !.pending = Tail(listener.pending)]
    BY <1>5 DEF ListenerNext
  <2>2. /\ listener.taken \in Seq(HostEvents) /\ listener.replay \in Seq(HostEvents)
        /\ listener.pending \in Seq(HostEvents)
    BY <1>1 DEF Listeners
  <2>3. CASE listener.replay # <<>>
    <3> DEFINE taken == Append(listener.taken, Head(listener.replay))
               replay == Tail(listener.replay)
    <3>1. taken \in Seq(HostEvents) /\ replay \in Seq(HostEvents) /\ taken \o replay = listener.taken \o listener.replay
      BY <2>2, <2>3, TakeOne
    <3>2. listener' = [listener EXCEPT !.taken = taken, !.replay = replay] BY <2>1, <2>3
    <3> HIDE DEF taken, replay
    <3>3. /\ listener' \in Listeners /\ listener'.taken = taken /\ listener'.replay = replay
          /\ listener'.pending = listener.pending /\ listener'.after = listener.after
          /\ listener'.on = listener.on /\ listener'.ended = listener.ended
      BY <1>1, <3>1, <3>2 DEF Listeners
    <3>4. listener'.taken \o listener'.replay \o listener'.pending
            = listener.taken \o listener.replay \o listener.pending
      BY <3>1, <3>3
    <3> QED BY <1>1, <3>3, <3>4 DEF Shows
  <2>4. CASE listener.replay = <<>>
    <3> DEFINE taken == Append(listener.taken, Head(listener.pending))
               pending == Tail(listener.pending)
    <3>1. taken \in Seq(HostEvents) /\ pending \in Seq(HostEvents) /\ taken \o pending = listener.taken \o listener.pending
      BY <2>1, <2>2, <2>4, TakeOne
    <3>2. listener' = [listener EXCEPT !.taken = taken, !.pending = pending] BY <2>1, <2>4
    <3> HIDE DEF taken, pending
    <3>3. /\ listener' \in Listeners /\ listener'.taken = taken /\ listener'.pending = pending
          /\ listener'.replay = <<>> /\ listener'.after = listener.after
          /\ listener'.on = listener.on /\ listener'.ended = listener.ended
      BY <1>1, <2>4, <3>1, <3>2 DEF Listeners
    <3>4. /\ taken \o <<>> \o pending = taken \o pending
          /\ listener.taken \o <<>> \o listener.pending = listener.taken \o listener.pending
      BY <2>2, <3>1, EmptyMiddle
    <3>5. listener'.taken \o listener'.replay \o listener'.pending
            = listener.taken \o listener.replay \o listener.pending
      BY <2>4, <3>1, <3>3, <3>4
    <3> QED BY <1>1, <3>3, <3>5 DEF Shows
  <2> QED BY <2>3, <2>4
<1> QED BY <1>4, <1>5

\* Nothing is shown at first.
LEMMA HostInitShown ==
  ASSUME HostInit
  PROVE  Shown
<1>1. facts = <<"created">> /\ facts \in Seq(Kinds) /\ Len(facts) = 1 /\ owner = NoOwner /\ owners = 0
  BY DEF HostInit, Kinds
<1>2. /\ view = [position |-> 0, state |-> "idle", ready |-> FALSE, covered |-> 0,
                 published |-> {}, history |-> <<>>, startID |-> NoStart,
                 receipts |-> [id \in StartIds |-> 0]]
      /\ mailbox = {} /\ asked = [id \in StartIds |-> "new"] /\ listener = NoListener
      /\ accepted = [id \in StartIds |-> 0]
  BY DEF HostInit
<1>3. <<>> \in Seq(HostEvents)
  OBVIOUS
<1>4. view \in Views BY <1>2, <1>3 DEF Views, SnapshotStates
<1>5. owner \in Owners /\ listener \in Listeners
  BY <1>1, <1>2, <1>3 DEF NoOwner, NoSnapshot, NoListener, Owners, Snapshots, Listeners, SnapshotStates
<1>6. asked \in [StartIds -> Stages] /\ accepted \in [StartIds -> Nat] BY <1>2 DEF Stages
<1>7. HostTyped BY <1>1, <1>2, <1>4, <1>5, <1>6 DEF HostTyped
<1>8. All \in Seq(HostEvents) /\ Len(All) \in Nat BY <1>7, JournalParts
<1>9. view.history = <<>> /\ Len(view.history) = 0 /\ view.published = {} /\ ~listener.on
  BY <1>2 DEF NoListener
<1>10. Shows(view, listener, All)
  <2>1. SubSeq(All, 1, 0) = <<>> BY <1>8
  <2>2. {view.history[i] : i \in DOMAIN view.history} = {} BY <1>9
  <2>3. Len(view.history) <= Len(All) /\ view.history = SubSeq(All, 1, Len(view.history))
    BY <1>8, <1>9, <2>1
  <2>4. view.published = {view.history[i] : i \in DOMAIN view.history} BY <1>9, <2>2
  <2> QED BY <1>9, <2>3, <2>4, Zenon DEF Shows
<1>11. Reached
  <2>1. ShownUpTo(0) BY <1>7, NothingShown
  <2>2. view.covered = 0 /\ view.position = 0 /\ owner.since = 0 /\ owner.at = 0 /\ ~owner.streaming
        /\ owner.reading = NoSnapshot /\ owner.reading.position = 0
    BY <1>1, <1>2 DEF NoOwner, NoSnapshot
  <2> QED BY <1>1, <1>9, <2>1, <2>2 DEF Reached
<1>12. RetiredIsObserved BY <1>1 DEF RetiredIsObserved
<1> QED BY <1>7, <1>10, <1>11, <1>12 DEF Shown

\* A stutter.
LEMMA StutterShown ==
  ASSUME Shown, UNCHANGED hostVars
  PROVE  Shown'
  BY DEF hostVars, Shown, HostTyped, Shows, Reached, RetiredIsObserved, ShownUpTo, CountOf, All

\* Every step keeps what is shown.
LEMMA HostNextShown ==
  ASSUME Shown, [HostNext]_hostVars
  PROVE  Shown'
<1>1. CASE HostNext
  BY <1>1, OwnerStepsShown, StoreSnapshotShown, OwnerCloseShown, ObserveShown, RefreshForStartShown,
     JournalStepsShown, ClientStepsShown, ListenerStepsShown DEF HostNext
<1>2. CASE UNCHANGED hostVars BY <1>2, StutterShown
<1> QED BY <1>1, <1>2

(***************************************************************************)
(* The steps.  Whose turn it is.                                           *)
(***************************************************************************)
\* A Start that is not submitted moves between stages that claim nothing.
Undecided == {"new", "refreshing", "refreshed"}
StagesKept(before, after) ==
  \A id \in StartIds : after[id] = before[id] \/ (before[id] \in Undecided /\ after[id] \in Undecided)

\* A snapshot of nothing tells nothing.
LEMMA NothingTold ==
  Tells(NoSnapshot)
  BY DEF Tells, NoSnapshot

\* A step that leaves the journal, the mailbox and what the view says of runs.
LEMMA SerialSame ==
  ASSUME HostInv, UNCHANGED <<facts, mailbox, accepted>>, StagesKept(asked, asked'),
         view'.position = view.position, view'.state = view.state, view'.startID = view.startID,
         view'.receipts = view.receipts, Tells(owner'.reading)
  PROVE  Serial'
<1>1. mailbox \in SUBSET StartIds /\ Serial BY DEF HostInv, Shown, HostTyped
<1>2. \A id \in StartIds : asked'[id] = asked[id] \/ (asked[id] \notin {"waiting", "accepted"} /\ asked'[id] \notin {"waiting", "accepted"})
  BY DEF StagesKept, Undecided
<1>3. ASSUME NEW id \in mailbox'
      PROVE  /\ view'.startID = id /\ view'.receipts[id] = 0
             /\ asked'[id] \in {"waiting", "accepted"} /\ (asked'[id] = "waiting" => ~Running)
  BY <1>1, <1>2, <1>3 DEF Serial
<1>4. ASSUME NEW id \in StartIds
      PROVE  /\ asked'[id] = "accepted" /\ view'.startID = id => LastStart(accepted[id])
             /\ view'.receipts[id] > 0 => asked'[id] = "accepted" /\ view'.receipts[id] = accepted[id]
  BY <1>1, <1>2 DEF Serial
<1>5. Running' = Running BY DEF Running, Unsettled
<1>6. \A n : LastStart(n)' = LastStart(n) BY DEF LastStart
<1>7. view'.startID = NoStart => \A n \in DOMAIN facts : Unsettled(n, Len(facts)) => n <= view'.position
  BY <1>1 DEF Serial
<1>8. \A n \in DOMAIN facts : Unsettled(n, Len(facts))' = Unsettled(n, Len(facts))
  BY DEF Unsettled
<1>9. Tells(view)' /\ Tells(owner.reading)'
  <2>1. Tells(view) BY <1>1 DEF Serial
  <2> QED BY <2>1 DEF Tells, Unsettled
<1>10. \A id \in mailbox' : /\ view'.startID = id /\ view'.receipts[id] = 0
                            /\ asked'[id] \in {"waiting", "accepted"}
                            /\ (asked'[id] = "waiting" => ~Running')
  BY <1>3, <1>5
<1>11. \A id \in StartIds :
             /\ asked'[id] = "accepted" /\ view'.startID = id => LastStart(accepted[id])'
             /\ view'.receipts[id] > 0 => asked'[id] = "accepted" /\ view'.receipts[id] = accepted'[id]
  BY <1>4 DEF LastStart
<1>12. view'.startID = NoStart => \A n \in DOMAIN facts' : Unsettled(n, Len(facts))' => n <= view'.position
  BY <1>7, <1>8
<1> QED BY <1>9, <1>10, <1>11, <1>12 DEF Serial

\* A snapshot whose state is not read yet claims nothing,
LEMMA ReadTells ==
  ASSUME Shown, NEW worker \in BOOLEAN, ReadSnapshot(worker)
  PROVE  Tells(owner'.reading)
<1>1. owner'.reading.state = "unread" BY ReadParts
<1> QED BY <1>1 DEF Tells

\* and an idle one that is read then is right about the runs within its position.
LEMMA StateTells ==
  ASSUME Shown, ReadState
  PROVE  Tells(owner'.reading)
<1>1. /\ owner \in Owners /\ facts \in Seq(Kinds) /\ Len(facts) \in Nat
      /\ owner.reading.position \in Nat /\ owner.reading.position <= Len(facts)
  BY DEF Shown, HostTyped, Reached, Owners, Snapshots
<1>2. owner'.reading.position = owner.reading.position /\ owner'.reading.state = State
  BY <1>1, ReadStateParts
<1> SUFFICES ASSUME owner'.reading.state = "idle", NEW n \in 1..owner'.reading.position,
                    Unsettled(n, Len(facts))
             PROVE  FALSE
  BY DEF Tells
<1>3. n \in DOMAIN facts BY <1>1, <1>2
<1>4. ~Running BY <1>2 DEF State
<1> QED BY <1>3, <1>4 DEF Running

\* A Start that is not submitted moves.
LEMMA StagesMove ==
  ASSUME asked \in [StartIds -> Stages], NEW id \in StartIds, NEW stage \in Undecided,
         asked[id] \in Undecided, asked' = [asked EXCEPT ![id] = stage]
  PROVE  StagesKept(asked, asked')
  BY DEF StagesKept

\* No Start moves.
LEMMA StagesRest ==
  ASSUME asked' = asked
  PROVE  StagesKept(asked, asked')
  BY DEF StagesKept

\* An owner that closes, or stores what it read.
LEMMA SerialRefreshed ==
  ASSUME HostInv, NEW snapshot \in Snapshots, Refresh(snapshot), Tells(snapshot),
         snapshot.position <= Len(facts), view.position <= snapshot.position,
         UNCHANGED <<facts, mailbox, accepted>>, StagesKept(asked, asked'), Tells(owner'.reading)
  PROVE  Serial'
<1>1. /\ mailbox \in SUBSET StartIds /\ Serial /\ Shown /\ view \in Views /\ facts \in Seq(Kinds)
      /\ accepted \in [StartIds -> Nat] /\ Len(facts) \in Nat
  BY DEF HostInv, Shown, HostTyped
<1>2. /\ view'.position = snapshot.position /\ view'.state = snapshot.state
      /\ view'.receipts = view.receipts
      /\ view'.startID = IF view.startID # NoStart /\ Covered(view.startID, snapshot.position)
                         THEN NoStart ELSE view.startID
  BY <1>1, RefreshShows
<1>3. \A id \in StartIds : asked'[id] = asked[id] \/ (asked[id] \notin {"waiting", "accepted"} /\ asked'[id] \notin {"waiting", "accepted"})
  BY DEF StagesKept, Undecided
<1>4. \A id \in StartIds : id # NoStart BY HostAssumption
<1>5. Running' = Running BY DEF Running, Unsettled
<1>6. \A id \in mailbox' : /\ view'.startID = id /\ view'.receipts[id] = 0
                           /\ asked'[id] \in {"waiting", "accepted"}
                           /\ (asked'[id] = "waiting" => ~Running')
  <2> SUFFICES ASSUME NEW id \in mailbox
               PROVE  /\ view'.startID = id /\ view'.receipts[id] = 0
                      /\ asked'[id] \in {"waiting", "accepted"}
                      /\ (asked'[id] = "waiting" => ~Running)
    BY <1>5
  <2>1. /\ view.startID = id /\ view.receipts[id] = 0 /\ asked[id] \in {"waiting", "accepted"}
        /\ asked[id] = "waiting" => ~Running
    BY <1>1 DEF Serial
  <2>2. id \in StartIds BY <1>1
  <2>3. ~Covered(id, snapshot.position) BY <2>1 DEF Covered
  <2> QED BY <1>2, <1>3, <2>1, <2>2, <2>3
<1>7. \A id \in StartIds :
             /\ asked'[id] = "accepted" /\ view'.startID = id => LastStart(accepted[id])'
             /\ view'.receipts[id] > 0 => asked'[id] = "accepted" /\ view'.receipts[id] = accepted'[id]
  <2> SUFFICES ASSUME NEW id \in StartIds
               PROVE  /\ asked'[id] = "accepted" /\ view'.startID = id => LastStart(accepted[id])
                      /\ view'.receipts[id] > 0 => asked'[id] = "accepted" /\ view'.receipts[id] = accepted[id]
    BY DEF LastStart
  <2>1. /\ asked[id] = "accepted" /\ view.startID = id => LastStart(accepted[id])
        /\ view.receipts[id] > 0 => asked[id] = "accepted" /\ view.receipts[id] = accepted[id]
    BY <1>1 DEF Serial
  <2>2. view'.startID = id => view.startID = id BY <1>2, <1>4
  <2>3. asked'[id] = "accepted" <=> asked[id] = "accepted" BY <1>3
  <2> QED BY <1>2, <2>1, <2>2, <2>3
<1>8. view'.startID = NoStart => \A n \in DOMAIN facts' : Unsettled(n, Len(facts))' => n <= view'.position
  <2> SUFFICES ASSUME view'.startID = NoStart, NEW n \in DOMAIN facts, Unsettled(n, Len(facts))
               PROVE  n <= snapshot.position
    BY <1>2 DEF Unsettled
  <2>1. n \in Nat /\ view.position \in Nat /\ snapshot.position \in Nat
    BY <1>1 DEF Views, Snapshots
  <2>2. CASE view.startID = NoStart
    <3>1. n <= view.position BY <1>1, <2>2 DEF Serial
    <3> QED BY <2>1, <3>1
  <2>3. CASE view.startID # NoStart
    <3> DEFINE id == view.startID
    <3>1. id \in StartIds /\ Covered(id, snapshot.position) BY <1>1, <1>2, <2>3 DEF Views
    <3>2. view.receipts[id] > 0 /\ snapshot.position >= view.receipts[id]
      BY <3>1 DEF Covered
    <3>3. asked[id] = "accepted" /\ view.receipts[id] = accepted[id]
      BY <1>1, <3>1, <3>2 DEF Serial
    <3>4. LastStart(accepted[id]) BY <1>1, <3>1, <3>3 DEF Serial
    <3>5. accepted[id] \in Nat /\ facts[n] = "started" BY <1>1, <3>1 DEF Unsettled
    <3>6. ~(n > accepted[id]) BY <3>4, <3>5 DEF LastStart
    <3> HIDE DEF id
    <3> QED BY <2>1, <3>2, <3>3, <3>5, <3>6
  <2> QED BY <2>2, <2>3
<1>9. Tells(view)' BY <1>2 DEF Tells, Unsettled
<1>10. Tells(owner.reading)' BY DEF Tells, Unsettled
<1> QED BY <1>6, <1>7, <1>8, <1>9, <1>10 DEF Serial

\* An older snapshot frees startID only when it covers the receipt.
LEMMA StoreSnapshotSerial ==
  ASSUME HostInv, StoreSnapshot
  PROVE  Serial'
<1> DEFINE snapshot == owner.reading
<1>1. /\ Shown /\ Serial /\ owner \in Owners /\ Reached BY DEF HostInv, Shown, HostTyped
<1>2. /\ snapshot # NoSnapshot /\ Refresh(snapshot) /\ UNCHANGED <<facts, mailbox, accepted>>
      /\ owner' = [owner EXCEPT !.reading = NoSnapshot,
                                !.since = IF snapshot.worker /\ owner.since = 0 THEN snapshot.position
                                          ELSE owner.since]
      /\ asked' = [id \in StartIds |-> IF asked[id] = "refreshing" THEN "refreshed" ELSE asked[id]]
  BY DEF StoreSnapshot
<1>3. snapshot \in Snapshots /\ snapshot.position <= Len(facts) /\ view.position <= snapshot.position
  BY <1>1, <1>2 DEF Reached, Owners
<1>4. Tells(snapshot) BY <1>1 DEF Serial
<1>5. StagesKept(asked, asked') BY <1>2 DEF StagesKept, Undecided
<1>6. owner'.reading = NoSnapshot BY <1>1, <1>2 DEF Owners
<1> HIDE DEF snapshot
<1> QED BY <1>2, <1>3, <1>4, <1>5, <1>6, SerialRefreshed, NothingTold

\* Retiring frees it for the whole journal.
LEMMA OwnerCloseSerial ==
  ASSUME HostInv, OwnerClose
  PROVE  Serial'
<1> DEFINE snapshot == [worker |-> TRUE, position |-> Len(facts), state |-> State,
                        reconcile |-> ReplaysToRetire]
<1>1. /\ Len(facts) \in Nat /\ facts \in Seq(Kinds) /\ State \in SnapshotStates /\ Reached
  BY DEF HostInv, Shown, HostTyped, State, SnapshotStates
<1>2. /\ owner' = NoOwner /\ Refresh(snapshot) /\ UNCHANGED <<facts, mailbox, asked, accepted>>
  BY DEF OwnerClose
<1>3. snapshot \in Snapshots /\ snapshot.position = Len(facts) /\ snapshot.state = State
  BY <1>1 DEF Snapshots, ReplaysToRetire
<1> HIDE DEF snapshot
<1>4. Tells(snapshot)
  <2>1. DOMAIN facts = 1..Len(facts) BY <1>1
  <2> QED BY <1>3, <2>1 DEF Tells, State, Running
<1>5. view.position <= Len(facts) BY <1>1 DEF Reached
<1>6. owner'.reading = NoSnapshot BY <1>2 DEF NoOwner
<1>7. snapshot.position <= Len(facts) BY <1>1, <1>3
<1> QED BY <1>2, <1>3, <1>4, <1>5, <1>6, <1>7, StagesRest, SerialRefreshed, NothingTold

\* The steps that decide nothing about Starts.
LEMMA RestingStepsSerial ==
  ASSUME HostInv,
         \/ OpenOwned \/ WorkerSnapshot \/ ReadState \/ OwnerSubscribe \/ Observe \/ LoseLease
         \/ OwnerAbandon \/ SubscribeListener \/ ListenerNext \/ UNCHANGED hostVars
         \/ \E id \in StartIds : RefreshForStart(id)
  PROVE  Serial'
<1>1. /\ Shown /\ Serial /\ owner \in Owners /\ view \in Views /\ asked \in [StartIds -> Stages]
      /\ Tells(owner.reading)
  BY DEF HostInv, Shown, HostTyped, Serial
<1>2. CASE \/ OpenOwned \/ WorkerSnapshot \/ ReadState \/ OwnerSubscribe \/ LoseLease \/ OwnerAbandon
           \/ SubscribeListener \/ ListenerNext \/ UNCHANGED hostVars
  <2>1. UNCHANGED <<facts, view, mailbox, asked, accepted>>
    BY <1>2 DEF OpenOwned, WorkerSnapshot, ReadState, OwnerSubscribe, LoseLease, OwnerAbandon,
                SubscribeListener, ListenerNext, hostVars
  <2>2. Tells(owner'.reading)
    <3>1. CASE WorkerSnapshot BY <1>1, <3>1, ReadTells DEF WorkerSnapshot
    <3>2. CASE OpenOwned \/ OwnerAbandon
      <4>1. owner'.reading = NoSnapshot BY <3>2 DEF OpenOwned, OwnerAbandon, NoOwner
      <4> QED BY <4>1, NothingTold
    <3>3. CASE OwnerSubscribe
      <4>1. owner'.reading = owner.reading BY <1>1, <3>3 DEF OwnerSubscribe, Owners
      <4> QED BY <1>1, <4>1
    <3>4. CASE LoseLease
      <4>1. owner'.reading = owner.reading BY <1>1, <3>4 DEF LoseLease, Owners
      <4> QED BY <1>1, <4>1
    <3>5. CASE SubscribeListener \/ ListenerNext \/ UNCHANGED hostVars
      <4>1. owner' = owner BY <3>5 DEF SubscribeListener, ListenerNext, hostVars
      <4> QED BY <1>1, <4>1
    <3>6. CASE ReadState BY <1>1, <3>6, StateTells
    <3> QED BY <1>2, <3>1, <3>2, <3>3, <3>4, <3>5, <3>6
  <2> QED BY <2>1, <2>2, StagesRest, SerialSame
<1>3. CASE Observe
  <2>1. /\ owner' = [owner EXCEPT !.at = owner.at + 1]
        /\ UNCHANGED <<facts, mailbox, asked, accepted>>
    BY <1>3 DEF Observe
  <2>2. owner'.reading = owner.reading BY <1>1, <2>1 DEF Owners
  <2>3. /\ view'.position = view.position /\ view'.state = view.state
        /\ view'.startID = view.startID /\ view'.receipts = view.receipts
    BY <1>1, <1>3, ObserveKeeps DEF Kept
  <2> QED BY <1>1, <2>1, <2>2, <2>3, StagesRest, SerialSame
<1>4. ASSUME NEW id \in StartIds, RefreshForStart(id) PROVE Serial'
  <2>1. UNCHANGED <<facts, view, mailbox, accepted>> /\ asked[id] = "new"
    BY <1>4 DEF RefreshForStart
  <2>2. asked' = [asked EXCEPT ![id] = "refreshing"] \/ asked' = [asked EXCEPT ![id] = "refreshed"]
    BY <1>4 DEF RefreshForStart
  <2>3. StagesKept(asked, asked') BY <1>1, <2>1, <2>2, StagesMove DEF Undecided
  <2>4. Tells(owner'.reading)
    <3>1. CASE ReadSnapshot(FALSE) BY <1>1, <3>1, ReadTells
    <3>2. CASE owner' = owner BY <1>1, <3>2
    <3> QED BY <1>4, <3>1, <3>2 DEF RefreshForStart
  <2> QED BY <2>1, <2>3, <2>4, SerialSame
<1> QED BY <1>2, <1>3, <1>4

\* One more record leaves what a snapshot tells.
LEMMA TellsStill ==
  ASSUME HostTyped, NEW kind \in Kinds, facts' = Append(facts, kind), NEW snapshot,
         snapshot.position \in Nat, snapshot.position <= Len(facts), Tells(snapshot)
  PROVE  snapshot.state = "idle" => ~\E n \in 1..snapshot.position : Unsettled(n, Len(facts))'
<1>1. /\ \A n \in 1..Len(facts) : facts'[n] = facts[n]
      /\ Len(facts') = Len(facts) + 1
  BY JournalGrows
<1>2. Len(facts) \in Nat BY DEF HostTyped
<1> SUFFICES ASSUME NEW n \in 1..snapshot.position, Unsettled(n, Len(facts))'
             PROVE  snapshot.state # "idle"
  OBVIOUS
<1>3. /\ facts'[n] = "started" /\ \A m \in n..(Len(facts) + 1) : facts'[m] # "settled"
  BY <1>1 DEF Unsettled
<1>4. n \in 1..Len(facts) BY <1>2
<1>5. \A m \in n..Len(facts) : m \in 1..Len(facts) /\ m \in n..(Len(facts) + 1)
  BY <1>2, <1>4
<1>6. facts[n] = "started" /\ \A m \in n..Len(facts) : facts[m] # "settled"
  BY <1>1, <1>3, <1>4, <1>5
<1>7. Unsettled(n, Len(facts)) BY <1>6 DEF Unsettled
<1> QED BY <1>7 DEF Tells

\* Neither the view nor a snapshot read is about the new record.
LEMMA TellsBoth ==
  ASSUME HostInv, NEW kind \in Kinds, facts' = Append(facts, kind), UNCHANGED <<owner, view>>
  PROVE  Tells(view)' /\ Tells(owner.reading)'
<1>1. HostTyped /\ Reached /\ Tells(view) /\ Tells(owner.reading)
  BY DEF HostInv, Shown, Serial
<1>2. /\ view.position \in Nat /\ view.position <= Len(facts)
      /\ owner.reading.position \in Nat /\ owner.reading.position <= Len(facts)
  BY <1>1 DEF HostTyped, Reached, Views, Owners, Snapshots
<1>3. view.state = "idle" => ~\E n \in 1..view.position : Unsettled(n, Len(facts))'
  BY <1>1, <1>2, TellsStill
<1>4. owner.reading.state = "idle" => ~\E n \in 1..owner.reading.position : Unsettled(n, Len(facts))'
  BY <1>1, <1>2, TellsStill
<1> QED BY <1>3, <1>4 DEF Tells, Unsettled

\* While a run works no Start waits.
LEMMA WorkSerial ==
  ASSUME HostInv, Work
  PROVE  Serial'
<1>1. PICK kind \in {"injected", "settled"} : Grow(kind) BY DEF Work
<1>2. /\ kind \in Kinds /\ facts' = Append(facts, kind) /\ kind # "started" /\ Running
      /\ UNCHANGED <<owner, owners, view, mailbox, asked, accepted, listener>>
  BY <1>1 DEF Kinds, Grow, Work
<1>3. /\ HostTyped /\ Serial /\ facts \in Seq(Kinds) /\ Len(facts) \in Nat /\ accepted \in [StartIds -> Nat]
  BY DEF HostInv, Shown, HostTyped
<1>4. /\ facts' \in Seq(Kinds) /\ Len(facts') = Len(facts) + 1
      /\ \A n \in 1..Len(facts) : facts'[n] = facts[n]
      /\ facts'[Len(facts) + 1] = kind
  BY <1>2, <1>3, JournalGrows
<1>5. /\ DOMAIN facts = 1..Len(facts) /\ DOMAIN facts' = 1..(Len(facts) + 1) BY <1>3, <1>4
<1>6. \A n \in DOMAIN facts' : facts'[n] = "started" => n \in DOMAIN facts /\ facts[n] = "started"
  BY <1>2, <1>3, <1>4, <1>5
<1>7. Tells(view)' /\ Tells(owner.reading)' BY <1>2, TellsBoth
<1>8. \A id \in mailbox' : /\ view'.startID = id /\ view'.receipts[id] = 0
                           /\ asked'[id] \in {"waiting", "accepted"}
                           /\ (asked'[id] = "waiting" => ~Running')
  BY <1>2, <1>3 DEF Serial
<1>9. \A n \in Nat : LastStart(n) => LastStart(n)'
  <2> SUFFICES ASSUME NEW n \in Nat, LastStart(n) PROVE LastStart(n)'
    OBVIOUS
  <2>1. /\ n \in DOMAIN facts /\ facts[n] = "started"
        /\ \A m \in DOMAIN facts : m > n => facts[m] # "started"
    BY DEF LastStart
  <2>2. n \in DOMAIN facts' /\ facts'[n] = "started" BY <1>3, <1>4, <1>5, <2>1
  <2>3. \A m \in DOMAIN facts' : m > n => facts'[m] # "started" BY <1>6, <2>1
  <2> QED BY <2>2, <2>3 DEF LastStart
<1>10. \A id \in StartIds :
             /\ asked'[id] = "accepted" /\ view'.startID = id => LastStart(accepted[id])'
             /\ view'.receipts[id] > 0 => asked'[id] = "accepted" /\ view'.receipts[id] = accepted'[id]
  <2> SUFFICES ASSUME NEW id \in StartIds
               PROVE  /\ asked'[id] = "accepted" /\ view'.startID = id => LastStart(accepted[id])'
                      /\ view'.receipts[id] > 0 => asked'[id] = "accepted" /\ view'.receipts[id] = accepted'[id]
    OBVIOUS
  <2>1. /\ asked[id] = "accepted" /\ view.startID = id => LastStart(accepted[id])
        /\ view.receipts[id] > 0 => asked[id] = "accepted" /\ view.receipts[id] = accepted[id]
    BY <1>3 DEF Serial
  <2>2. accepted[id] \in Nat /\ (LastStart(accepted[id]) => (LastStart(accepted[id]))')
    <3>1. accepted[id] \in Nat BY <1>3
    <3>2. accepted' = accepted BY <1>2
    <3>3. \A n \in Nat : LastStart(n) => LastStart(n)' BY <1>9
    <3> QED BY <3>1, <3>2, <3>3 DEF LastStart
  <2> QED BY <1>2, <2>1, <2>2
<1>11. view'.startID = NoStart => \A n \in DOMAIN facts' : Unsettled(n, Len(facts))' => n <= view'.position
  <2> SUFFICES ASSUME view.startID = NoStart, NEW n \in DOMAIN facts', Unsettled(n, Len(facts))'
               PROVE  n <= view.position
    BY <1>2
  <2>1. facts'[n] = "started" /\ \A m \in n..(Len(facts) + 1) : facts'[m] # "settled"
    BY <1>4 DEF Unsettled
  <2>2. n \in DOMAIN facts /\ facts[n] = "started" BY <1>6, <2>1
  <2>3. \A m \in n..Len(facts) : facts[m] # "settled"
    <3> SUFFICES ASSUME NEW m \in n..Len(facts) PROVE facts[m] # "settled"
      OBVIOUS
    <3>1. m \in 1..Len(facts) /\ m \in n..(Len(facts) + 1) BY <1>3, <1>5, <2>2
    <3> QED BY <1>4, <2>1, <3>1
  <2>4. Unsettled(n, Len(facts)) BY <2>2, <2>3 DEF Unsettled
  <2> QED BY <1>3, <2>2, <2>4 DEF Serial
<1> QED BY <1>7, <1>8, <1>10, <1>11 DEF Serial

\* The Start that is accepted is the one that startID names.
LEMMA AcceptSerial ==
  ASSUME HostInv, NEW id \in StartIds, Accept(id)
  PROVE  Serial'
<1>1. /\ id \in mailbox /\ facts' = Append(facts, "started") /\ asked[id] = "waiting"
      /\ asked' = [asked EXCEPT ![id] = "accepted"]
      /\ accepted' = [accepted EXCEPT ![id] = Len(facts) + 1]
      /\ UNCHANGED <<owner, owners, view, mailbox, listener>>
  BY DEF Accept, Grow
<1>2. /\ HostTyped /\ Serial /\ facts \in Seq(Kinds) /\ Len(facts) \in Nat /\ accepted \in [StartIds -> Nat]
      /\ asked \in [StartIds -> Stages] /\ mailbox \in SUBSET StartIds /\ "started" \in Kinds
      /\ view.receipts \in [StartIds -> Nat]
  BY DEF HostInv, Shown, HostTyped, Kinds, Views
<1>3. /\ facts' \in Seq(Kinds) /\ Len(facts') = Len(facts) + 1
      /\ facts'[Len(facts) + 1] = "started"
  BY <1>1, <1>2, JournalGrows
<1>4. Tells(view)' /\ Tells(owner.reading)' BY <1>1, <1>2, TellsBoth
<1>5. view.startID = id /\ view.receipts[id] = 0 /\ id # NoStart
  BY <1>1, <1>2, HostAssumption DEF Serial
<1>6. asked'[id] = "accepted" /\ \A x \in StartIds : x # id => asked'[x] = asked[x] /\ accepted'[x] = accepted[x]
  BY <1>1, <1>2
<1>7. \A x \in mailbox' : /\ view'.startID = x /\ view'.receipts[x] = 0
                          /\ asked'[x] \in {"waiting", "accepted"}
                          /\ (asked'[x] = "waiting" => ~Running')
  <2> SUFFICES ASSUME NEW x \in mailbox
               PROVE  /\ view.startID = x /\ view.receipts[x] = 0
                      /\ asked'[x] = "accepted"
    BY <1>1
  <2>1. view.startID = x BY <1>2 DEF Serial
  <2> QED BY <1>5, <1>6, <2>1
<1>8. LastStart(accepted[id])'
  <2>1. DOMAIN facts' = 1..(Len(facts) + 1) BY <1>2, <1>3
  <2>2. Len(facts) + 1 \in DOMAIN facts' /\ \A m \in DOMAIN facts' : ~(m > Len(facts) + 1)
    BY <1>2, <2>1
  <2> DEFINE n == Len(facts) + 1
  <2>3. n \in DOMAIN facts' /\ facts'[n] = "started" /\ \A m \in DOMAIN facts' : ~(m > n)
    BY <1>3, <2>2
  <2>4. accepted'[id] = n BY <1>1, <1>2
  <2> HIDE DEF n
  <2> QED BY <2>3, <2>4 DEF LastStart
<1>9. \A x \in StartIds :
             /\ asked'[x] = "accepted" /\ view'.startID = x => LastStart(accepted[x])'
             /\ view'.receipts[x] > 0 => asked'[x] = "accepted" /\ view'.receipts[x] = accepted'[x]
  <2> SUFFICES ASSUME NEW x \in StartIds
               PROVE  /\ asked'[x] = "accepted" /\ view'.startID = x => LastStart(accepted[x])'
                      /\ view'.receipts[x] > 0 => asked'[x] = "accepted" /\ view'.receipts[x] = accepted'[x]
    OBVIOUS
  <2>1. CASE x = id BY <1>1, <1>5, <1>8, <2>1
  <2>2. CASE x # id
    <3>1. view.receipts[x] > 0 => asked[x] = "accepted" /\ view.receipts[x] = accepted[x]
      BY <1>2 DEF Serial
    <3> QED BY <1>1, <1>5, <1>6, <2>2, <3>1
  <2> QED BY <2>1, <2>2
<1>10. view'.startID # NoStart BY <1>1, <1>5
<1> QED BY <1>4, <1>7, <1>9, <1>10 DEF Serial

\* A receipt frees startID only when the view has seen its position.
LEMMA AcknowledgeSerial ==
  ASSUME HostInv, NEW id \in StartIds, Acknowledge(id)
  PROVE  Serial'
<1>1. /\ asked[id] = "accepted" /\ id \in mailbox /\ mailbox' = mailbox \ {id}
      /\ UNCHANGED <<facts, owner, owners, asked, accepted, listener>>
  BY DEF Acknowledge
<1>2. /\ HostTyped /\ Serial /\ facts \in Seq(Kinds) /\ Len(facts) \in Nat /\ accepted \in [StartIds -> Nat]
      /\ asked \in [StartIds -> Stages] /\ mailbox \in SUBSET StartIds /\ view \in Views
  BY DEF HostInv, Shown, HostTyped
<1> DEFINE start == IF Frees(id, accepted[id]) THEN NoStart ELSE view.startID
           receipts == [view.receipts EXCEPT ![id] = accepted[id]]
<1>3. view' = [view EXCEPT !.receipts = receipts, !.startID = start] BY DEF Acknowledge
<1>4. receipts[id] = accepted[id] /\ \A x \in StartIds : x # id => receipts[x] = view.receipts[x]
  BY <1>2 DEF Views
<1>5. view.startID = id /\ id # NoStart BY <1>1, <1>2, HostAssumption DEF Serial
<1>6. start = NoStart => view.position >= accepted[id] BY <1>5 DEF Frees
<1>7. start = NoStart \/ start = id BY <1>5
<1> HIDE DEF start, receipts
<1>8. view'.position = view.position /\ view'.state = view.state /\ view'.startID = start /\ view'.receipts = receipts
  BY <1>2, <1>3 DEF Views
<1>9. mailbox' = {}
  <2>1. \A x \in mailbox : x = id BY <1>2, <1>5 DEF Serial
  <2> QED BY <1>1, <2>1
<1>10. \A x \in StartIds :
             /\ asked'[x] = "accepted" /\ view'.startID = x => LastStart(accepted[x])'
             /\ view'.receipts[x] > 0 => asked'[x] = "accepted" /\ view'.receipts[x] = accepted'[x]
  <2> SUFFICES ASSUME NEW x \in StartIds
               PROVE  /\ asked[x] = "accepted" /\ start = x => LastStart(accepted[x])
                      /\ receipts[x] > 0 => asked[x] = "accepted" /\ receipts[x] = accepted[x]
    BY <1>1, <1>8 DEF LastStart
  <2>1. x # NoStart BY HostAssumption
  <2>2. /\ asked[x] = "accepted" /\ view.startID = x => LastStart(accepted[x])
        /\ view.receipts[x] > 0 => asked[x] = "accepted" /\ view.receipts[x] = accepted[x]
    BY <1>2 DEF Serial
  <2> QED BY <1>1, <1>4, <1>5, <1>7, <2>1, <2>2
<1>11. view'.startID = NoStart => \A n \in DOMAIN facts' : Unsettled(n, Len(facts))' => n <= view'.position
  <2> SUFFICES ASSUME start = NoStart, NEW n \in DOMAIN facts, Unsettled(n, Len(facts))
               PROVE  n <= view.position
    BY <1>1, <1>8 DEF Unsettled
  <2>1. LastStart(accepted[id]) BY <1>1, <1>2, <1>5 DEF Serial
  <2>2. n \in Nat /\ accepted[id] \in Nat /\ view.position \in Nat /\ facts[n] = "started"
    BY <1>2 DEF Views, Unsettled
  <2>3. ~(n > accepted[id]) BY <2>1, <2>2 DEF LastStart
  <2> QED BY <1>6, <2>2, <2>3
<1>12. Tells(view)' /\ Tells(owner.reading)'
  <2>1. Tells(view) /\ Tells(owner.reading) BY <1>2 DEF Serial
  <2> QED BY <1>1, <1>8, <2>1 DEF Tells, Unsettled
<1> QED BY <1>9, <1>10, <1>11, <1>12 DEF Serial

\* A client submits where no Start is under way and the view's idle state is true
\* of the journal.
LEMMA SubmitStartSerial ==
  ASSUME HostInv, NEW id \in StartIds, SubmitStart(id)
  PROVE  Serial'
<1>1. /\ asked[id] = "refreshed" /\ UNCHANGED <<facts, owner, owners, accepted, listener>>
  BY DEF SubmitStart
<1>2. /\ HostTyped /\ Serial /\ facts \in Seq(Kinds) /\ Len(facts) \in Nat /\ accepted \in [StartIds -> Nat]
      /\ asked \in [StartIds -> Stages] /\ mailbox \in SUBSET StartIds /\ view \in Views /\ Reached
      /\ Tells(view) /\ Tells(owner.reading)
  BY DEF HostInv, Shown, HostTyped, Serial
<1>3. CASE Busy
  <2>1. asked' = [asked EXCEPT ![id] = "new"] /\ UNCHANGED <<mailbox, view>>
    BY <1>3 DEF SubmitStart
  <2>2. StagesKept(asked, asked') BY <1>1, <1>2, <2>1, StagesMove DEF Undecided
  <2> QED BY <1>1, <1>2, <2>1, <2>2, SerialSame
<1>4. CASE ~Busy
  <2>1. /\ asked' = [asked EXCEPT ![id] = "waiting"] /\ mailbox' = mailbox \cup {id}
        /\ view' = [view EXCEPT !.startID = id] /\ view.startID = NoStart /\ view.state = "idle"
    BY <1>4 DEF SubmitStart, Busy
  <2>2. id # NoStart /\ \A x \in StartIds : x # NoStart BY HostAssumption
  <2>3. mailbox' = {id}
    <3>1. \A x \in mailbox : FALSE BY <1>2, <2>1, <2>2 DEF Serial
    <3> QED BY <2>1, <3>1
  <2>4. /\ view'.position = view.position /\ view'.state = view.state /\ view'.startID = id
        /\ view'.receipts = view.receipts
    BY <1>2, <2>1 DEF Views
  <2>5. asked'[id] = "waiting" /\ \A x \in StartIds : x # id => asked'[x] = asked[x]
    BY <1>2, <2>1
  <2>6. view.receipts[id] = 0
    <3>1. view.receipts[id] \in Nat BY <1>2 DEF Views
    <3>2. ~(view.receipts[id] > 0) BY <1>1, <1>2 DEF Serial
    <3> QED BY <3>1, <3>2
  <2>7. ~Running
    <3> SUFFICES ASSUME NEW n \in DOMAIN facts, Unsettled(n, Len(facts)) PROVE FALSE
      BY DEF Running
    <3>1. n <= view.position BY <1>2, <2>1 DEF Serial
    <3>2. view.position \in Nat /\ view.position <= Len(facts) /\ n \in 1..view.position
      BY <1>2, <3>1 DEF Views, Reached
    <3> QED BY <1>2, <2>1, <3>2 DEF Tells
  <2>8. ~Running' BY <1>1, <2>7 DEF Running, Unsettled
  <2>9. \A x \in mailbox' : /\ view'.startID = x /\ view'.receipts[x] = 0
                            /\ asked'[x] \in {"waiting", "accepted"}
                            /\ (asked'[x] = "waiting" => ~Running')
    BY <2>3, <2>4, <2>5, <2>6, <2>8
  <2>10. \A x \in StartIds :
             /\ asked'[x] = "accepted" /\ view'.startID = x => LastStart(accepted[x])'
             /\ view'.receipts[x] > 0 => asked'[x] = "accepted" /\ view'.receipts[x] = accepted'[x]
    <3> SUFFICES ASSUME NEW x \in StartIds
                 PROVE  /\ asked'[x] = "accepted" => x # id
                        /\ view.receipts[x] > 0 => asked'[x] = "accepted" /\ view.receipts[x] = accepted[x]
      BY <1>1, <2>4
    <3>1. view.receipts[x] > 0 => asked[x] = "accepted" /\ view.receipts[x] = accepted[x]
      BY <1>2 DEF Serial
    <3> QED BY <2>5, <2>6, <3>1
  <2>11. Tells(view)' /\ Tells(owner.reading)' BY <1>1, <1>2, <2>4 DEF Tells, Unsettled
  <2>12. view'.startID # NoStart BY <2>2, <2>4
  <2> QED BY <2>9, <2>10, <2>11, <2>12 DEF Serial
<1> QED BY <1>3, <1>4

\* The invariant holds at first,
LEMMA HostInitInv ==
  ASSUME HostInit
  PROVE  HostInv
<1>1. Shown BY HostInitShown
<1>2. /\ facts = <<"created">> /\ owner = NoOwner
      /\ view = [position |-> 0, state |-> "idle", ready |-> FALSE, covered |-> 0,
                 published |-> {}, history |-> <<>>, startID |-> NoStart,
                 receipts |-> [id \in StartIds |-> 0]]
      /\ mailbox = {} /\ asked = [id \in StartIds |-> "new"]
  BY DEF HostInit
<1>3. Tells(view) /\ Tells(owner.reading)
  <2>1. owner.reading = NoSnapshot BY <1>2 DEF NoOwner
  <2>2. view.position = 0 BY <1>2
  <2> QED BY <2>1, <2>2, NothingTold DEF Tells
<1>4. \A n \in DOMAIN facts : ~Unsettled(n, Len(facts)) BY <1>2 DEF Unsettled
<1>5. \A id \in StartIds : asked[id] = "new" /\ view.receipts[id] = 0 BY <1>2
<1> QED BY <1>1, <1>2, <1>3, <1>4, <1>5 DEF HostInv, Serial

\* every step keeps it,
LEMMA HostNextInv ==
  ASSUME HostInv, [HostNext]_hostVars
  PROVE  HostInv'
<1>1. Shown' BY HostNextShown DEF HostInv
<1>2. Serial'
  BY RestingStepsSerial, StoreSnapshotSerial, OwnerCloseSerial, WorkSerial, AcceptSerial,
     AcknowledgeSerial, SubmitStartSerial DEF HostNext
<1> QED BY <1>1, <1>2 DEF HostInv

\* and it gives what is promised.
LEMMA HostInvKeepsFaith ==
  ASSUME HostInv
  PROVE  HostIsFaithful
<1>1. Shown /\ Serial /\ mailbox \in SUBSET StartIds BY DEF HostInv, Shown, HostTyped
<1>2. ProjectionFollowsJournal /\ RetiredIsObserved
  BY <1>1 DEF Shown, Shows, ProjectionFollowsJournal
<1>3. Cardinality(mailbox) <= 1
  <2>1. mailbox = {} \/ mailbox = {view.startID} BY <1>1 DEF Serial
  <2>2. Cardinality({}) = 0 /\ Cardinality({view.startID}) = 1 BY FS_EmptySet, FS_Singleton
  <2> QED BY <2>1, <2>2
<1>4. StartsAreSerialised BY <1>1, <1>3 DEF Serial, StartsAreSerialised
<1> QED BY <1>2, <1>4 DEF HostIsFaithful

\* Across owners that stream, reconcile, are lost and retire, snapshots read
\* before and stored after, and clients that dispatch on one that is older than
\* the journal: a projection follows the journal, a retired owner leaves none of
\* it unobserved, and Starts do not overlap (state.publish, refresh, dispatchStart).
THEOREM HostKeepsFaith == HostSpec => []HostIsFaithful
<1>1. HostInit => HostInv BY HostInitInv
<1>2. HostInv /\ [HostNext]_hostVars => HostInv' BY HostNextInv
<1>3. HostInv => HostIsFaithful BY HostInvKeepsFaith
<1> QED BY <1>1, <1>2, <1>3, PTL DEF HostSpec

-----------------------------------------------------------------------------
(***************************************************************************)
(* The projection.  A stream is compared with the fold of the records      *)
(* before its position, and what it showed with what the records show by   *)
(* the run each was written for.  Attributed says that the fold of what    *)
(* lies before a record knows that run, Follows what holds of a stream.    *)
(***************************************************************************)
RecordKinds ==
  {"history", "opened", "prompt", "accepted", "drained", "injected", "assistant", "child", "silent",
   "suspended", "resolution", "closed", "resume"}
Records == [kind : RecordKinds, run : Nat, queues : Seq(Nat)]
Folds ==
  [run : Nat, pending : Seq(Nat), known : SUBSET Nat, last : Nat, ordinal : Nat, dropped : Nat]
Items == [n : Nat, dropped : Nat]
EventKinds ==
  {"entry", "unknown", "queue", "started", "closed", "suspended", "resolution", "child", "preview"}
LoopEvents ==
  [at : Nat, part : Nat, kind : EventKinds, run : Nat, dropped : Nat, ordinal : Nat]
Streams == [open : BOOLEAN, after : Nat, read : Nat, fold : Folds, seen : Seq(LoopEvents)]
Marks == Nat \X EventKinds \X Nat
Mark(event) == <<event.at, event.kind, event.run>>

-----------------------------------------------------------------------------
(***************************************************************************)
(* Recursive functions.                                                    *)
(***************************************************************************)
\* A set that holds 0, and each number up to n with the one before it.
LEMMA Climb ==
  ASSUME NEW n \in Nat, NEW S, 0 \in S, \A k \in 1..n : k - 1 \in S => k \in S
  PROVE  \A k \in 0..n : k \in S
<1> DEFINE Bad == {k \in Nat : k <= n /\ k \notin S}
<1>1. SUFFICES ASSUME Bad # {} PROVE FALSE
  OBVIOUS
<1>2. PICK k \in Bad : \A i \in Bad : k <= i
  <2>1. Bad \in SUBSET Nat
    OBVIOUS
  <2> HIDE DEF Bad
  <2> QED BY <1>1, <2>1, Least
<1>3. k # 0 BY <1>2
<1>4. k \in 1..n /\ k - 1 \in Nat /\ k - 1 <= n /\ ~(k <= k - 1) BY <1>2, <1>3
<1>5. k - 1 \in S BY <1>2, <1>4
<1> QED BY <1>2, <1>4, <1>5

\* A function that is defined from the value before exists.
Steps(f, n, base, step) ==
  \A k \in 0..n : f[k] = IF k = 0 THEN base ELSE step[<<k, f[k - 1]>>]

LEMMA Recursion ==
  ASSUME NEW n \in Nat, NEW D, NEW base \in D, NEW step \in [(1..n) \X D -> D]
  PROVE  \E f \in [0..n -> D] : Steps(f, n, base, step)
<1> DEFINE Has(m) == \E f \in [0..m -> D] : Steps(f, m, base, step)
           S == {m \in 0..n : Has(m)}
<1>1. 0 \in S
  <2> DEFINE f == [k \in 0..0 |-> base]
  <2>1. f \in [0..0 -> D] /\ \A k \in 0..0 : k = 0 /\ f[k] = base
    OBVIOUS
  <2> HIDE DEF f
  <2>2. Has(0) BY <2>1 DEF Steps
  <2> QED BY <2>2
<1>2. ASSUME NEW m \in 1..n, m - 1 \in S
      PROVE  m \in S
  <2>1. m \in Nat /\ m # 0 /\ m - 1 \in Nat /\ m \in 0..n /\ Has(m - 1) BY <1>2
  <2>3. PICK g \in [0..(m - 1) -> D] : Steps(g, m - 1, base, step) BY <2>1
  <2>4. g[m - 1] \in D /\ step[<<m, g[m - 1]>>] \in D
    <3>1. m - 1 \in 0..(m - 1) BY <2>1
    <3> QED BY <2>3, <3>1
  <2> DEFINE f == [k \in 0..m |-> IF k = m THEN step[<<m, g[m - 1]>>] ELSE g[k]]
  <2>5. \A k \in 0..(m - 1) : k \in 0..m /\ k # m BY <2>1
  <2>6. f \in [0..m -> D]
    <3>1. \A k \in 0..m : k = m \/ k \in 0..(m - 1) BY <2>1
    <3> QED BY <2>3, <2>4, <3>1
  <2>7. f[m] = step[<<m, g[m - 1]>>] /\ \A k \in 0..(m - 1) : f[k] = g[k]
    <3>1. m \in 0..m BY <2>1
    <3> QED BY <2>5, <3>1
  <2> HIDE DEF f
  <2>8. ASSUME NEW k \in 0..m
        PROVE  f[k] = IF k = 0 THEN base ELSE step[<<k, f[k - 1]>>]
    <3>1. CASE k = m
      <4>1. m - 1 \in 0..(m - 1) BY <2>1
      <4> QED BY <2>1, <2>7, <3>1, <4>1
    <3>2. CASE k # m
      <4>1. k \in 0..(m - 1) /\ (k # 0 => k - 1 \in 0..(m - 1)) BY <2>1, <3>2
      <4> QED BY <2>3, <2>7, <4>1 DEF Steps
    <3> QED BY <3>1, <3>2
  <2>9. Has(m) BY <2>6, <2>8 DEF Steps
  <2> QED BY <2>1, <2>9
<1>3. n \in S
  <2> HIDE DEF S
  <2> QED BY <1>1, <1>2, Climb
<1> QED BY <1>3

IsSumOf(f, s) == f = [n \in 0..Len(s) |-> IF n = 0 THEN 0 ELSE f[n - 1] + s[n]]

\* A sum, number by number.
LEMMA SumOfSteps ==
  ASSUME NEW s \in Seq(Nat)
  PROVE  /\ SumOf(s)[0] = 0
         /\ \A n \in 1..Len(s) : SumOf(s)[n] = SumOf(s)[n - 1] + s[n]
         /\ \A n \in 0..Len(s) : SumOf(s)[n] \in Nat
<1>1. Len(s) \in Nat /\ \A n \in 1..Len(s) : s[n] \in Nat /\ n \in 0..Len(s) /\ n # 0 /\ n - 1 \in 0..Len(s)
  OBVIOUS
<1> DEFINE step == [p \in (1..Len(s)) \X Nat |-> p[2] + s[p[1]]]
<1>2. step \in [(1..Len(s)) \X Nat -> Nat] BY <1>1
<1>3. \A n \in 1..Len(s), x \in Nat : step[<<n, x>>] = x + s[n]
  OBVIOUS
<1> HIDE DEF step
<1>4. PICK f \in [0..Len(s) -> Nat] : Steps(f, Len(s), 0, step) BY <1>1, <1>2, Recursion
<1>5. ASSUME NEW k \in 0..Len(s)
      PROVE  f[k] = IF k = 0 THEN 0 ELSE f[k - 1] + s[k]
  <2>1. k # 0 => k \in 1..Len(s) /\ k - 1 \in 0..Len(s) BY <1>1
  <2> QED BY <1>3, <1>4, <2>1 DEF Steps
<1>6. IsSumOf(f, s) BY <1>4, <1>5 DEF IsSumOf
<1>7. IsSumOf(SumOf(s), s)
  <2>1. SumOf(s) = CHOOSE g : IsSumOf(g, s) BY DEF SumOf, IsSumOf
  <2> QED BY <1>6, <2>1
<1>8. ASSUME NEW k \in 0..Len(s)
      PROVE  SumOf(s)[k] = IF k = 0 THEN 0 ELSE SumOf(s)[k - 1] + s[k]
  BY <1>7 DEF IsSumOf
<1>9. \A n \in 0..Len(s) : SumOf(s)[n] \in Nat
  <2> DEFINE S == {k \in 0..Len(s) : SumOf(s)[k] \in Nat}
  <2>1. 0 \in S BY <1>1, <1>8
  <2>2. ASSUME NEW k \in 1..Len(s), k - 1 \in S PROVE k \in S
    <3>1. SumOf(s)[k] = SumOf(s)[k - 1] + s[k] BY <1>1, <1>8
    <3> QED BY <1>1, <2>2, <3>1
  <2>3. \A k \in 0..Len(s) : k \in S
    <3> HIDE DEF S
    <3> QED BY <1>1, <2>1, <2>2, Climb
  <2> QED BY <2>3
<1> QED BY <1>1, <1>8, <1>9

\* The sum of two sequences one after the other.
LEMMA SumOfBoth ==
  ASSUME NEW s \in Seq(Nat), NEW t \in Seq(Nat)
  PROVE  SumOf(s \o t)[Len(s \o t)] = SumOf(s)[Len(s)] + SumOf(t)[Len(t)]
<1> DEFINE st == s \o t
<1>1. /\ Len(s) \in Nat /\ Len(t) \in Nat /\ st \in Seq(Nat) /\ Len(st) = Len(s) + Len(t)
      /\ \A n \in 1..Len(s) : st[n] = s[n]
      /\ \A n \in 1..Len(t) : st[Len(s) + n] = t[n] /\ t[n] \in Nat
  OBVIOUS
<1> HIDE DEF st
<1>2. SumOf(st)[Len(s)] = SumOf(s)[Len(s)]
  <2> DEFINE S == {k \in 0..Len(s) : SumOf(st)[k] = SumOf(s)[k]}
  <2>1. 0 \in S BY <1>1, SumOfSteps
  <2>2. ASSUME NEW k \in 1..Len(s), k - 1 \in S PROVE k \in S
    <3>1. k \in 0..Len(s) /\ k \in 1..Len(st) BY <1>1
    <3> QED BY <1>1, <2>2, <3>1, SumOfSteps
  <2>3. Len(s) \in S
    <3>1. Len(s) \in 0..Len(s) BY <1>1
    <3> HIDE DEF S
    <3> QED BY <1>1, <2>1, <2>2, <3>1, Climb
  <2> QED BY <2>3
<1>3. SumOf(st)[Len(s) + Len(t)] = SumOf(s)[Len(s)] + SumOf(t)[Len(t)]
  <2> DEFINE S == {k \in 0..Len(t) : SumOf(st)[Len(s) + k] = SumOf(s)[Len(s)] + SumOf(t)[k]}
  <2>0. Len(s) \in 0..Len(s) /\ SumOf(s)[Len(s)] \in Nat /\ Len(t) \in 0..Len(t)
    BY <1>1, SumOfSteps
  <2>1. 0 \in S
    <3>1. SumOf(t)[0] = 0 BY SumOfSteps
    <3>2. Len(s) + 0 = Len(s) /\ SumOf(s)[Len(s)] + 0 = SumOf(s)[Len(s)] /\ 0 \in 0..Len(t)
      BY <1>1, <2>0
    <3> QED BY <1>2, <3>1, <3>2
  <2>2. ASSUME NEW k \in 1..Len(t), k - 1 \in S PROVE k \in S
    <3>1. /\ k \in 0..Len(t) /\ k - 1 \in 0..Len(t) /\ Len(s) + k \in 1..Len(st)
          /\ (Len(s) + k) - 1 = Len(s) + (k - 1)
      BY <1>1
    <3>2. SumOf(st)[Len(s) + (k - 1)] = SumOf(s)[Len(s)] + SumOf(t)[k - 1] BY <2>2
    <3>3. SumOf(st)[Len(s) + k] = SumOf(st)[(Len(s) + k) - 1] + st[Len(s) + k]
      BY <1>1, <3>1, SumOfSteps
    <3>4. SumOf(t)[k] = SumOf(t)[k - 1] + t[k] /\ SumOf(t)[k - 1] \in Nat
      BY <3>1, SumOfSteps
    <3>5. st[Len(s) + k] = t[k] /\ t[k] \in Nat BY <1>1
    <3>6. SumOf(st)[Len(s) + k] = SumOf(s)[Len(s)] + SumOf(t)[k]
      BY <2>0, <3>1, <3>2, <3>3, <3>4, <3>5
    <3> QED BY <3>1, <3>6
  <2>3. Len(t) \in S
    <3> HIDE DEF S
    <3> QED BY <1>1, <2>0, <2>1, <2>2, Climb
  <2> QED BY <2>3
<1> QED BY <1>1, <1>3 DEF st

\* A sum of which only the first number counts.
LEMMA SumOfFirst ==
  ASSUME NEW s \in Seq(Nat), \A n \in 2..Len(s) : s[n] = 0
  PROVE  SumOf(s)[Len(s)] = IF s = <<>> THEN 0 ELSE s[1]
<1>0. Len(s) \in Nat /\ (s # <<>> => Len(s) >= 1 /\ s[1] \in Nat) /\ (s = <<>> => Len(s) = 0)
  OBVIOUS
<1>1. CASE s = <<>> BY <1>0, <1>1, SumOfSteps
<1>2. CASE s # <<>>
  <2> DEFINE S == {k \in 0..Len(s) : k # 0 => SumOf(s)[k] = s[1]}
  <2>1. 0 \in S BY <1>0
  <2>2. ASSUME NEW k \in 1..Len(s), k - 1 \in S PROVE k \in S
    <3>1. SumOf(s)[k] = SumOf(s)[k - 1] + s[k] /\ SumOf(s)[0] = 0 /\ k \in 0..Len(s)
      BY <1>0, SumOfSteps
    <3>2. CASE k = 1
      <4>1. SumOf(s)[k] = 0 + s[1] BY <3>1, <3>2
      <4> QED BY <1>0, <1>2, <3>1, <4>1
    <3>3. CASE k # 1
      <4>1. k \in 2..Len(s) /\ k - 1 # 0 BY <1>0, <3>3
      <4>2. SumOf(s)[k - 1] = s[1] /\ s[k] = 0 BY <2>2, <4>1
      <4> QED BY <1>0, <1>2, <3>1, <4>2
    <3> QED BY <3>2, <3>3
  <2>3. Len(s) \in S
    <3>1. Len(s) \in 0..Len(s) BY <1>0
    <3> HIDE DEF S
    <3> QED BY <1>0, <2>1, <2>2, <3>1, Climb
  <2> QED BY <1>0, <1>2, <2>3
<1> QED BY <1>1, <1>2

IsSortedUpTo(f, positions, last) ==
  f = [n \in 0..last |->
         IF n = 0 THEN <<>> ELSE IF n \in positions THEN Append(f[n - 1], n) ELSE f[n - 1]]
SortedUpTo(positions, last) == CHOOSE f : IsSortedUpTo(f, positions, last)

LEMMA SortedUpToSteps ==
  ASSUME NEW positions, NEW last \in Nat
  PROVE  /\ SortedUpTo(positions, last)[0] = <<>>
         /\ \A n \in 1..last : SortedUpTo(positions, last)[n] =
              IF n \in positions THEN Append(SortedUpTo(positions, last)[n - 1], n)
              ELSE SortedUpTo(positions, last)[n - 1]
<1> DEFINE D == Seq(Nat)
           step == [p \in (1..last) \X D |-> IF p[1] \in positions THEN Append(p[2], p[1]) ELSE p[2]]
<1>1. \A n \in 1..last : n \in Nat /\ n \in 0..last /\ n # 0 /\ n - 1 \in 0..last
  OBVIOUS
<1>2. step \in [(1..last) \X D -> D] /\ <<>> \in D BY <1>1
<1>3. \A n \in 1..last, x \in D : step[<<n, x>>] = IF n \in positions THEN Append(x, n) ELSE x
  OBVIOUS
<1> HIDE DEF step, D
<1>4. PICK f \in [0..last -> D] : Steps(f, last, <<>>, step) BY <1>2, Recursion
<1>5. ASSUME NEW k \in 0..last
      PROVE  f[k] = IF k = 0 THEN <<>> ELSE IF k \in positions THEN Append(f[k - 1], k) ELSE f[k - 1]
  <2>1. k # 0 => k \in 1..last /\ k - 1 \in 0..last
    OBVIOUS
  <2> QED BY <1>3, <1>4, <2>1 DEF Steps
<1>6. IsSortedUpTo(f, positions, last) BY <1>4, <1>5 DEF IsSortedUpTo
<1>7. IsSortedUpTo(SortedUpTo(positions, last), positions, last) BY <1>6 DEF SortedUpTo
<1>8. ASSUME NEW k \in 0..last
      PROVE  SortedUpTo(positions, last)[k] =
               IF k = 0 THEN <<>>
               ELSE IF k \in positions THEN Append(SortedUpTo(positions, last)[k - 1], k)
               ELSE SortedUpTo(positions, last)[k - 1]
  BY <1>7 DEF IsSortedUpTo
<1> QED BY <1>1, <1>8

\* The positions of a set in order are numbers of that set; there is none when
\* the set has none up to the last, and one when it has one.
LEMMA SortedParts ==
  ASSUME NEW positions, NEW last \in Nat
  PROVE  /\ Sorted(positions, last) \in Seq(Nat)
         /\ \A i \in DOMAIN Sorted(positions, last) : Sorted(positions, last)[i] \in positions
         /\ (\A k \in 1..last : k \notin positions) => Sorted(positions, last) = <<>>
         /\ \A n \in 1..last : (\A k \in 1..last : k \in positions <=> k = n) => Sorted(positions, last) = <<n>>
<1> DEFINE f == SortedUpTo(positions, last)
<1>1. Sorted(positions, last) = f[last] BY DEF Sorted, SortedUpTo, IsSortedUpTo
<1>2. /\ f[0] = <<>>
      /\ \A n \in 1..last : f[n] = IF n \in positions THEN Append(f[n - 1], n) ELSE f[n - 1]
  BY SortedUpToSteps
<1> HIDE DEF f
<1>3. last \in 0..last
  OBVIOUS
<1>4. f[last] \in Seq(Nat) /\ \A i \in DOMAIN f[last] : f[last][i] \in positions
  <2> DEFINE S == {k \in 0..last : f[k] \in Seq(Nat) /\ \A i \in DOMAIN f[k] : f[k][i] \in positions}
  <2>1. 0 \in S
    <3>1. 0 \in 0..last /\ <<>> \in Seq(Nat) /\ DOMAIN <<>> = {}
      OBVIOUS
    <3> QED BY <1>2, <3>1
  <2>2. ASSUME NEW k \in 1..last, k - 1 \in S PROVE k \in S
    <3>1. k \in Nat /\ k \in 0..last /\ f[k - 1] \in Seq(Nat) /\ \A i \in DOMAIN f[k - 1] : f[k - 1][i] \in positions
      BY <2>2
    <3>2. CASE k \in positions
      <4> DEFINE t == f[k - 1]
      <4>1. t \in Seq(Nat) /\ \A i \in DOMAIN t : t[i] \in positions BY <3>1
      <4>2. f[k] = Append(t, k) BY <1>2, <3>2
      <4> HIDE DEF t
      <4>3. Append(t, k) \in Seq(Nat) /\ \A i \in DOMAIN Append(t, k) : Append(t, k)[i] \in positions
        BY <3>1, <3>2, <4>1
      <4> QED BY <3>1, <4>2, <4>3
    <3>3. CASE k \notin positions BY <1>2, <3>1, <3>3
    <3> QED BY <3>2, <3>3
  <2>3. last \in S
    <3> HIDE DEF S
    <3> QED BY <1>3, <2>1, <2>2, Climb
  <2> QED BY <2>3
<1>5. ASSUME NEW n \in Nat, NEW m \in 0..last, m <= n, n <= last, \A k \in 1..n : k \in positions => k <= m
      PROVE  f[n] = f[m]
  <2> DEFINE S == {k \in 0..n : k >= m => f[k] = f[m]}
  <2>1. 0 \in S BY <1>5
  <2>2. ASSUME NEW k \in 1..n, k - 1 \in S PROVE k \in S
    <3>1. k \in 0..n /\ k \in 1..last BY <1>5
    <3>2. CASE k <= m
      <4>1. k >= m => k = m BY <1>5, <3>2
      <4> QED BY <3>1, <4>1
    <3>3. CASE ~(k <= m)
      <4>1. k - 1 >= m /\ k \notin positions BY <1>5, <3>3
      <4>2. f[k] = f[k - 1] BY <1>2, <3>1, <4>1
      <4>3. f[k - 1] = f[m] BY <2>2, <4>1
      <4> QED BY <3>1, <4>2, <4>3
    <3> QED BY <3>2, <3>3
  <2>3. n \in S
    <3>1. n \in 0..n
      OBVIOUS
    <3> HIDE DEF S
    <3> QED BY <2>1, <2>2, <3>1, Climb
  <2> QED BY <1>5, <2>3
<1>6. (\A k \in 1..last : k \notin positions) => f[last] = <<>>
  <2> SUFFICES ASSUME \A k \in 1..last : k \notin positions PROVE f[last] = <<>>
    OBVIOUS
  <2>1. 0 \in 0..last /\ 0 <= last /\ \A k \in 1..last : k \in positions => k <= 0
    OBVIOUS
  <2>2. f[last] = f[0] BY <1>5, <2>1
  <2> QED BY <1>2, <2>2
<1>7. ASSUME NEW n \in 1..last, \A k \in 1..last : k \in positions <=> k = n
      PROVE  f[last] = <<n>>
  <2>1. n \in Nat /\ n - 1 \in Nat /\ n \in 0..last /\ n <= last /\ n - 1 <= last
    OBVIOUS
  <2>2. f[last] = f[n]
    <3>1. \A k \in 1..last : k \in positions => k <= n BY <1>7, <2>1
    <3> QED BY <1>5, <2>1, <3>1
  <2>3. f[n - 1] = f[0]
    <3>1. \A k \in 1..(n - 1) : k \in positions => k <= 0
      <4> TAKE k \in 1..(n - 1)
      <4>1. k \in 1..last /\ k # n BY <2>1
      <4> QED BY <1>7, <4>1
    <3>2. 0 \in 0..last /\ 0 <= n - 1 BY <2>1
    <3> QED BY <1>5, <2>1, <3>1, <3>2
  <2>4. f[n] = Append(f[n - 1], n) BY <1>2, <1>7
  <2>5. Append(<<>>, n) = <<n>>
    OBVIOUS
  <2> QED BY <1>2, <2>2, <2>3, <2>4, <2>5
<1> QED BY <1>1, <1>4, <1>6, <1>7

-----------------------------------------------------------------------------
(***************************************************************************)
(* The fold of the records.                                                *)
(***************************************************************************)
LEMMA AdvanceTyped ==
  ASSUME NEW fold \in Folds, NEW n \in Nat, NEW record \in Records
  PROVE  Advance(fold, n, record) \in Folds /\ Advance(fold, n, record).dropped = fold.dropped
<1> DEFINE S == Seq(Nat)
<1>1. /\ fold.run \in Nat /\ fold.pending \in S /\ fold.known \in SUBSET Nat /\ fold.ordinal \in Nat
      /\ fold.dropped \in Nat /\ record.run \in Nat /\ record.queues \in S
      /\ fold = [run |-> fold.run, pending |-> fold.pending, known |-> fold.known,
                 last |-> fold.last, ordinal |-> fold.ordinal, dropped |-> fold.dropped]
  BY DEF Folds, Records
<1>2. Range(record.queues) \in SUBSET Nat BY <1>1 DEF Range
<1>3. Append(fold.pending, n) \in S /\ <<>> \in S BY <1>1
<1>4. Folds = [run : Nat, pending : S, known : SUBSET Nat, last : Nat, ordinal : Nat, dropped : Nat]
  BY DEF Folds
<1> DEFINE more == Append(fold.pending, n)
           none == <<>>
           all == fold.known \union Range(record.queues)
           one == [fold EXCEPT !.last = n]
<1>5. all \in SUBSET Nat BY <1>1, <1>2
<1>6. Advance(fold, n, record) \in
        {one, [one EXCEPT !.run = record.run, !.pending = none], [one EXCEPT !.run = 0],
         [one EXCEPT !.pending = more], [one EXCEPT !.known = all]}
  <2>1. one.pending = fold.pending /\ one.known = fold.known BY <1>1
  <2> QED BY <2>1 DEF Advance
<1> HIDE DEF S, more, none, all
<1>7. none \in S /\ more \in S BY <1>3 DEF none, more
<1>8. one = [run |-> fold.run, pending |-> fold.pending, known |-> fold.known,
             last |-> n, ordinal |-> fold.ordinal, dropped |-> fold.dropped]
  BY <1>1
<1> HIDE DEF one
<1>9. CASE Advance(fold, n, record) = one BY <1>1, <1>4, <1>8, <1>9
<1>10. CASE Advance(fold, n, record) = [one EXCEPT !.run = record.run, !.pending = none]
  BY <1>1, <1>4, <1>7, <1>8, <1>10
<1>11. CASE Advance(fold, n, record) = [one EXCEPT !.run = 0] BY <1>1, <1>4, <1>8, <1>11
<1>12. CASE Advance(fold, n, record) = [one EXCEPT !.pending = more]
  BY <1>1, <1>4, <1>7, <1>8, <1>12
<1>13. CASE Advance(fold, n, record) = [one EXCEPT !.known = all]
  BY <1>1, <1>4, <1>5, <1>8, <1>13
<1> QED BY <1>6, <1>9, <1>10, <1>11, <1>12, <1>13

IsFolded(f, records) ==
  f = [n \in 0..Len(records) |-> IF n = 0 THEN NoFold ELSE Advance(f[n - 1], n, records[n])]

\* The fold of the records, record by record.
LEMMA FoldedSteps ==
  ASSUME NEW records \in Seq(Records)
  PROVE  /\ Folded(records)[0] = NoFold
         /\ \A n \in 1..Len(records) :
              Folded(records)[n] = Advance(Folded(records)[n - 1], n, records[n])
         /\ \A n \in 0..Len(records) : Folded(records)[n] \in Folds /\ Folded(records)[n].dropped = 0
<1>1. /\ Len(records) \in Nat
      /\ \A n \in 1..Len(records) : records[n] \in Records /\ n \in 0..Len(records) /\ n # 0
                                    /\ n - 1 \in 0..Len(records) /\ n \in Nat
  OBVIOUS
<1> DEFINE D == Folds
           step == [p \in (1..Len(records)) \X D |-> Advance(p[2], p[1], records[p[1]])]
<1>2. step \in [(1..Len(records)) \X D -> D] BY <1>1, AdvanceTyped
<1>3. NoFold \in D /\ NoFold.dropped = 0 BY DEF NoFold, Folds
<1>4. \A n \in 1..Len(records), x \in D : step[<<n, x>>] = Advance(x, n, records[n])
  OBVIOUS
<1> HIDE DEF step, D
<1>5. PICK f \in [0..Len(records) -> D] : Steps(f, Len(records), NoFold, step)
  BY <1>1, <1>2, <1>3, Recursion
<1>6. ASSUME NEW k \in 0..Len(records)
      PROVE  f[k] = IF k = 0 THEN NoFold ELSE Advance(f[k - 1], k, records[k])
  <2>1. k # 0 => k \in 1..Len(records) /\ k - 1 \in 0..Len(records) BY <1>1
  <2> QED BY <1>4, <1>5, <2>1 DEF Steps
<1>7. IsFolded(f, records) BY <1>5, <1>6 DEF IsFolded
<1>8. IsFolded(Folded(records), records)
  <2>1. Folded(records) = CHOOSE g : IsFolded(g, records) BY DEF Folded, IsFolded
  <2> QED BY <1>7, <2>1
<1>9. ASSUME NEW k \in 0..Len(records)
      PROVE  Folded(records)[k] = IF k = 0 THEN NoFold ELSE Advance(Folded(records)[k - 1], k, records[k])
  BY <1>8 DEF IsFolded
<1>10. \A n \in 0..Len(records) : Folded(records)[n] \in Folds /\ Folded(records)[n].dropped = 0
  <2> DEFINE S == {k \in 0..Len(records) : Folded(records)[k] \in Folds /\ Folded(records)[k].dropped = 0}
  <2>1. 0 \in S BY <1>1, <1>3, <1>9 DEF D
  <2>2. ASSUME NEW k \in 1..Len(records), k - 1 \in S PROVE k \in S
    <3>1. Folded(records)[k] = Advance(Folded(records)[k - 1], k, records[k]) BY <1>1, <1>9
    <3>2. Folded(records)[k - 1] \in Folds /\ Folded(records)[k - 1].dropped = 0 BY <2>2
    <3>3. Folded(records)[k] \in Folds /\ Folded(records)[k].dropped = 0
      <4>1. k \in Nat /\ records[k] \in Records BY <1>1
      <4> DEFINE before == Folded(records)[k - 1]
                 record == records[k]
      <4>2. before \in Folds /\ before.dropped = 0 /\ record \in Records BY <3>2, <4>1
      <4> HIDE DEF before, record
      <4>3. Advance(before, k, record) \in Folds /\ Advance(before, k, record).dropped = 0
        BY <4>1, <4>2, AdvanceTyped
      <4> QED BY <3>1, <4>3 DEF before, record
    <3> QED BY <1>1, <3>3
  <2>3. \A k \in 0..Len(records) : k \in S
    <3> HIDE DEF S
    <3> QED BY <1>1, <2>1, <2>2, Climb
  <2> QED BY <2>3
<1> QED BY <1>1, <1>9, <1>10

\* More records do not change the fold of those before them.
LEMMA FoldedGrows ==
  ASSUME NEW records \in Seq(Records), NEW more \in Seq(Records)
  PROVE  \A n \in 0..Len(records) : Folded(records \o more)[n] = Folded(records)[n]
<1> DEFINE all == records \o more
<1>1. /\ Len(records) \in Nat /\ all \in Seq(Records) /\ Len(records) <= Len(all) /\ Len(all) \in Nat
      /\ \A n \in 1..Len(records) : all[n] = records[n]
  OBVIOUS
<1> HIDE DEF all
<1> DEFINE S == {k \in 0..Len(records) : Folded(all)[k] = Folded(records)[k]}
<1>2. 0 \in S BY <1>1, FoldedSteps
<1>3. ASSUME NEW k \in 1..Len(records), k - 1 \in S PROVE k \in S
  <2>1. k \in 0..Len(records) /\ k \in 1..Len(all) BY <1>1
  <2> QED BY <1>1, <1>3, <2>1, FoldedSteps
<1>4. \A k \in 0..Len(records) : k \in S
  <2> HIDE DEF S
  <2> QED BY <1>1, <1>2, <1>3, Climb
<1> QED BY <1>4 DEF all

-----------------------------------------------------------------------------
(***************************************************************************)
(* What a record shows, and what the fold before it lets it show.          *)
(***************************************************************************)
\* The fold of what is before record n lets that record be told.
Suits(fold, records, n, record) ==
  /\ record.kind \in {"prompt", "assistant", "injected", "accepted", "drained", "suspended", "resolution"}
       => fold.run = record.run
  /\ record.kind \in {"drained", "injected"} => Range(record.queues) \subseteq fold.known
  /\ record.kind = "history" => record.run = 0
  /\ record.kind = "opened" =>
       fold.pending = Sorted({i \in 1..(n - 1) : records[i].kind = "resume" /\ records[i].run = record.run}, n - 1)

Attributed(records, n) == Suits(Folded(records)[n - 1], records, n, records[n])

Agrees(fold, other) ==
  fold.run = other.run /\ fold.pending = other.pending /\ fold.known = other.known

\* Positions, each with something else.
LEMMA EachOf ==
  ASSUME NEW s \in Seq(Nat), NEW D, NEW f \in [DOMAIN s -> D]
  PROVE  f \in Seq(D) /\ Len(f) = Len(s) /\ DOMAIN f = DOMAIN s
<1>1. DOMAIN s = 1..Len(s) /\ Len(s) \in Nat
  OBVIOUS
<1>2. f \in [1..Len(s) -> D] BY <1>1
<1>3. f \in Seq(D) BY <1>1, <1>2
<1>4. Len(f) = Len(s) BY <1>1, <1>2, <1>3
<1> QED BY <1>3, <1>4

\* What a record shows are marks.
LEMMA TruthTyped ==
  ASSUME NEW records \in Seq(Records), NEW n \in 1..Len(records)
  PROVE  Truth(records, n) \in Seq(Marks)
<1> DEFINE record == records[n]
           b == Buffered(records, n)
<1>1. record.kind \in RecordKinds /\ record.run \in Nat /\ record.queues \in Seq(Nat) /\ n \in Nat /\ n - 1 \in Nat
  <2>1. record \in Records /\ n \in Nat /\ n - 1 \in Nat
    OBVIOUS
  <2> HIDE DEF record
  <2> QED BY <2>1 DEF Records
<1>2. b \in Seq(Nat) BY <1>1, SortedParts DEF Buffered
<1>3. {"entry", "started", "queue", "child", "closed", "suspended", "resolution"} \subseteq EventKinds
  BY DEF EventKinds
<1>4. \A kind \in EventKinds, r \in Nat, i \in Nat : <<i, kind, r>> \in Marks BY DEF Marks
<1> DEFINE head == [i \in DOMAIN b |-> <<b[i], "entry", record.run>>]
           more == [i \in DOMAIN record.queues |-> <<n, "entry", record.run>>]
<1>5. head \in Seq(Marks)
  <2>1. \A i \in DOMAIN b : b[i] \in Nat BY <1>2
  <2>2. head \in [DOMAIN b -> Marks] BY <1>1, <1>3, <1>4, <2>1
  <2> HIDE DEF head, b
  <2> QED BY <1>2, <2>2, EachOf
<1>6. more \in Seq(Marks)
  <2>1. more \in [DOMAIN record.queues -> Marks] BY <1>1, <1>3, <1>4
  <2> HIDE DEF more, record
  <2> QED BY <1>1, <2>1, EachOf
<1>7. \A kind \in EventKinds, r \in Nat : <<<<n, kind, r>>>> \in Seq(Marks) BY <1>1, <1>4
<1>8. head \o <<<<n, "started", record.run>>>> \in Seq(Marks) BY <1>1, <1>3, <1>5, <1>7
<1>9. <<>> \in Seq(Marks)
  OBVIOUS
<1>10. Truth(records, n) \in
         {<<>>, head \o <<<<n, "started", record.run>>>>, more, <<<<n, record.kind, record.run>>>>,
          <<<<n, "queue", record.run>>>>, <<<<n, "child", 0>>>>, <<<<n, "entry", record.run>>>>}
       /\ (Truth(records, n) = <<<<n, record.kind, record.run>>>> =>
             \/ record.kind \in {"closed", "suspended", "resolution"}
             \/ Truth(records, n) = <<<<n, "entry", record.run>>>>
             \/ Truth(records, n) = <<<<n, "queue", record.run>>>>
             \/ Truth(records, n) = <<<<n, "child", 0>>>>
             \/ Truth(records, n) \in {<<>>, more, head \o <<<<n, "started", record.run>>>>})
  BY DEF Truth
<1> HIDE DEF head, more, record, b
<1> QED BY <1>1, <1>3, <1>6, <1>7, <1>8, <1>9, <1>10

IsHistory(f, records, after) ==
  f = [n \in 0..Len(records) |-> IF n <= after THEN <<>> ELSE f[n - 1] \o Truth(records, n)]

\* The history, record by record.
LEMMA HistorySteps ==
  ASSUME NEW records \in Seq(Records), NEW after \in Nat
  PROVE  /\ \A n \in 0..Len(records) : n <= after => History(records, after)[n] = <<>>
         /\ \A n \in 1..Len(records) : n > after =>
              History(records, after)[n] = History(records, after)[n - 1] \o Truth(records, n)
         /\ \A n \in 0..Len(records) : History(records, after)[n] \in Seq(Marks)
<1>1. /\ Len(records) \in Nat
      /\ \A n \in 1..Len(records) : n \in 0..Len(records) /\ n # 0 /\ n - 1 \in 0..Len(records)
      /\ \A n \in 0..Len(records) : n = 0 \/ n \in 1..Len(records)
      /\ 0 <= after
  OBVIOUS
<1> DEFINE D == Seq(Marks)
           step == [p \in (1..Len(records)) \X D |->
                      IF p[1] <= after THEN <<>> ELSE p[2] \o Truth(records, p[1])]
<1>2. step \in [(1..Len(records)) \X D -> D] /\ <<>> \in D
  <2>1. \A n \in 1..Len(records), x \in D : x \o Truth(records, n) \in D BY TruthTyped
  <2> QED BY <2>1
<1>3. \A n \in 1..Len(records), x \in D :
        step[<<n, x>>] = IF n <= after THEN <<>> ELSE x \o Truth(records, n)
  OBVIOUS
<1> HIDE DEF step, D
<1>4. PICK f \in [0..Len(records) -> D] : Steps(f, Len(records), <<>>, step)
  BY <1>1, <1>2, Recursion
<1>5. ASSUME NEW k \in 0..Len(records)
      PROVE  f[k] = IF k <= after THEN <<>> ELSE f[k - 1] \o Truth(records, k)
  <2>1. CASE k = 0 BY <1>1, <1>4, <2>1 DEF Steps
  <2>2. CASE k # 0
    <3>1. k \in 1..Len(records) /\ f[k - 1] \in D BY <1>1, <1>4, <2>2
    <3> QED BY <1>3, <1>4, <2>2, <3>1 DEF Steps
  <2> QED BY <2>1, <2>2
<1>6. IsHistory(f, records, after) BY <1>4, <1>5 DEF IsHistory
<1>7. IsHistory(History(records, after), records, after)
  <2>1. History(records, after) = CHOOSE g : IsHistory(g, records, after)
    BY DEF History, IsHistory
  <2> QED BY <1>6, <2>1
<1>8. ASSUME NEW k \in 0..Len(records)
      PROVE  History(records, after)[k] =
               IF k <= after THEN <<>> ELSE History(records, after)[k - 1] \o Truth(records, k)
  BY <1>7 DEF IsHistory
<1>9. \A n \in 0..Len(records) : History(records, after)[n] \in Seq(Marks)
  <2> DEFINE S == {k \in 0..Len(records) : History(records, after)[k] \in Seq(Marks)}
  <2>1. 0 \in S
    <3>1. History(records, after)[0] = <<>> /\ 0 \in 0..Len(records) BY <1>1, <1>8
    <3>2. <<>> \in Seq(Marks)
      OBVIOUS
    <3> QED BY <3>1, <3>2
  <2>2. ASSUME NEW k \in 1..Len(records), k - 1 \in S PROVE k \in S
    <3>1. History(records, after)[k - 1] \o Truth(records, k) \in Seq(Marks)
      BY <2>2, TruthTyped
    <3>2. <<>> \in Seq(Marks)
      OBVIOUS
    <3> QED BY <1>1, <1>8, <3>1, <3>2
  <2>3. \A k \in 0..Len(records) : k \in S
    <3> HIDE DEF S
    <3> QED BY <1>1, <2>1, <2>2, Climb
  <2> QED BY <2>3
<1>10. \A n \in 1..Len(records) : n > after =>
         History(records, after)[n] = History(records, after)[n - 1] \o Truth(records, n)
  <2> TAKE n \in 1..Len(records)
  <2>1. n > after => ~(n <= after)
    OBVIOUS
  <2> QED BY <1>1, <1>8, <2>1
<1> QED BY <1>8, <1>9, <1>10

\* More records do not change what those before them show.
LEMMA TruthGrows ==
  ASSUME NEW records \in Seq(Records), NEW more \in Seq(Records), NEW n \in 1..Len(records)
  PROVE  Truth(records \o more, n) = Truth(records, n)
<1> DEFINE all == records \o more
<1>1. \A i \in 1..(n - 1) : i \in 1..Len(records)
  OBVIOUS
<1>2. all[n] = records[n] /\ \A i \in 1..(n - 1) : all[i] = records[i] BY <1>1
<1> HIDE DEF all
<1>3. {i \in 1..(n - 1) : all[i].kind = "resume" /\ all[i].run = all[n].run}
        = {i \in 1..(n - 1) : records[i].kind = "resume" /\ records[i].run = records[n].run}
  BY <1>2
<1>4. Buffered(all, n) = Buffered(records, n) BY <1>3 DEF Buffered
<1>5. Truth(all, n) = Truth(records, n) BY <1>2, <1>4 DEF Truth
<1> QED BY <1>5 DEF all

LEMMA HistoryGrows ==
  ASSUME NEW records \in Seq(Records), NEW more \in Seq(Records), NEW after \in Nat
  PROVE  \A n \in 0..Len(records) : History(records \o more, after)[n] = History(records, after)[n]
<1> DEFINE all == records \o more
<1>1. /\ Len(records) \in Nat /\ all \in Seq(Records) /\ Len(records) <= Len(all) /\ Len(all) \in Nat
      /\ \A n \in 1..Len(records) : n \in 1..Len(all) /\ n \in 0..Len(all) /\ n \in 0..Len(records)
                                    /\ (n <= after \/ n > after)
      /\ 0 \in 0..Len(records) /\ 0 \in 0..Len(all) /\ 0 <= after
  OBVIOUS
<1>2. \A n \in 1..Len(records) : Truth(all, n) = Truth(records, n) BY TruthGrows
<1> HIDE DEF all
<1> DEFINE S == {k \in 0..Len(records) : History(all, after)[k] = History(records, after)[k]}
<1>3. 0 \in S BY <1>1, HistorySteps
<1>4. ASSUME NEW k \in 1..Len(records), k - 1 \in S PROVE k \in S
  <2>1. CASE k <= after BY <1>1, <2>1, HistorySteps
  <2>2. CASE k > after
    <3>1. History(all, after)[k] = History(all, after)[k - 1] \o Truth(all, k)
      BY <1>1, <2>2, HistorySteps
    <3>2. History(records, after)[k] = History(records, after)[k - 1] \o Truth(records, k)
      BY <1>1, <2>2, HistorySteps
    <3> QED BY <1>1, <1>2, <1>4, <3>1, <3>2
  <2> QED BY <1>1, <2>1, <2>2
<1>5. \A k \in 0..Len(records) : k \in S
  <2> HIDE DEF S
  <2> QED BY <1>1, <1>3, <1>4, Climb
<1> QED BY <1>5 DEF all

-----------------------------------------------------------------------------
(***************************************************************************)
(* Events, and the marks left of them.                                     *)
(***************************************************************************)
MarksOf(events) == [i \in DOMAIN events |-> Mark(events[i])]

\* An event leaves a mark.
LEMMA MarkTyped ==
  ASSUME NEW event \in LoopEvents
  PROVE  Mark(event) \in Marks
BY DEF LoopEvents, Mark, Marks

LEMMA MarksOfTyped ==
  ASSUME NEW events \in Seq(LoopEvents)
  PROVE  /\ MarksOf(events) \in Seq(Marks) /\ Len(MarksOf(events)) = Len(events)
         /\ \A i \in 1..Len(events) : MarksOf(events)[i] = Mark(events[i])
<1>1. DOMAIN events = 1..Len(events) /\ Len(events) \in Nat
  OBVIOUS
<1>2. \A i \in 1..Len(events) : Mark(events[i]) \in Marks BY MarkTyped
<1>3. MarksOf(events) \in [1..Len(events) -> Marks] BY <1>1, <1>2 DEF MarksOf
<1>4. MarksOf(events) \in Seq(Marks) BY <1>1, <1>3
<1>5. Len(MarksOf(events)) = Len(events) BY <1>1, <1>3, <1>4
<1> QED BY <1>1, <1>4, <1>5 DEF MarksOf

\* The marks of a sequence and one more event.
LEMMA MarksOfMore ==
  ASSUME NEW events \in Seq(LoopEvents), NEW event \in LoopEvents
  PROVE  MarksOf(Append(events, event)) = Append(MarksOf(events), Mark(event))
<1> DEFINE all == Append(events, event)
           marks == MarksOf(events)
<1>1. /\ all \in Seq(LoopEvents) /\ Len(all) = Len(events) + 1 /\ Len(events) \in Nat
      /\ all[Len(events) + 1] = event /\ \A i \in 1..Len(events) : all[i] = events[i]
  OBVIOUS
<1>2. /\ MarksOf(all) \in Seq(Marks) /\ Len(MarksOf(all)) = Len(all)
      /\ \A i \in 1..Len(all) : MarksOf(all)[i] = Mark(all[i])
  BY <1>1, MarksOfTyped
<1>3. /\ marks \in Seq(Marks) /\ Len(marks) = Len(events)
      /\ \A i \in 1..Len(events) : marks[i] = Mark(events[i])
  BY MarksOfTyped
<1> HIDE DEF all, marks
<1>4. /\ Append(marks, Mark(event)) \in Seq(Marks) /\ Len(Append(marks, Mark(event))) = Len(events) + 1
      /\ Append(marks, Mark(event))[Len(events) + 1] = Mark(event)
      /\ \A i \in 1..Len(events) : Append(marks, Mark(event))[i] = marks[i]
  <2>1. Mark(event) \in Marks BY MarkTyped
  <2> QED BY <1>3, <2>1
<1> DEFINE more == Append(marks, Mark(event))
<1>5. ASSUME NEW i \in 1..Len(all)
      PROVE  MarksOf(all)[i] = more[i]
  <2>1. i \in 1..Len(events) \/ i = Len(events) + 1 BY <1>1
  <2> QED BY <1>1, <1>2, <1>3, <1>4, <2>1
<1> HIDE DEF more
<1>6. MarksOf(all) = more BY <1>1, <1>2, <1>4, <1>5 DEF more
<1> QED BY <1>6 DEF all, marks, more

IsCommitted(f, events) ==
  f = [n \in 0..Len(events) |->
         IF n = 0 THEN <<>>
         ELSE IF events[n].kind = "preview" THEN f[n - 1]
         ELSE Append(f[n - 1], <<events[n].at, events[n].kind, events[n].run>>)]

\* What is left of events, event by event.
LEMMA CommittedSteps ==
  ASSUME NEW events \in Seq(LoopEvents)
  PROVE  /\ Committed(events)[0] = <<>>
         /\ \A n \in 1..Len(events) : Committed(events)[n] =
              IF events[n].kind = "preview" THEN Committed(events)[n - 1]
              ELSE Append(Committed(events)[n - 1], Mark(events[n]))
         /\ \A n \in 0..Len(events) : Committed(events)[n] \in Seq(Marks)
<1>1. /\ Len(events) \in Nat
      /\ \A n \in 1..Len(events) : events[n] \in LoopEvents /\ n \in 0..Len(events) /\ n # 0
                                   /\ n - 1 \in 0..Len(events)
      /\ \A n \in 0..Len(events) : n = 0 \/ n \in 1..Len(events)
      /\ 0 \in 0..Len(events)
  OBVIOUS
<1> DEFINE D == Seq(Marks)
           step == [p \in (1..Len(events)) \X D |->
                      IF events[p[1]].kind = "preview" THEN p[2] ELSE Append(p[2], Mark(events[p[1]]))]
<1>2. \A n \in 1..Len(events) : Mark(events[n]) \in Marks BY <1>1, MarkTyped
<1>3. step \in [(1..Len(events)) \X D -> D] /\ <<>> \in D
  <2>1. \A n \in 1..Len(events), x \in D : Append(x, Mark(events[n])) \in D BY <1>2
  <2> QED BY <2>1
<1>4. \A n \in 1..Len(events), x \in D :
        step[<<n, x>>] = IF events[n].kind = "preview" THEN x ELSE Append(x, Mark(events[n]))
  OBVIOUS
<1> HIDE DEF step, D
<1>5. PICK f \in [0..Len(events) -> D] : Steps(f, Len(events), <<>>, step)
  BY <1>1, <1>3, Recursion
<1>6. ASSUME NEW k \in 0..Len(events)
      PROVE  f[k] = IF k = 0 THEN <<>> ELSE IF events[k].kind = "preview" THEN f[k - 1]
                    ELSE Append(f[k - 1], Mark(events[k]))
  <2>1. CASE k = 0 BY <1>5, <2>1 DEF Steps
  <2>2. CASE k # 0
    <3>1. k \in 1..Len(events) /\ f[k - 1] \in D BY <1>1, <1>5, <2>2
    <3> QED BY <1>4, <1>5, <2>2, <3>1 DEF Steps
  <2> QED BY <2>1, <2>2
<1>7. IsCommitted(f, events) BY <1>5, <1>6 DEF IsCommitted, Mark
<1>8. IsCommitted(Committed(events), events)
  <2>1. Committed(events) = CHOOSE g : IsCommitted(g, events) BY DEF Committed, IsCommitted
  <2> QED BY <1>7, <2>1
<1>9. ASSUME NEW k \in 0..Len(events)
      PROVE  Committed(events)[k] =
               IF k = 0 THEN <<>> ELSE IF events[k].kind = "preview" THEN Committed(events)[k - 1]
               ELSE Append(Committed(events)[k - 1], Mark(events[k]))
  BY <1>8 DEF IsCommitted, Mark
<1>10. \A n \in 0..Len(events) : Committed(events)[n] \in Seq(Marks)
  <2> DEFINE S == {k \in 0..Len(events) : Committed(events)[k] \in Seq(Marks)}
  <2>1. 0 \in S
    <3>1. Committed(events)[0] = <<>> /\ <<>> \in Seq(Marks) BY <1>1, <1>9
    <3> QED BY <1>1, <3>1
  <2>2. ASSUME NEW k \in 1..Len(events), k - 1 \in S PROVE k \in S
    <3>1. Append(Committed(events)[k - 1], Mark(events[k])) \in Seq(Marks) BY <1>2, <2>2
    <3> QED BY <1>1, <1>9, <2>2, <3>1
  <2>3. \A k \in 0..Len(events) : k \in S
    <3> HIDE DEF S
    <3> QED BY <1>1, <2>1, <2>2, Climb
  <2> QED BY <2>3
<1> QED BY <1>1, <1>9, <1>10

\* More events do not change what is left of those before.
LEMMA CommittedGrows ==
  ASSUME NEW seen \in Seq(LoopEvents), NEW events \in Seq(LoopEvents)
  PROVE  Committed(seen \o events)[Len(seen)] = Committed(seen)[Len(seen)]
<1> DEFINE all == seen \o events
<1>1. /\ all \in Seq(LoopEvents) /\ Len(seen) \in Nat /\ Len(seen) \in 0..Len(seen)
      /\ \A i \in 1..Len(seen) : all[i] = seen[i] /\ i \in 1..Len(all) /\ i \in 0..Len(seen)
  OBVIOUS
<1> HIDE DEF all
<1> DEFINE S == {k \in 0..Len(seen) : Committed(all)[k] = Committed(seen)[k]}
<1>2. 0 \in S BY <1>1, CommittedSteps
<1>3. ASSUME NEW k \in 1..Len(seen), k - 1 \in S PROVE k \in S
  <2>1. Committed(all)[k] = IF seen[k].kind = "preview" THEN Committed(all)[k - 1]
                            ELSE Append(Committed(all)[k - 1], Mark(seen[k]))
    BY <1>1, CommittedSteps
  <2>2. Committed(seen)[k] = IF seen[k].kind = "preview" THEN Committed(seen)[k - 1]
                             ELSE Append(Committed(seen)[k - 1], Mark(seen[k]))
    BY CommittedSteps
  <2> QED BY <1>1, <1>3, <2>1, <2>2
<1>4. Len(seen) \in S
  <2> HIDE DEF S
  <2> QED BY <1>1, <1>2, <1>3, Climb
<1> QED BY <1>4 DEF all

LEMMA SameMarks ==
  ASSUME NEW s \in Seq(Marks), NEW t \in Seq(Marks), Len(s) = Len(t), \A i \in 1..Len(s) : s[i] = t[i]
  PROVE  s = t
OBVIOUS

LEMMA AppendToBoth ==
  ASSUME NEW s \in Seq(Marks), NEW t \in Seq(Marks), NEW x \in Marks
  PROVE  Append(s \o t, x) = s \o Append(t, x)
<1> DEFINE one == Append(s \o t, x)
           other == s \o Append(t, x)
<1>1. /\ one \in Seq(Marks) /\ other \in Seq(Marks) /\ Len(one) = Len(other) /\ Len(one) = Len(s) + Len(t) + 1
      /\ Len(s) \in Nat /\ Len(t) \in Nat
  OBVIOUS
<1>2. ASSUME NEW i \in 1..Len(one) PROVE one[i] = other[i]
  <2>1. CASE i <= Len(s) BY <1>1, <2>1
  <2>2. CASE i > Len(s) /\ i <= Len(s) + Len(t) BY <1>1, <2>2
  <2>3. CASE i = Len(s) + Len(t) + 1 BY <1>1, <2>3
  <2> QED BY <1>1, <2>1, <2>2, <2>3
<1> HIDE DEF one, other
<1>3. one = other BY <1>1, <1>2, SameMarks
<1> QED BY <1>3 DEF one, other

\* What more events leave comes after what is left of those before.
LEMMA CommittedMore ==
  ASSUME NEW seen \in Seq(LoopEvents), NEW events \in Seq(LoopEvents),
         \A i \in DOMAIN events : events[i].kind # "preview"
  PROVE  Committed(seen \o events)[Len(seen \o events)] = Committed(seen)[Len(seen)] \o MarksOf(events)
<1> DEFINE all == seen \o events
           marks == MarksOf(events)
           before == Committed(seen)[Len(seen)]
<1>1. /\ all \in Seq(LoopEvents) /\ Len(all) = Len(seen) + Len(events)
      /\ Len(seen) \in Nat /\ Len(events) \in Nat /\ Len(all) \in Nat
      /\ \A i \in 1..Len(seen) : all[i] = seen[i] /\ i \in 1..Len(all)
      /\ \A i \in 1..Len(events) : all[Len(seen) + i] = events[i] /\ events[i].kind # "preview"
      /\ Len(seen) \in 0..Len(seen) /\ Len(events) \in 0..Len(events)
  OBVIOUS
<1>2. /\ marks \in Seq(Marks) /\ Len(marks) = Len(events)
      /\ \A i \in 1..Len(events) : marks[i] = Mark(events[i])
  BY MarksOfTyped
<1>3. before \in Seq(Marks) BY <1>1, CommittedSteps
<1> HIDE DEF all, marks
<1>4. Committed(all)[Len(seen)] = before BY CommittedGrows DEF all
<1> HIDE DEF before
<1>5. Committed(all)[Len(seen) + Len(events)] = before \o SubSeq(marks, 1, Len(events))
  <2> DEFINE S == {k \in 0..Len(events) : Committed(all)[Len(seen) + k] = before \o SubSeq(marks, 1, k)}
  <2>1. 0 \in S
    <3>1. before \o SubSeq(marks, 1, 0) = before BY <1>2, <1>3
    <3>2. Len(seen) + 0 = Len(seen) /\ 0 \in 0..Len(events) BY <1>1
    <3> QED BY <1>4, <3>1, <3>2
  <2>2. ASSUME NEW k \in 1..Len(events), k - 1 \in S PROVE k \in S
    <3>1. /\ k \in 0..Len(events) /\ Len(seen) + k \in 1..Len(all)
          /\ (Len(seen) + k) - 1 = Len(seen) + (k - 1)
      BY <1>1
    <3>2. Committed(all)[Len(seen) + k] = Append(Committed(all)[Len(seen) + (k - 1)], Mark(events[k]))
      BY <1>1, <3>1, CommittedSteps
    <3>3. Append(before \o SubSeq(marks, 1, k - 1), marks[k]) = before \o SubSeq(marks, 1, k)
      <4>1. Append(SubSeq(marks, 1, k - 1), marks[k]) = SubSeq(marks, 1, k) BY <1>2
      <4> DEFINE part == SubSeq(marks, 1, k - 1)
      <4>2. part \in Seq(Marks) /\ marks[k] \in Marks BY <1>2
      <4> HIDE DEF part
      <4>3. Append(before \o part, marks[k]) = before \o Append(part, marks[k])
        BY <1>3, <4>2, AppendToBoth
      <4> QED BY <4>1, <4>3 DEF part
    <3> QED BY <1>2, <2>2, <3>1, <3>2, <3>3
  <2>3. Len(events) \in S
    <3> HIDE DEF S
    <3> QED BY <1>1, <2>1, <2>2, Climb
  <2> QED BY <2>3
<1>6. SubSeq(marks, 1, Len(events)) = marks BY <1>1, <1>2
<1>7. Committed(all)[Len(all)] = before \o marks BY <1>1, <1>5, <1>6
<1> QED BY <1>7 DEF all, before, marks

\* A preview leaves nothing.
LEMMA CommittedPreview ==
  ASSUME NEW seen \in Seq(LoopEvents), NEW event \in LoopEvents, event.kind = "preview"
  PROVE  Committed(seen \o <<event>>)[Len(seen \o <<event>>)] = Committed(seen)[Len(seen)]
<1> DEFINE all == seen \o <<event>>
<1>1. /\ all \in Seq(LoopEvents) /\ Len(all) = Len(seen) + 1
      /\ Len(seen) \in Nat /\ all[Len(all)] = event /\ Len(all) \in 1..Len(all) /\ Len(all) - 1 = Len(seen)
  OBVIOUS
<1> HIDE DEF all
<1>4. Committed(all)[Len(seen)] = Committed(seen)[Len(seen)]
  <2>1. <<event>> \in Seq(LoopEvents)
    OBVIOUS
  <2> QED BY <2>1, CommittedGrows DEF all
<1>5. Committed(all)[Len(all)] = Committed(all)[Len(all) - 1] BY <1>1, CommittedSteps
<1> QED BY <1>1, <1>4, <1>5 DEF all

-----------------------------------------------------------------------------
(***************************************************************************)
(* What a record projects to.                                              *)
(***************************************************************************)
Triple(at, kind, of) == <<at, kind, of>>

LEMMA EventTyped ==
  ASSUME NEW at \in Nat, NEW part \in Nat, NEW kind \in EventKinds, NEW of \in Nat
  PROVE  /\ Event(at, part, kind, of) \in LoopEvents /\ Event(at, part, kind, of).dropped = 0
         /\ Event(at, part, kind, of).kind = kind /\ Mark(Event(at, part, kind, of)) = Triple(at, kind, of)
BY DEF Event, LoopEvents, Mark, Triple

\* What is delivered for a record is no preview and has nothing dropped yet.
Bare == {event \in LoopEvents : event.dropped = 0 /\ event.kind # "preview"}

LEMMA BareEvent ==
  ASSUME NEW at \in Nat, NEW part \in Nat, NEW kind \in EventKinds, kind # "preview", NEW of \in Nat
  PROVE  /\ Event(at, part, kind, of) \in Bare /\ <<Event(at, part, kind, of)>> \in Seq(Bare)
         /\ MarksOf(<<Event(at, part, kind, of)>>) = <<Triple(at, kind, of)>>
<1> DEFINE e == Event(at, part, kind, of)
<1>1. e \in Bare /\ Mark(e) = Triple(at, kind, of) BY EventTyped DEF Bare
<1> HIDE DEF e
<1>2. <<e>> \in Seq(Bare) /\ DOMAIN <<e>> = 1..1 /\ <<e>>[1] = e BY <1>1
<1>3. MarksOf(<<e>>) = [i \in 1..1 |-> Mark(e)] BY <1>2 DEF MarksOf
<1>4. MarksOf(<<e>>) = <<Mark(e)>> BY <1>3
<1> QED BY <1>1, <1>2, <1>4 DEF e

\* Events and the marks of others, one by one.
LEMMA EventsOfEach ==
  ASSUME NEW s \in Seq(Nat), NEW f, NEW g,
         f \in [DOMAIN s -> Bare], g \in [DOMAIN s -> Marks],
         \A i \in DOMAIN s : Mark(f[i]) = g[i]
  PROVE  f \in Seq(Bare) /\ MarksOf(f) = g
<1>1. f \in Seq(Bare) BY EachOf
<1>2. MarksOf(f) = g BY DEF MarksOf
<1> QED BY <1>1, <1>2

LEMMA ProjectParts ==
  ASSUME NEW records \in Seq(Records), NEW n \in 1..Len(records), NEW fold \in Folds,
         Suits(fold, records, n, records[n])
  PROVE  /\ Project(fold, n, records[n]) \in Seq(Bare)
         /\ MarksOf(Project(fold, n, records[n])) = Truth(records, n)
<1> DEFINE record == records[n]
           b == Buffered(records, n)
           q == record.queues
           p == Project(fold, n, record)
           t == Truth(records, n)
           started == [i \in DOMAIN fold.pending |-> Event(fold.pending[i], 0, "entry", record.run)]
           injected == [i \in DOMAIN q |->
                          Event(n, i - 1, IF q[i] \in fold.known THEN "entry" ELSE "unknown", fold.run)]
           opens == [i \in DOMAIN b |-> Triple(b[i], "entry", record.run)]
           injects == [i \in DOMAIN q |-> Triple(n, "entry", record.run)]
<1>1. record \in Records /\ n \in Nat /\ n - 1 \in Nat
  OBVIOUS
<1>2. Suits(fold, records, n, record) /\ (record.kind = "opened" => fold.pending = b)
  BY DEF Suits, Buffered
<1>3. t = CASE record.kind \in {"resume", "silent"} -> <<>>
            [] record.kind = "opened" -> opens \o <<Triple(n, "started", record.run)>>
            [] record.kind = "injected" -> injects
            [] record.kind \in {"closed", "suspended", "resolution"} -> <<Triple(n, record.kind, record.run)>>
            [] record.kind \in QueueKinds -> <<Triple(n, "queue", record.run)>>
            [] record.kind = "child" -> <<Triple(n, "child", 0)>>
            [] OTHER -> <<Triple(n, "entry", record.run)>>
  BY DEF Truth, Triple
<1>4. p = CASE record.kind = "history" -> <<Event(n, 0, "entry", 0)>>
            [] record.kind \in EntryKinds -> <<Event(n, 0, "entry", fold.run)>>
            [] record.kind = "injected" -> injected
            [] record.kind \in QueueKinds ->
                 <<Event(n, 0, IF \A x \in Range(q) : record.kind = "accepted" \/ x \in fold.known
                               THEN "queue" ELSE "unknown", fold.run)>>
            [] record.kind = "opened" -> started \o <<Event(n, 0, "started", record.run)>>
            [] record.kind \in {"closed", "suspended", "resolution"} ->
                 <<Event(n, 0, record.kind, IF record.kind = "closed" THEN record.run ELSE fold.run)>>
            [] record.kind = "child" -> <<Event(n, 0, "child", 0)>>
            [] OTHER -> <<>>
  BY DEF Project
<1>5. b \in Seq(Nat) BY <1>1, SortedParts DEF Buffered
<1> HIDE DEF record, b, started, injected, opens, injects, p, t
<1>6. record.kind \in RecordKinds /\ record.run \in Nat /\ q \in Seq(Nat)
  BY <1>1 DEF Records
<1> HIDE DEF q
<1>7. SUFFICES p \in Seq(Bare) /\ MarksOf(p) = t BY DEF record, p, t
<1>8. /\ "entry" \in EventKinds /\ "entry" # "preview" /\ "queue" \in EventKinds /\ "queue" # "preview"
      /\ "started" \in EventKinds /\ "started" # "preview" /\ "child" \in EventKinds /\ "child" # "preview"
      /\ {"closed", "suspended", "resolution"} \subseteq EventKinds /\ 0 \in Nat
  BY DEF EventKinds
<1>9. CASE record.kind \in {"history", "prompt", "assistant"}
  <2>1. p = <<Event(n, 0, "entry", record.run)>>
    BY <1>2, <1>4, <1>9 DEF EntryKinds, QueueKinds, Suits
  <2>2. t = <<Triple(n, "entry", record.run)>> BY <1>3, <1>9 DEF QueueKinds
  <2> QED BY <1>1, <1>6, <1>8, <2>1, <2>2, BareEvent
<1>10. CASE record.kind = "injected"
  <2>1. p = injected /\ t = injects BY <1>3, <1>4, <1>10 DEF EntryKinds, QueueKinds
  <2>2. fold.run = record.run /\ Range(q) \subseteq fold.known BY <1>2, <1>10 DEF Suits, q
  <2>3. ASSUME NEW i \in DOMAIN q
        PROVE  injected[i] \in Bare /\ Mark(injected[i]) = injects[i]
    <3>1. q[i] \in fold.known /\ i - 1 \in Nat BY <1>6, <2>2 DEF Range
    <3>2. injected[i] = Event(n, i - 1, "entry", record.run) /\ injects[i] = Triple(n, "entry", record.run)
      BY <2>2, <3>1 DEF injected, injects
    <3>3. Event(n, i - 1, "entry", record.run) \in Bare BY <1>1, <1>6, <1>8, <3>1, BareEvent
    <3>4. Mark(Event(n, i - 1, "entry", record.run)) = Triple(n, "entry", record.run)
      BY DEF Mark, Event, Triple
    <3> QED BY <3>2, <3>3, <3>4
  <2>4. \A i \in DOMAIN q : injected[i] \in LoopEvents BY <2>3 DEF Bare
  <2>5. injected \in [DOMAIN q -> Bare] /\ injects \in [DOMAIN q -> Marks]
    <3>1. \A i \in DOMAIN q : injects[i] \in Marks BY <2>3, <2>4, MarkTyped
    <3>2. injected \in [DOMAIN q -> Bare] BY <2>3 DEF injected
    <3>3. injects \in [DOMAIN q -> Marks] BY <3>1 DEF injects
    <3> QED BY <3>2, <3>3
  <2> QED BY <1>6, <2>1, <2>3, <2>5, EventsOfEach
<1>11. CASE record.kind \in QueueKinds
  <2>1. \A x \in Range(q) : record.kind = "accepted" \/ x \in fold.known
    BY <1>2, <1>11 DEF Suits, QueueKinds, q
  <2>2. fold.run = record.run BY <1>2, <1>11 DEF Suits, QueueKinds
  <2>3. p = <<Event(n, 0, "queue", record.run)>>
    BY <1>4, <1>11, <2>1, <2>2 DEF EntryKinds, QueueKinds
  <2>4. t = <<Triple(n, "queue", record.run)>> BY <1>3, <1>11 DEF QueueKinds
  <2>5. <<Event(n, 0, "queue", record.run)>> \in Seq(Bare) BY <1>1, <1>6, <1>8, BareEvent
  <2>6. MarksOf(<<Event(n, 0, "queue", record.run)>>) = <<Triple(n, "queue", record.run)>>
    BY <1>1, <1>6, <1>8, BareEvent
  <2> QED BY <2>3, <2>4, <2>5, <2>6
<1>12. CASE record.kind = "opened"
  <2> DEFINE e == Event(n, 0, "started", record.run)
  <2>1. p = started \o <<e>> BY <1>4, <1>12 DEF EntryKinds, QueueKinds
  <2>2. t = opens \o <<Triple(n, "started", record.run)>> BY <1>3, <1>12 DEF QueueKinds
  <2>3. ASSUME NEW i \in DOMAIN b
        PROVE  started[i] \in Bare /\ Mark(started[i]) = opens[i]
    <3>1. b[i] \in Nat BY <1>5
    <3>2. started[i] = Event(b[i], 0, "entry", record.run) /\ opens[i] = Triple(b[i], "entry", record.run)
      BY <1>2, <1>12 DEF started, opens
    <3>3. Event(b[i], 0, "entry", record.run) \in Bare BY <1>6, <1>8, <3>1, BareEvent
    <3>4. Mark(Event(b[i], 0, "entry", record.run)) = Triple(b[i], "entry", record.run)
      BY DEF Mark, Event, Triple
    <3> QED BY <3>2, <3>3, <3>4
  <2>4. started \in [DOMAIN b -> Bare] /\ opens \in [DOMAIN b -> Marks]
    <3>1. \A i \in DOMAIN b : opens[i] \in Marks BY <2>3, MarkTyped DEF Bare
    <3>2. started \in [DOMAIN b -> Bare] BY <1>2, <1>12, <2>3 DEF started
    <3>3. opens \in [DOMAIN b -> Marks] BY <3>1 DEF opens
    <3> QED BY <3>2, <3>3
  <2>5. e \in Bare BY <1>1, <1>6, <1>8, BareEvent
  <2>6. Mark(e) = Triple(n, "started", record.run) BY DEF Mark, Event, Triple
  <2> HIDE DEF e
  <2>7. started \in Seq(Bare) /\ MarksOf(started) = opens BY <1>5, <2>3, <2>4, EventsOfEach
  <2>8. started \o <<e>> \in Seq(Bare) /\ started \o <<e>> = Append(started, e)
    BY <2>5, <2>7
  <2>9. started \in Seq(LoopEvents) /\ e \in LoopEvents
    <3>1. Bare \subseteq LoopEvents BY DEF Bare
    <3> QED BY <2>5, <2>7, <3>1
  <2>10. MarksOf(started \o <<e>>) = Append(opens, Mark(e)) BY <2>7, <2>8, <2>9, MarksOfMore
  <2>11. opens \in Seq(Marks) /\ Mark(e) \in Marks BY <2>7, <2>9, MarksOfTyped, MarkTyped
  <2>12. Append(opens, Mark(e)) = opens \o <<Mark(e)>> BY <2>11
  <2> QED BY <2>1, <2>2, <2>6, <2>8, <2>10, <2>12
<1>13. CASE record.kind \in {"closed", "suspended", "resolution"}
  <2>1. (IF record.kind = "closed" THEN record.run ELSE fold.run) = record.run
    BY <1>2, <1>13 DEF Suits
  <2>2. p = <<Event(n, 0, record.kind, record.run)>>
    BY <1>4, <1>13, <2>1 DEF EntryKinds, QueueKinds
  <2>3. t = <<Triple(n, record.kind, record.run)>> BY <1>3, <1>13 DEF QueueKinds
  <2>4. record.kind \in EventKinds /\ record.kind # "preview" BY <1>8, <1>13
  <2> QED BY <1>1, <1>6, <1>8, <2>2, <2>3, <2>4, BareEvent
<1>14. CASE record.kind = "child"
  <2>1. p = <<Event(n, 0, "child", 0)>> BY <1>4, <1>14 DEF EntryKinds, QueueKinds
  <2>2. t = <<Triple(n, "child", 0)>> BY <1>3, <1>14 DEF QueueKinds
  <2> QED BY <1>1, <1>8, <2>1, <2>2, BareEvent
<1>15. CASE record.kind \in {"resume", "silent"}
  <2>1. p = <<>> /\ t = <<>> BY <1>3, <1>4, <1>15 DEF EntryKinds, QueueKinds
  <2>2. <<>> \in Seq(Bare) /\ DOMAIN <<>> = {}
    OBVIOUS
  <2>3. MarksOf(<<>>) = <<>> BY <2>2 DEF MarksOf
  <2> QED BY <2>1, <2>2, <2>3
<1> QED BY <1>6, <1>9, <1>10, <1>11, <1>12, <1>13, <1>14, <1>15 DEF RecordKinds, QueueKinds

-----------------------------------------------------------------------------
(***************************************************************************)
(* The journal: what is written fits what is before it.                    *)
(***************************************************************************)
LEMMA AdvanceParts ==
  ASSUME NEW fold \in Folds, NEW n \in Nat, NEW record \in Records
  PROVE  /\ Advance(fold, n, record).run =
              IF record.kind = "opened" THEN record.run
              ELSE IF record.kind = "closed" THEN 0 ELSE fold.run
         /\ Advance(fold, n, record).pending =
              IF record.kind = "opened" THEN <<>>
              ELSE IF record.kind = "resume" THEN Append(fold.pending, n) ELSE fold.pending
         /\ Advance(fold, n, record).known =
              IF record.kind = "accepted" THEN fold.known \union Range(record.queues) ELSE fold.known
<1> DEFINE more == Append(fold.pending, n)
           none == <<>>
           all == fold.known \union Range(record.queues)
           one == [fold EXCEPT !.last = n]
<1>1. fold = [run |-> fold.run, pending |-> fold.pending, known |-> fold.known,
              last |-> fold.last, ordinal |-> fold.ordinal, dropped |-> fold.dropped]
  BY DEF Folds
<1>2. Advance(fold, n, record) =
        CASE record.kind = "opened" -> [one EXCEPT !.run = record.run, !.pending = none]
          [] record.kind = "closed" -> [one EXCEPT !.run = 0]
          [] record.kind = "resume" -> [one EXCEPT !.pending = more]
          [] record.kind = "accepted" -> [one EXCEPT !.known = all]
          [] OTHER -> one
  <2>1. one.pending = fold.pending /\ one.known = fold.known BY <1>1
  <2> QED BY <2>1 DEF Advance
<1>3. one = [run |-> fold.run, pending |-> fold.pending, known |-> fold.known,
             last |-> n, ordinal |-> fold.ordinal, dropped |-> fold.dropped]
  BY <1>1
<1> HIDE DEF more, none, all, one
<1>4. CASE record.kind = "opened" BY <1>2, <1>3, <1>4 DEF none
<1>5. CASE record.kind = "closed" BY <1>2, <1>3, <1>5
<1>6. CASE record.kind = "resume" BY <1>2, <1>3, <1>6 DEF more
<1>7. CASE record.kind = "accepted" BY <1>2, <1>3, <1>7 DEF all
<1>8. CASE record.kind \notin {"opened", "closed", "resume", "accepted"} BY <1>2, <1>3, <1>8
<1> QED BY <1>4, <1>5, <1>6, <1>7, <1>8

\* Every record fits what is before it, and the fold is that of all of them.
Told(records, fold) ==
  /\ records \in Seq(Records) /\ fold \in Folds
  /\ fold = Folded(records)[Len(records)]
  /\ \A n \in 1..Len(records) : Attributed(records, n)
  /\ \A n \in 1..Len(records) :
       records[n].kind = "accepted" => Range(records[n].queues) \subseteq fold.known

LEMMA SuitsMore ==
  ASSUME NEW records \in Seq(Records), NEW more \in Seq(Records), NEW fold, NEW record,
         NEW n \in 1..(Len(records) + 1)
  PROVE  Suits(fold, records \o more, n, record) <=> Suits(fold, records, n, record)
<1> DEFINE all == records \o more
<1>1. \A i \in 1..(n - 1) : all[i] = records[i]
  OBVIOUS
<1> HIDE DEF all
<1>2. {i \in 1..(n - 1) : all[i].kind = "resume" /\ all[i].run = record.run}
        = {i \in 1..(n - 1) : records[i].kind = "resume" /\ records[i].run = record.run}
  BY <1>1
<1>3. Suits(fold, all, n, record) <=> Suits(fold, records, n, record) BY <1>2 DEF Suits
<1> QED BY <1>3 DEF all

\* One more record that fits.
LEMMA ToldMore ==
  ASSUME NEW records, NEW fold, Told(records, fold),
         NEW record \in Records, Suits(fold, records, Len(records) + 1, record)
  PROVE  Told(Append(records, record), Advance(fold, Len(records) + 1, record))
<1> DEFINE all == Append(records, record)
           more == <<record>>
           last == Len(records) + 1
           next == Advance(fold, last, record)
<1>1. /\ records \in Seq(Records) /\ fold \in Folds /\ fold = Folded(records)[Len(records)]
      /\ \A n \in 1..Len(records) : Attributed(records, n)
      /\ \A n \in 1..Len(records) :
           records[n].kind = "accepted" => Range(records[n].queues) \subseteq fold.known
  BY DEF Told
<1>2. /\ more \in Seq(Records) /\ all = records \o more /\ all \in Seq(Records)
      /\ Len(all) = last /\ last \in Nat /\ Len(records) \in Nat /\ last - 1 = Len(records)
      /\ \A n \in 1..Len(records) : all[n] = records[n]
      /\ all[last] = record
  BY <1>1
<1> HIDE DEF all, more
<1>3. \A n \in 0..Len(records) : Folded(all)[n] = Folded(records)[n]
  BY <1>1, <1>2, FoldedGrows
<1>4. Folded(all)[last] = next
  <2>1. last \in 1..Len(all) /\ Len(records) \in 0..Len(records) BY <1>2
  <2>2. Folded(all)[last] = Advance(Folded(all)[last - 1], last, all[last])
    BY <1>2, <2>1, FoldedSteps
  <2> QED BY <1>1, <1>2, <1>3, <2>1, <2>2
<1>5. next \in Folds BY <1>1, <1>2, AdvanceTyped
<1>6. ASSUME NEW n \in 1..Len(all)
      PROVE  Attributed(all, n)
  <2>1. CASE n <= Len(records)
    <3>1. n \in 1..Len(records) /\ n \in 1..(Len(records) + 1) /\ n - 1 \in 0..Len(records)
      BY <1>2, <2>1
    <3>2. Suits(Folded(all)[n - 1], records, n, all[n])
      BY <1>1, <1>2, <1>3, <3>1 DEF Attributed
    <3>3. Suits(Folded(all)[n - 1], records \o more, n, all[n])
      BY <1>1, <1>2, <3>1, <3>2, SuitsMore
    <3> QED BY <1>2, <3>3 DEF Attributed
  <2>2. CASE n = last
    <3>1. last \in 1..(Len(records) + 1) /\ Len(records) \in 0..Len(records) BY <1>2
    <3>2. Suits(fold, records \o more, last, record) BY <1>1, <1>2, <3>1, SuitsMore
    <3>3. Folded(all)[n - 1] = fold BY <1>1, <1>2, <1>3, <2>2, <3>1
    <3> QED BY <1>2, <2>2, <3>2, <3>3 DEF Attributed
  <2> QED BY <1>2, <2>1, <2>2
<1>7. ASSUME NEW n \in 1..Len(all), all[n].kind = "accepted"
      PROVE  Range(all[n].queues) \subseteq next.known
  <2>1. next.known = IF record.kind = "accepted" THEN fold.known \union Range(record.queues) ELSE fold.known
    <3>1. fold \in Folds /\ last \in Nat BY <1>1, <1>2
    <3> HIDE DEF last
    <3> QED BY <3>1, AdvanceParts
  <2>2. CASE n <= Len(records) BY <1>1, <1>2, <1>7, <2>1, <2>2
  <2>3. CASE n = last BY <1>2, <1>7, <2>1, <2>3
  <2> QED BY <1>2, <2>2, <2>3
<1> HIDE DEF next
<1>8. Told(all, next) BY <1>2, <1>4, <1>5, <1>6, <1>7 DEF Told
<1> QED BY <1>8 DEF all, next

Drives == {"idle", "running", "suspending", "suspended"}
End(records) == Folded(records)[Len(records)]

JournalHolds(records, at, count) ==
  /\ Told(records, End(records))
  /\ at \in Drives /\ count \in Nat
  /\ End(records).pending = <<>>
  /\ End(records).run = IF at = "idle" THEN 0 ELSE count
  /\ \A n \in 1..Len(records) : records[n].kind = "resume" => records[n].run <= count
  /\ records = <<>> => count = 0

\* What is written whole and neither opens, closes nor resumes a run.
LEMMA WriteRests ==
  ASSUME NEW records, NEW at, NEW next \in Drives, NEW count, JournalHolds(records, at, count),
         next = "idle" <=> at = "idle",
         NEW record \in Records, record.kind \notin {"opened", "closed", "resume"},
         Suits(End(records), records, Len(records) + 1, record)
  PROVE  /\ JournalHolds(Append(records, record), next, count)
         /\ End(records).known \subseteq End(Append(records, record)).known
<1> DEFINE all == Append(records, record)
           last == Len(records) + 1
           fold == Advance(End(records), last, record)
<1>1. Told(records, End(records)) /\ records \in Seq(Records) /\ End(records) \in Folds
  BY DEF JournalHolds, Told
<1>2. Told(all, fold) BY <1>1, ToldMore
<1>3. fold = End(all) BY <1>2 DEF Told, End
<1>4. last \in Nat /\ all # <<>> /\ Len(all) = last /\ all[last] = record
      /\ \A n \in 1..Len(records) : all[n] = records[n]
  BY <1>1
<1>5. fold.run = End(records).run /\ fold.pending = End(records).pending
      /\ End(records).known \subseteq fold.known
  BY <1>1, <1>4, AdvanceParts
<1>6. \A n \in 1..Len(all) : all[n].kind = "resume" => all[n].run <= count
  <2>1. \A n \in 1..Len(records) : records[n].kind = "resume" => records[n].run <= count
    BY DEF JournalHolds
  <2>2. \A n \in 1..Len(all) : n \in 1..Len(records) \/ n = last BY <1>1, <1>4
  <2> QED BY <1>4, <2>1, <2>2
<1> HIDE DEF all, fold
<1>7. JournalHolds(all, next, count) BY <1>2, <1>3, <1>4, <1>5, <1>6 DEF JournalHolds
<1> QED BY <1>3, <1>5, <1>7 DEF all

LEMMA AppendParts ==
  ASSUME NEW records \in Seq(Records), NEW record \in Records
  PROVE  /\ Append(records, record) \in Seq(Records) /\ Append(records, record) # <<>>
         /\ Len(Append(records, record)) = Len(records) + 1
         /\ Append(records, record)[Len(records) + 1] = record
         /\ \A n \in 1..Len(records) : Append(records, record)[n] = records[n]
         /\ \A n \in 1..(Len(records) + 1) : n \in 1..Len(records) \/ n = Len(records) + 1
OBVIOUS

LEMMA SameRecords ==
  ASSUME NEW s \in Seq(Records), NEW t \in Seq(Records), Len(s) = Len(t), \A i \in 1..Len(s) : s[i] = t[i]
  PROVE  s = t
OBVIOUS

LEMMA AppendToRecords ==
  ASSUME NEW s \in Seq(Records), NEW t \in Seq(Records), NEW x \in Records
  PROVE  Append(s \o t, x) = s \o Append(t, x)
<1> DEFINE one == Append(s \o t, x)
           other == s \o Append(t, x)
<1>1. /\ one \in Seq(Records) /\ other \in Seq(Records)
      /\ Len(one) = Len(other) /\ Len(one) = Len(s) + Len(t) + 1
      /\ Len(s) \in Nat /\ Len(t) \in Nat
  OBVIOUS
<1>2. ASSUME NEW i \in 1..Len(one) PROVE one[i] = other[i]
  <2>1. CASE i <= Len(s) BY <1>1, <2>1
  <2>2. CASE i > Len(s) /\ i <= Len(s) + Len(t) BY <1>1, <2>2
  <2>3. CASE i = Len(s) + Len(t) + 1 BY <1>1, <2>3
  <2> QED BY <1>1, <2>1, <2>2, <2>3
<1> HIDE DEF one, other
<1>3. one = other BY <1>1, <1>2, SameRecords
<1> QED BY <1>3 DEF one, other

\* The queues of an injection are known, and are drained before it.
LEMMA DrainedHolds ==
  ASSUME NEW records, NEW count, JournalHolds(records, "running", count),
         NEW due \in Seq(Nat), \A i \in 1..Len(due) : due[i] \in End(records).known
  PROVE  JournalHolds(records \o [i \in 1..Len(due) |-> Written("drained", count, <<due[i]>>)]
                        \o <<Written("injected", count, due)>>, "running", count)
<1> DEFINE drained == [i \in 1..Len(due) |-> Written("drained", count, <<due[i]>>)]
           Earlier(k) == records \o SubSeq(drained, 1, k)
           Good(k) == JournalHolds(Earlier(k), "running", count) /\ End(records).known \subseteq End(Earlier(k)).known
           S == {k \in 0..Len(due) : Good(k)}
<1>1. records \in Seq(Records) /\ count \in Nat /\ Len(due) \in Nat /\ \A i \in 1..Len(due) : due[i] \in Nat
  BY DEF JournalHolds, Told
<1>2. ASSUME NEW i \in 1..Len(due)
      PROVE  drained[i] \in Records /\ drained[i].kind = "drained" /\ drained[i].run = count
             /\ Range(drained[i].queues) = {due[i]}
  <2>1. drained[i] = [kind |-> "drained", run |-> count, queues |-> <<due[i]>>]
    BY DEF Written
  <2>2. <<due[i]>> \in Seq(Nat) /\ Range(<<due[i]>>) = {due[i]}
    <3>1. DOMAIN <<due[i]>> = {1} /\ <<due[i]>>[1] = due[i]
      OBVIOUS
    <3> QED BY <1>1, <3>1 DEF Range
  <2> DEFINE q == <<due[i]>>
  <2>3. q \in Seq(Nat) /\ Range(q) = {due[i]} BY <2>2
  <2>4. drained[i] = [kind |-> "drained", run |-> count, queues |-> q] BY <2>1
  <2> HIDE DEF q, drained
  <2> QED BY <1>1, <2>3, <2>4 DEF Records, RecordKinds
<1>3. drained \in Seq(Records) /\ Len(drained) = Len(due)
  <2>1. drained \in [1..Len(due) -> Records] BY <1>2
  <2> HIDE DEF drained
  <2>2. drained \in Seq(Records) BY <1>1, <2>1
  <2> QED BY <1>1, <2>1, <2>2
<1> HIDE DEF drained
<1>4. 0 \in S
  <2>1. Earlier(0) = records BY <1>1, <1>3
  <2> HIDE DEF Earlier
  <2>2. Good(0) BY <2>1
  <2>3. 0 \in 0..Len(due) BY <1>1
  <2> HIDE DEF Good
  <2> QED BY <2>2, <2>3
<1>5. ASSUME NEW k \in 1..Len(due), k - 1 \in S PROVE k \in S
  <2> DEFINE before == Earlier(k - 1)
  <2>1. JournalHolds(before, "running", count) /\ End(records).known \subseteq End(before).known
    BY <1>5
  <2>2. Earlier(k) = Append(before, drained[k])
    <3> DEFINE part == SubSeq(drained, 1, k - 1)
    <3>1. SubSeq(drained, 1, k) = Append(part, drained[k]) BY <1>3
    <3>2. part \in Seq(Records) BY <1>3
    <3> HIDE DEF part
    <3>3. records \o Append(part, drained[k]) = Append(records \o part, drained[k])
      BY <1>1, <1>2, <3>2, AppendToRecords
    <3> QED BY <3>1, <3>3 DEF part
  <2> HIDE DEF before
  <2>3. Suits(End(before), before, Len(before) + 1, drained[k])
    <3>1. End(before).run = count BY <2>1 DEF JournalHolds
    <3> QED BY <1>2, <2>1, <3>1 DEF Suits
  <2>4. JournalHolds(Append(before, drained[k]), "running", count)
        /\ End(before).known \subseteq End(Append(before, drained[k])).known
    <3>1. "running" \in Drives /\ drained[k] \in Records /\ drained[k].kind \notin {"opened", "closed", "resume"}
      BY <1>2 DEF Drives
    <3> QED BY <2>1, <2>3, <3>1, WriteRests
  <2> HIDE DEF Earlier
  <2>5. Good(k) BY <2>1, <2>2, <2>4
  <2>6. k \in 0..Len(due) BY <1>1
  <2> HIDE DEF Good
  <2> QED BY <2>5, <2>6
<1>6. Len(due) \in S
  <2>1. Len(due) \in 0..Len(due) BY <1>1
  <2> HIDE DEF S
  <2> QED BY <1>1, <1>4, <1>5, <2>1, Climb
<1>7. Earlier(Len(due)) = records \o drained
  <2>1. SubSeq(drained, 1, Len(drained)) = drained BY <1>3
  <2> QED BY <1>3, <2>1
<1> DEFINE before == records \o drained
           record == Written("injected", count, due)
<1>8. JournalHolds(before, "running", count) /\ End(records).known \subseteq End(before).known
  BY <1>6, <1>7
<1>9. record \in Records /\ record.kind = "injected" /\ record.run = count /\ record.queues = due
  BY <1>1 DEF Written, Records, RecordKinds
<1>10. before \in Seq(Records) /\ before \o <<record>> = Append(before, record)
  BY <1>1, <1>3, <1>9
<1> HIDE DEF before, record
<1>11. Suits(End(before), before, Len(before) + 1, record)
  <2>1. End(before).run = count BY <1>8 DEF JournalHolds
  <2>2. Range(due) \subseteq End(before).known BY <1>8 DEF Range
  <2> QED BY <1>9, <2>1, <2>2 DEF Suits
<1>12. JournalHolds(Append(before, record), "running", count)
  <2>1. "running" \in Drives /\ record.kind \notin {"opened", "closed", "resume"}
    BY <1>9 DEF Drives
  <2> QED BY <1>8, <1>9, <1>11, <2>1, WriteRests
<1> QED BY <1>10, <1>12 DEF before, record, drained

\* A run opens: what was buffered for it is nothing.
LEMMA StartHolds ==
  ASSUME NEW records, NEW count, JournalHolds(records, "idle", count)
  PROVE  JournalHolds(records \o <<Written("opened", count + 1, <<>>), Written("prompt", count + 1, <<>>)>>,
                      "running", count + 1)
<1> DEFINE run == count + 1
           opened == Written("opened", run, <<>>)
           prompt == Written("prompt", run, <<>>)
           end == End(records)
           last == Len(records) + 1
           one == Append(records, opened)
           fold == Advance(end, last, opened)
<1>1. /\ Told(records, end) /\ records \in Seq(Records) /\ end \in Folds /\ end.pending = <<>> /\ count \in Nat
      /\ run \in Nat /\ last \in Nat /\ Len(records) \in Nat /\ last - 1 = Len(records)
      /\ \A n \in 1..Len(records) : records[n].kind = "resume" => records[n].run <= count
  BY DEF JournalHolds, Told
<1>2. /\ opened \in Records /\ opened.kind = "opened" /\ opened.run = run
      /\ prompt \in Records /\ prompt.kind = "prompt" /\ prompt.run = run
  BY <1>1 DEF Written, Records, RecordKinds
<1> HIDE DEF opened, prompt, end
<1>3. Suits(end, records, last, opened)
  <2>1. \A i \in 1..(last - 1) : ~(records[i].kind = "resume" /\ records[i].run = run)
    BY <1>1
  <2>2. Sorted({i \in 1..(last - 1) : records[i].kind = "resume" /\ records[i].run = opened.run}, last - 1) = <<>>
    BY <1>1, <1>2, <2>1, SortedParts
  <2> QED BY <1>1, <1>2, <2>2 DEF Suits
<1>4. Told(one, fold) BY <1>1, <1>2, <1>3, ToldMore
<1>5. fold.run = run /\ fold.pending = <<>>
  <2> HIDE DEF last
  <2> QED BY <1>1, <1>2, AdvanceParts
<1>6. one \in Seq(Records) /\ Len(one) = last /\ one # <<>> /\ one[last] = opened
      /\ \A n \in 1..Len(records) : one[n] = records[n]
  <2>1. records \in Seq(Records) /\ opened \in Records BY <1>1, <1>2
  <2> QED BY <2>1, AppendParts
<1>7. JournalHolds(one, "running", run)
  <2>1. fold = End(one) BY <1>4 DEF Told, End
  <2>2. \A n \in 1..Len(one) : one[n].kind = "resume" => one[n].run <= run
    <3>1. \A n \in 1..Len(one) : n \in 1..Len(records) \/ n = last BY <1>1, <1>6
    <3>2. \A n \in 1..Len(records) : records[n].kind = "resume" => records[n].run <= run
      <4> TAKE n \in 1..Len(records)
      <4> HAVE records[n].kind = "resume"
      <4>1. records[n].run <= count /\ records[n] \in Records BY <1>1
      <4> DEFINE x == records[n].run
      <4>2. x <= count /\ x \in Nat BY <4>1 DEF Records
      <4> HIDE DEF x
      <4>3. x <= run BY <1>1, <4>2
      <4> QED BY <4>3 DEF x
    <3> QED BY <1>2, <1>6, <3>1, <3>2
  <2> HIDE DEF one, fold, run
  <2> QED BY <1>1, <1>4, <1>5, <1>6, <2>1, <2>2 DEF JournalHolds, Drives
<1>8. one \o <<prompt>> = records \o <<opened, prompt>> /\ one \o <<prompt>> = Append(one, prompt)
  BY <1>1, <1>2
<1> HIDE DEF one, fold, run
<1>9. Suits(End(one), one, Len(one) + 1, prompt)
  <2>1. End(one).run = run BY <1>7 DEF JournalHolds
  <2> QED BY <1>2, <2>1 DEF Suits
<1>10. JournalHolds(Append(one, prompt), "running", run)
  <2>1. "running" \in Drives /\ prompt.kind \notin {"opened", "closed", "resume"}
    BY <1>2 DEF Drives
  <2> QED BY <1>2, <1>7, <1>9, <2>1, WriteRests
<1> QED BY <1>8, <1>10 DEF opened, prompt, run

\* A run closes.
LEMMA CloseHolds ==
  ASSUME NEW records, NEW at, NEW count, JournalHolds(records, at, count)
  PROVE  JournalHolds(Append(records, Written("closed", count, <<>>)), "idle", count)
<1> DEFINE closed == Written("closed", count, <<>>)
           end == End(records)
           last == Len(records) + 1
           one == Append(records, closed)
           fold == Advance(end, last, closed)
<1>1. /\ Told(records, end) /\ records \in Seq(Records) /\ end \in Folds /\ end.pending = <<>> /\ count \in Nat
      /\ last \in Nat
      /\ \A n \in 1..Len(records) : records[n].kind = "resume" => records[n].run <= count
  BY DEF JournalHolds, Told
<1>2. closed \in Records /\ closed.kind = "closed" BY <1>1 DEF Written, Records, RecordKinds
<1> HIDE DEF closed, end
<1>3. Suits(end, records, last, closed) BY <1>2 DEF Suits
<1>4. Told(one, fold) BY <1>1, <1>2, <1>3, ToldMore
<1>5. fold.run = 0 /\ fold.pending = <<>>
  <2> HIDE DEF last
  <2> QED BY <1>1, <1>2, AdvanceParts
<1>6. /\ one # <<>> /\ Len(one) = last /\ one[last] = closed
      /\ \A n \in 1..Len(records) : one[n] = records[n]
      /\ \A n \in 1..last : n \in 1..Len(records) \/ n = last
  BY <1>1, <1>2, AppendParts
<1>7. JournalHolds(one, "idle", count)
  <2>1. fold = End(one) BY <1>4 DEF Told, End
  <2>2. \A n \in 1..Len(one) : one[n].kind = "resume" => one[n].run <= count
    BY <1>1, <1>2, <1>6
  <2> HIDE DEF one, fold
  <2> QED BY <1>1, <1>4, <1>5, <1>6, <2>1, <2>2 DEF JournalHolds, Drives
<1> QED BY <1>7 DEF one, closed

\* A suspended run is closed and goes on as another: the resume's entry is
\* buffered for the run that opens next.
LEMMA ResumeHolds ==
  ASSUME NEW records, NEW count, JournalHolds(records, "suspended", count)
  PROVE  JournalHolds(records \o <<Written("resolution", count, <<>>), Written("closed", count, <<>>),
                                   Written("resume", count + 1, <<>>), Written("opened", count + 1, <<>>)>>,
                      "running", count + 1)
<1> DEFINE run == count + 1
           resolution == Written("resolution", count, <<>>)
           closed == Written("closed", count, <<>>)
           resume == Written("resume", run, <<>>)
           opened == Written("opened", run, <<>>)
           one == Append(records, resolution)
           two == Append(one, closed)
           three == Append(two, resume)
           four == Append(three, opened)
<1>1. records \in Seq(Records) /\ count \in Nat /\ run \in Nat /\ ~(run <= count) /\ End(records).run = count
  BY DEF JournalHolds, Told
<1>2. /\ resolution \in Records /\ resolution.kind = "resolution" /\ resolution.run = count
      /\ closed \in Records
      /\ resume \in Records /\ resume.kind = "resume" /\ resume.run = run
      /\ opened \in Records /\ opened.kind = "opened" /\ opened.run = run
  BY <1>1 DEF Written, Records, RecordKinds
<1>3. four = records \o <<resolution, closed, resume, opened>>
  <2> HIDE DEF resolution, closed, resume, opened
  <2> QED BY <1>1, <1>2
<1>4. JournalHolds(one, "suspended", count)
  <2>1. Suits(End(records), records, Len(records) + 1, resolution) BY <1>1, <1>2 DEF Suits
  <2>2. "suspended" \in Drives /\ resolution.kind \notin {"opened", "closed", "resume"}
    BY <1>2 DEF Drives
  <2> HIDE DEF resolution
  <2> QED BY <1>2, <2>1, <2>2, WriteRests
<1>5. JournalHolds(two, "idle", count)
  <2> HIDE DEF one
  <2> QED BY <1>4, CloseHolds
<1> HIDE DEF two
<1>6. /\ Told(two, End(two)) /\ two \in Seq(Records) /\ End(two) \in Folds /\ End(two).pending = <<>>
      /\ \A n \in 1..Len(two) : two[n].kind = "resume" => two[n].run <= count
      /\ Len(two) \in Nat
  BY <1>5 DEF JournalHolds, Told
<1> DEFINE second == Advance(End(two), Len(two) + 1, resume)
           third == Advance(second, Len(three) + 1, opened)
<1> HIDE DEF resume, opened, run
<1>7. Told(three, second)
  <2>1. Suits(End(two), two, Len(two) + 1, resume) BY <1>2 DEF Suits
  <2> QED BY <1>2, <1>6, <2>1, ToldMore
<1>8. second.pending = <<Len(two) + 1>>
  <2> DEFINE last == Len(two) + 1
  <2>1. last \in Nat BY <1>6
  <2> HIDE DEF last
  <2>2. Advance(End(two), last, resume).pending = Append(End(two).pending, last)
    BY <1>2, <1>6, <2>1, AdvanceParts
  <2>3. Append(<<>>, last) = <<last>>
    OBVIOUS
  <2> QED BY <1>6, <2>2, <2>3 DEF last
<1>9. /\ three \in Seq(Records) /\ Len(three) = Len(two) + 1 /\ three[Len(two) + 1] = resume
      /\ \A n \in 1..Len(two) : three[n] = two[n]
      /\ \A n \in 1..(Len(two) + 1) : n \in 1..Len(two) \/ n = Len(two) + 1
  BY <1>2, <1>6, AppendParts
<1> HIDE DEF three
<1>10. Suits(second, three, Len(three) + 1, opened)
  <2> DEFINE last == Len(three)
             positions == {i \in 1..last : three[i].kind = "resume" /\ three[i].run = run}
  <2>1. last \in Nat /\ last \in 1..last /\ last = Len(two) + 1 /\ (last + 1) - 1 = last
    BY <1>6, <1>9
  <2>2. \A k \in 1..last : k \in positions <=> k = last
    <3> TAKE k \in 1..last
    <3>1. k \in 1..Len(two) \/ k = last BY <1>9, <2>1
    <3>2. last \in positions BY <1>2, <1>9, <2>1
    <3>3. k \in 1..Len(two) => k \notin positions /\ k # last
      <4> HAVE k \in 1..Len(two)
      <4>1. three[k] = two[k] /\ (two[k].kind = "resume" => two[k].run <= count)
        BY <1>6, <1>9
      <4>2. k # last BY <1>6, <2>1
      <4> QED BY <1>1, <4>1, <4>2
    <3> QED BY <3>1, <3>2, <3>3
  <2> HIDE DEF last, positions
  <2>3. Sorted(positions, last) = <<last>> BY <2>1, <2>2, SortedParts
  <2> QED BY <1>2, <1>8, <2>1, <2>3 DEF Suits, last, positions
<1>11. Told(four, third) BY <1>2, <1>7, <1>10, ToldMore
<1>12. third.run = run /\ third.pending = <<>>
  <2>1. second \in Folds BY <1>7 DEF Told
  <2> DEFINE last == Len(three) + 1
  <2>2. last \in Nat BY <1>6, <1>9
  <2> HIDE DEF last, second
  <2>3. Advance(second, last, opened).run = run /\ Advance(second, last, opened).pending = <<>>
    BY <1>2, <2>1, <2>2, AdvanceParts
  <2> QED BY <2>3 DEF last
<1>13. /\ four # <<>> /\ Len(four) = Len(three) + 1 /\ four[Len(three) + 1] = opened
       /\ \A n \in 1..Len(three) : four[n] = three[n]
       /\ \A n \in 1..(Len(three) + 1) : n \in 1..Len(three) \/ n = Len(three) + 1
  BY <1>2, <1>9, AppendParts
<1>14. \A n \in 1..Len(four) : four[n].kind = "resume" => four[n].run <= run
  <2>1. \A n \in 1..Len(two) : two[n].kind = "resume" => two[n].run <= run
    <3> TAKE n \in 1..Len(two)
    <3> HAVE two[n].kind = "resume"
    <3>1. two[n].run <= count /\ two[n] \in Records BY <1>6
    <3> DEFINE x == two[n].run
    <3>2. x <= count /\ x \in Nat BY <3>1 DEF Records
    <3> HIDE DEF x
    <3>3. x <= run BY <1>1, <3>2 DEF run
    <3> QED BY <3>3 DEF x
  <2>2. run <= run BY <1>1
  <2> QED BY <1>2, <1>9, <1>13, <2>1, <2>2
<1>15. JournalHolds(four, "running", run)
  <2>1. third = End(four) BY <1>11 DEF Told, End
  <2> HIDE DEF four, third
  <2> QED BY <1>1, <1>11, <1>12, <1>13, <1>14, <2>1 DEF JournalHolds, Drives
<1> QED BY <1>3, <1>15 DEF run, resume, opened

-----------------------------------------------------------------------------
(***************************************************************************)
(* The session's steps.                                                    *)
(***************************************************************************)
JournalInv == JournalHolds(journal, drive, runs)
AddsRecords == \E batch \in Seq(Records) : batch # <<>> /\ Write(batch)

LEMMA WrittenTyped ==
  ASSUME NEW kind \in RecordKinds, NEW of \in Nat, NEW queues \in Seq(Nat)
  PROVE  /\ Written(kind, of, queues) \in Records /\ Written(kind, of, queues).kind = kind
         /\ Written(kind, of, queues).run = of /\ Written(kind, of, queues).queues = queues
BY DEF Written, Records

\* One record that changes no run.
LEMMA WriteOne ==
  ASSUME JournalInv, NEW record \in Records, Write(<<record>>),
         record.kind \notin {"opened", "closed", "resume"},
         Suits(End(journal), journal, Len(journal) + 1, record),
         NEW next \in Drives, next = "idle" <=> drive = "idle"
  PROVE  JournalHolds(journal', next, runs) /\ AddsRecords
<1>1. journal \in Seq(Records) BY DEF JournalInv, JournalHolds, Told
<1>2. <<record>> \in Seq(Records) /\ <<record>> # <<>>
  OBVIOUS
<1>3. journal' = Append(journal, record) BY <1>1 DEF Write
<1>4. JournalHolds(Append(journal, record), next, runs) BY WriteRests DEF JournalInv
<1> QED BY <1>2, <1>3, <1>4 DEF AddsRecords

LEMMA JournalTyped ==
  ASSUME JournalInv
  PROVE  /\ journal \in Seq(Records) /\ drive \in Drives /\ runs \in Nat
         /\ End(journal).run = (IF drive = "idle" THEN 0 ELSE runs)
         /\ (journal = <<>> => runs = 0)
         /\ \A n \in 1..Len(journal) :
              journal[n].kind = "accepted" => Range(journal[n].queues) \subseteq End(journal).known
BY DEF JournalInv, JournalHolds, Told

LEMMA BothBatches ==
  ASSUME NEW a \in Seq(Records), NEW b \in Seq(Records), NEW c \in Seq(Records), c # <<>>
  PROVE  a \o b \o c = a \o (b \o c) /\ b \o c \in Seq(Records) /\ b \o c # <<>>
<1> DEFINE one == a \o b \o c
           other == a \o (b \o c)
<1>1. /\ one \in Seq(Records) /\ other \in Seq(Records)
      /\ Len(one) = Len(other) /\ Len(one) = Len(a) + Len(b) + Len(c)
      /\ Len(a) \in Nat /\ Len(b) \in Nat /\ Len(c) \in Nat
  OBVIOUS
<1>2. ASSUME NEW i \in 1..Len(one) PROVE one[i] = other[i]
  <2>1. CASE i <= Len(a) BY <1>1, <2>1
  <2>2. CASE i > Len(a) /\ i <= Len(a) + Len(b) BY <1>1, <2>2
  <2>3. CASE i > Len(a) + Len(b) BY <1>1, <2>3
  <2> QED BY <1>1, <2>1, <2>2, <2>3
<1> HIDE DEF one, other
<1>3. one = other BY <1>1, <1>2, SameRecords
<1>4. b \o c \in Seq(Records) /\ Len(b \o c) # 0
  <2>1. Len(c) # 0 /\ Len(c) \in Nat /\ Len(b) \in Nat
    OBVIOUS
  <2> QED BY <2>1
<1>5. b \o c # <<>> BY <1>4
<1> QED BY <1>3, <1>4, <1>5 DEF one, other

LEMMA HistoryStep ==
  ASSUME JournalInv, WriteHistory
  PROVE  JournalInv' /\ AddsRecords
<1> DEFINE record == Written("history", runs, <<>>)
<1>1. /\ runs = 0 /\ drive \in Drives
      /\ Write(<<record>>) /\ drive' = drive /\ runs' = runs
  BY JournalTyped DEF WriteHistory, Plain
<1>2. record \in Records /\ record.kind = "history" /\ record.run = 0
  BY <1>1 DEF Written, Records, RecordKinds
<1> HIDE DEF record
<1>3. Suits(End(journal), journal, Len(journal) + 1, record) BY <1>2 DEF Suits
<1> QED BY <1>1, <1>2, <1>3, WriteOne DEF JournalInv

LEMMA StartStep ==
  ASSUME JournalInv, WriteStart
  PROVE  JournalInv' /\ AddsRecords
<1> DEFINE batch == <<Written("opened", runs + 1, <<>>), Written("prompt", runs + 1, <<>>)>>
<1>1. drive = "idle" /\ runs' = runs + 1 /\ drive' = "running" /\ Write(batch) /\ runs \in Nat
  BY JournalTyped DEF WriteStart
<1>2. JournalHolds(journal \o batch, "running", runs + 1) BY <1>1, StartHolds DEF JournalInv
<1>3. batch \in Seq(Records) /\ batch # <<>>
  <2>1. Written("opened", runs + 1, <<>>) \in Records /\ Written("prompt", runs + 1, <<>>) \in Records
    BY <1>1 DEF Written, Records, RecordKinds
  <2> QED BY <2>1
<1>4. journal' = journal \o batch BY <1>1 DEF Write
<1> HIDE DEF batch
<1> QED BY <1>1, <1>2, <1>3, <1>4 DEF JournalInv, AddsRecords

LEMMA AcceptedStep ==
  ASSUME JournalInv, WriteAccepted
  PROVE  JournalInv' /\ AddsRecords
<1> DEFINE of == IF drive = "idle" THEN 0 ELSE runs
           queues == <<Len(journal) + 1>>
           record == Written("accepted", of, queues)
<1>1. /\ drive \in Drives /\ runs \in Nat /\ journal \in Seq(Records) /\ End(journal).run = of
      /\ Write(<<record>>) /\ drive' = drive /\ runs' = runs
  BY JournalTyped DEF WriteAccepted
<1>2. record \in Records /\ record.kind = "accepted" /\ record.run = of
  <2>1. of \in Nat /\ queues \in Seq(Nat) BY <1>1
  <2> HIDE DEF of, queues
  <2> QED BY <2>1, WrittenTyped DEF RecordKinds
<1> HIDE DEF record, of
<1>3. Suits(End(journal), journal, Len(journal) + 1, record) BY <1>1, <1>2 DEF Suits
<1> QED BY <1>1, <1>2, <1>3, WriteOne DEF JournalInv

LEMMA InjectedStep ==
  ASSUME JournalInv, WriteInjected
  PROVE  JournalInv' /\ AddsRecords
<1> DEFINE due == Sorted(Waiting, Len(journal))
           drained == [i \in 1..Len(due) |-> Written("drained", runs, <<due[i]>>)]
           injected == <<Written("injected", runs, due)>>
           batch == drained \o injected
<1>1. /\ drive = "running" /\ runs \in Nat /\ journal \in Seq(Records) /\ Len(journal) \in Nat
      /\ drive' = drive /\ runs' = runs
  BY JournalTyped DEF WriteInjected
<1>2. due \in Seq(Nat) /\ \A i \in 1..Len(due) : due[i] \in Waiting
  <2>1. due \in Seq(Nat) /\ \A i \in DOMAIN due : due[i] \in Waiting BY <1>1, SortedParts
  <2> HIDE DEF due
  <2> QED BY <2>1
<1>3. Write(batch)
  <2>1. DOMAIN due = 1..Len(due) BY <1>2
  <2>2. Write([i \in DOMAIN due |-> Written("drained", runs, <<due[i]>>)] \o <<Written("injected", runs, due)>>)
    BY DEF WriteInjected
  <2> QED BY <2>1, <2>2
<1>4. Waiting \subseteq End(journal).known
  <2>1. ASSUME NEW x \in Waiting PROVE x \in End(journal).known
    <3>1. x \in QueuesOf("accepted") BY <2>1 DEF Waiting
    <3>2. PICK n \in Positions("accepted") : x \in Range(journal[n].queues)
      BY <3>1 DEF QueuesOf
    <3>3. n \in 1..Len(journal) /\ journal[n].kind = "accepted" BY <1>1, <3>2 DEF Positions
    <3> QED BY <3>2, <3>3, JournalTyped
  <2> QED BY <2>1
<1> HIDE DEF due
<1>5. drained \in Seq(Records) /\ injected \in Seq(Records)
  <2>1. \A i \in 1..Len(due) : Written("drained", runs, <<due[i]>>) \in Records
    <3> TAKE i \in 1..Len(due)
    <3> DEFINE q == <<due[i]>>
    <3>1. q \in Seq(Nat) BY <1>2
    <3> HIDE DEF q
    <3>2. Written("drained", runs, q) \in Records
      BY <1>1, <3>1, WrittenTyped DEF RecordKinds
    <3> QED BY <3>2 DEF q
  <2>2. Written("injected", runs, due) \in Records
    BY <1>1, <1>2, WrittenTyped DEF RecordKinds
  <2>3. drained \in [1..Len(due) -> Records] /\ Len(due) \in Nat BY <1>2, <2>1
  <2> HIDE DEF drained
  <2> QED BY <2>2, <2>3
<1>6. JournalHolds(journal \o drained \o injected, "running", runs)
  <2>1. JournalHolds(journal, "running", runs) BY <1>1 DEF JournalInv
  <2> QED BY <1>2, <1>4, <2>1, DrainedHolds
<1>7. injected # <<>>
  OBVIOUS
<1> HIDE DEF drained, injected
<1>8. journal \o drained \o injected = journal \o batch /\ batch \in Seq(Records) /\ batch # <<>>
  BY <1>1, <1>5, <1>7, BothBatches
<1>9. journal' = journal \o batch BY <1>3 DEF Write
<1> HIDE DEF batch
<1> QED BY <1>1, <1>3, <1>6, <1>8, <1>9 DEF JournalInv, AddsRecords

LEMMA TurnStep ==
  ASSUME JournalInv, WriteTurn
  PROVE  JournalInv' /\ AddsRecords
<1>1. /\ drive = "running" /\ drive \in Drives /\ runs \in Nat /\ End(journal).run = runs
      /\ drive' = drive /\ runs' = runs
  BY JournalTyped DEF WriteTurn
<1>2. PICK kind \in TurnKinds : Write(<<Written(kind, runs, <<>>)>>) BY DEF WriteTurn, Plain
<1> DEFINE record == Written(kind, runs, <<>>)
<1>3. record \in Records /\ record.kind = kind /\ record.run = runs
  BY <1>1 DEF Written, Records, TurnKinds, RecordKinds
<1>4. Write(<<record>>) BY <1>2
<1> HIDE DEF record
<1>5. Suits(End(journal), journal, Len(journal) + 1, record) /\ record.kind \notin {"opened", "closed", "resume"}
  BY <1>1, <1>3 DEF Suits, TurnKinds
<1> QED BY <1>1, <1>3, <1>4, <1>5, WriteOne DEF JournalInv

LEMMA SuspendedStep ==
  ASSUME JournalInv, WriteSuspended
  PROVE  JournalInv' /\ AddsRecords
<1> DEFINE record == Written("suspended", runs, <<>>)
<1>1. /\ drive = "running" /\ runs \in Nat /\ End(journal).run = runs
      /\ Write(<<record>>) /\ drive' = "suspending" /\ runs' = runs
  BY JournalTyped DEF WriteSuspended, Plain
<1>2. record \in Records /\ record.kind = "suspended" /\ record.run = runs
  BY <1>1 DEF Written, Records, RecordKinds
<1> HIDE DEF record
<1>3. Suits(End(journal), journal, Len(journal) + 1, record) BY <1>1, <1>2 DEF Suits
<1>4. "suspending" \in Drives /\ ("suspending" = "idle" <=> drive = "idle")
  BY <1>1 DEF Drives
<1>5. JournalHolds(journal', "suspending", runs) /\ AddsRecords
  BY <1>1, <1>2, <1>3, <1>4, WriteOne
<1> QED BY <1>1, <1>5 DEF JournalInv

LEMMA ResumedStep ==
  ASSUME JournalInv, WriteResumed
  PROVE  JournalInv' /\ AddsRecords
<1> DEFINE batch == <<Written("resolution", runs, <<>>), Written("closed", runs, <<>>),
                      Written("resume", runs + 1, <<>>), Written("opened", runs + 1, <<>>)>>
<1>1. drive = "suspended" /\ runs' = runs + 1 /\ drive' = "running" /\ Write(batch) /\ runs \in Nat
  BY JournalTyped DEF WriteResumed, Plain
<1>2. JournalHolds(journal \o batch, "running", runs + 1)
  BY <1>1, ResumeHolds DEF JournalInv
<1>3. batch \in Seq(Records) /\ batch # <<>>
  <2>1. /\ Written("resolution", runs, <<>>) \in Records /\ Written("closed", runs, <<>>) \in Records
        /\ Written("resume", runs + 1, <<>>) \in Records /\ Written("opened", runs + 1, <<>>) \in Records
    BY <1>1 DEF Written, Records, RecordKinds
  <2> QED BY <2>1
<1>4. journal' = journal \o batch BY <1>1 DEF Write
<1> HIDE DEF batch
<1> QED BY <1>1, <1>2, <1>3, <1>4 DEF JournalInv, AddsRecords

LEMMA ClosedStep ==
  ASSUME JournalInv, WriteClosed
  PROVE  JournalInv' /\ AddsRecords
<1> DEFINE record == Written("closed", runs, <<>>)
<1>1. runs \in Nat /\ journal \in Seq(Records) /\ Write(<<record>>) /\ drive' = "idle" /\ runs' = runs
  BY JournalTyped DEF WriteClosed, Plain
<1>2. record \in Records BY <1>1 DEF Written, Records, RecordKinds
<1>3. JournalHolds(Append(journal, record), "idle", runs) BY CloseHolds DEF JournalInv
<1> HIDE DEF record
<1>4. journal' = Append(journal, record) /\ <<record>> \in Seq(Records) /\ <<record>> # <<>>
  BY <1>1, <1>2 DEF Write
<1> QED BY <1>1, <1>3, <1>4 DEF JournalInv, AddsRecords

\* The steps that write nothing leave the journal's invariant.
LEMMA OtherStep ==
  ASSUME JournalInv, Finalize \/ Preview \/ OpenStream \/ TakeNext
  PROVE  JournalInv'
<1>1. journal' = journal /\ runs' = runs BY DEF Finalize, Preview, OpenStream, TakeNext
<1>2. drive' = drive \/ (drive = "suspending" /\ drive' = "suspended")
  BY DEF Finalize, Preview, OpenStream, TakeNext
<1>3. drive \in Drives /\ "suspended" \in Drives BY JournalTyped DEF Drives
<1> QED BY <1>1, <1>2, <1>3 DEF JournalInv, JournalHolds

-----------------------------------------------------------------------------
(***************************************************************************)
(* What the hub hands out, and the previews counted.                       *)
(***************************************************************************)
\* The records that follow a position are among the items, in order.
Following(items, read, last) ==
  /\ \A i \in 1..Len(items) : items[i].n # 0 => items[i].n \in (read + 1)..last
  /\ \A i, j \in 1..Len(items) : i < j /\ items[i].n # 0 /\ items[j].n # 0 => items[i].n < items[j].n
  /\ \A m \in (read + 1)..last : \E i \in 1..Len(items) : items[i].n = m

LEMMA FollowingMore ==
  ASSUME NEW items \in Seq(Items), NEW read \in Nat, NEW last \in Nat, read <= last,
         Following(items, read, last),
         NEW more \in Seq(Items), \A i \in 1..Len(more) : more[i].n = last + i
  PROVE  Following(items \o more, read, last + Len(more))
<1> DEFINE all == items \o more
           len == Len(items)
           end == last + Len(more)
<1>1. /\ len \in Nat /\ Len(more) \in Nat /\ Len(all) = len + Len(more) /\ end \in Nat
      /\ \A i \in 1..len : all[i] = items[i] /\ i \in 1..Len(all)
      /\ \A i \in 1..Len(more) : all[len + i] = more[i] /\ len + i \in 1..Len(all)
  OBVIOUS
<1>2. \A i \in 1..Len(all) : i \in 1..len \/ (i > len /\ i - len \in 1..Len(more) /\ len + (i - len) = i)
  BY <1>1
<1>3. ASSUME NEW i \in 1..Len(all), i > len
      PROVE  all[i].n = last + (i - len)
  <2> DEFINE k == i - len
  <2>1. k \in 1..Len(more) /\ len + k = i BY <1>1, <1>2, <1>3
  <2> HIDE DEF all, k
  <2>2. all[len + k] = more[k] /\ more[k].n = last + k BY <1>1, <2>1
  <2>3. all[i].n = last + k BY <2>1, <2>2
  <2> QED BY <2>3 DEF k
<1> HIDE DEF all
<1>4. ASSUME NEW i \in 1..Len(all), all[i].n # 0
      PROVE  all[i].n \in (read + 1)..end
  <2>1. CASE i \in 1..len
    <3>1. all[i].n \in (read + 1)..last BY <1>1, <1>4, <2>1 DEF Following
    <3> QED BY <1>1, <3>1
  <2>2. CASE i > len BY <1>1, <1>2, <1>3, <2>2
  <2> QED BY <1>2, <2>1, <2>2
<1>5. ASSUME NEW i \in 1..Len(all), NEW j \in 1..Len(all), i < j, all[i].n # 0, all[j].n # 0
      PROVE  all[i].n < all[j].n
  <2>1. CASE i \in 1..len /\ j \in 1..len BY <1>1, <1>5, <2>1 DEF Following
  <2>2. CASE i \in 1..len /\ j > len
    <3>1. all[i].n \in (read + 1)..last BY <1>1, <1>5, <2>2 DEF Following
    <3>2. all[j].n = last + (j - len) /\ j - len \in 1..Len(more) BY <1>1, <1>2, <1>3, <2>2
    <3> QED BY <1>1, <3>1, <3>2
  <2>3. CASE i > len /\ j > len
    <3>1. all[i].n = last + (i - len) /\ all[j].n = last + (j - len) BY <1>3, <2>3
    <3> QED BY <1>1, <1>5, <3>1
  <2> QED BY <1>1, <1>2, <1>5, <2>1, <2>2, <2>3
<1>6. ASSUME NEW m \in (read + 1)..end
      PROVE  \E i \in 1..Len(all) : all[i].n = m
  <2>1. CASE m <= last
    <3>1. m \in (read + 1)..last BY <1>1, <2>1
    <3>2. PICK i \in 1..len : items[i].n = m BY <3>1 DEF Following
    <3> QED BY <1>1, <3>2
  <2>2. CASE m > last
    <3>1. m - last \in 1..Len(more) /\ last + (m - last) = m BY <1>1, <2>2
    <3>2. more[m - last].n = m BY <3>1
    <3> QED BY <1>1, <3>1, <3>2
  <2> QED BY <1>1, <2>1, <2>2
<1> HIDE DEF end
<1>7. Following(all, read, end) BY <1>4, <1>5, <1>6 DEF Following
<1> QED BY <1>7 DEF all, end

\* A preview is no record.
LEMMA FollowingPreview ==
  ASSUME NEW items \in Seq(Items), NEW read, NEW last, Following(items, read, last),
         NEW item \in Items, item.n = 0
  PROVE  Following(Append(items, item), read, last)
<1> DEFINE all == Append(items, item)
           end == Len(items) + 1
<1>1. /\ Len(items) \in Nat /\ Len(all) = end
      /\ \A i \in 1..Len(items) : all[i] = items[i] /\ i \in 1..Len(all)
      /\ \A i \in 1..Len(all) : i \in 1..Len(items) \/ i = end
      /\ all[end] = item
  OBVIOUS
<1> HIDE DEF all, end
<1>2. \A i \in 1..Len(all) : all[i].n # 0 => i \in 1..Len(items) BY <1>1
<1>3. Following(all, read, last) BY <1>1, <1>2 DEF Following
<1> QED BY <1>3 DEF all

\* The first item is a preview, or the record that follows.
LEMMA FollowingFirst ==
  ASSUME NEW items \in Seq(Items), items # <<>>, NEW read \in Nat, NEW last \in Nat,
         Following(items, read, last)
  PROVE  /\ Head(items) \in Items /\ Tail(items) \in Seq(Items)
         /\ Head(items).n = 0 => Following(Tail(items), read, last)
         /\ Head(items).n # 0 => /\ Head(items).n = read + 1 /\ read + 1 <= last
                                 /\ Following(Tail(items), read + 1, last)
<1> DEFINE rest == Tail(items)
           first == items[1]
<1>1. /\ Head(items) = first /\ first \in Items /\ rest \in Seq(Items) /\ Len(items) \in Nat
      /\ Len(items) >= 1 /\ 1 \in 1..Len(items)
      /\ Len(rest) = Len(items) - 1 /\ Len(rest) \in Nat
      /\ \A i \in 1..Len(rest) : rest[i] = items[i + 1] /\ i + 1 \in 1..Len(items)
      /\ \A i \in 1..Len(items) : i = 1 \/ (i - 1 \in 1..Len(rest) /\ items[i] = rest[i - 1])
  <2>1. /\ Len(items) \in Nat /\ Len(items) >= 1 /\ Head(items) = items[1] /\ rest \in Seq(Items)
        /\ Len(rest) = Len(items) - 1
        /\ \A i \in 1..Len(rest) : rest[i] = items[i + 1]
    OBVIOUS
  <2> HIDE DEF rest
  <2>2. \A i \in 1..Len(rest) : i + 1 \in 1..Len(items) BY <2>1
  <2>3. ASSUME NEW i \in 1..Len(items), i # 1
        PROVE  i - 1 \in 1..Len(rest) /\ items[i] = rest[i - 1]
    <3>1. i - 1 \in 1..Len(rest) /\ (i - 1) + 1 = i BY <2>1, <2>3
    <3> QED BY <2>1, <3>1
  <2>4. Len(rest) \in Nat /\ 1 \in 1..Len(items) BY <2>1
  <2> QED BY <2>1, <2>2, <2>3, <2>4
<1> HIDE DEF rest, first
<1>2. ASSUME NEW i \in 1..Len(rest), NEW j \in 1..Len(rest), i < j, rest[i].n # 0, rest[j].n # 0
      PROVE  rest[i].n < rest[j].n
  <2>1. i + 1 < j + 1 /\ i + 1 \in 1..Len(items) /\ j + 1 \in 1..Len(items) BY <1>1, <1>2
  <2> QED BY <1>1, <1>2, <2>1 DEF Following
<1>3. CASE first.n = 0
  <2>1. \A i \in 1..Len(rest) : rest[i].n # 0 => rest[i].n \in (read + 1)..last
    BY <1>1 DEF Following
  <2>2. ASSUME NEW m \in (read + 1)..last
        PROVE  \E i \in 1..Len(rest) : rest[i].n = m
    <3>1. PICK i \in 1..Len(items) : items[i].n = m BY DEF Following
    <3>2. i # 1 BY <1>3, <3>1 DEF first
    <3> QED BY <1>1, <3>1, <3>2
  <2>3. Following(rest, read, last) BY <1>2, <2>1, <2>2 DEF Following
  <2> QED BY <1>1, <1>3, <2>3 DEF rest
<1>4. CASE first.n # 0
  <2>1. first.n \in (read + 1)..last BY <1>1, <1>4 DEF Following, first
  <2>2. read + 1 \in (read + 1)..last BY <2>1
  <2>3. PICK k \in 1..Len(items) : items[k].n = read + 1 BY <2>2 DEF Following
  <2>4. first.n = read + 1
    <3>1. CASE k = 1 BY <2>3, <3>1 DEF first
    <3>2. CASE k # 1
      <4>1. 1 < k BY <3>2
      <4>2. items[k].n # 0 BY <2>3
      <4>3. first.n < items[k].n BY <1>1, <1>4, <4>1, <4>2 DEF Following, first
      <4> QED BY <2>1, <2>3, <4>3
    <3> QED BY <3>1, <3>2
  <2>5. ASSUME NEW i \in 1..Len(rest), rest[i].n # 0
        PROVE  rest[i].n \in ((read + 1) + 1)..last
    <3>1. rest[i] = items[i + 1] /\ i + 1 \in 1..Len(items) /\ 1 < i + 1 BY <1>1
    <3>2. rest[i].n \in (read + 1)..last BY <2>5, <3>1 DEF Following
    <3>3. first.n < rest[i].n BY <1>1, <1>4, <2>5, <3>1 DEF Following, first
    <3> QED BY <2>4, <3>2, <3>3
  <2>6. ASSUME NEW m \in ((read + 1) + 1)..last
        PROVE  \E i \in 1..Len(rest) : rest[i].n = m
    <3>1. m \in (read + 1)..last /\ m # read + 1
      OBVIOUS
    <3>2. PICK i \in 1..Len(items) : items[i].n = m BY <3>1 DEF Following
    <3>3. i # 1 BY <2>4, <3>1, <3>2 DEF first
    <3> QED BY <1>1, <3>2, <3>3
  <2>7. Following(rest, read + 1, last) BY <1>2, <2>5, <2>6 DEF Following
  <2>8. read + 1 <= last BY <2>1
  <2> QED BY <1>1, <1>4, <2>4, <2>7, <2>8 DEF rest
<1> QED BY <1>3, <1>4

LEMMA SameAsBoth ==
  ASSUME NEW a \in Seq(Nat), NEW b \in Seq(Nat), NEW c \in Seq(Nat), Len(c) = Len(a) + Len(b),
         \A i \in 1..Len(a) : c[i] = a[i], \A i \in 1..Len(b) : c[Len(a) + i] = b[i]
  PROVE  c = a \o b
<1> DEFINE both == a \o b
<1>1. /\ both \in Seq(Nat) /\ Len(both) = Len(c) /\ Len(a) \in Nat /\ Len(b) \in Nat
      /\ \A i \in 1..Len(a) : both[i] = a[i]
      /\ \A i \in 1..Len(b) : both[Len(a) + i] = b[i]
  OBVIOUS
<1> HIDE DEF both
<1>2. ASSUME NEW i \in 1..Len(c) PROVE c[i] = both[i]
  <2>1. i \in 1..Len(a) \/ (i - Len(a) \in 1..Len(b) /\ Len(a) + (i - Len(a)) = i) BY <1>1
  <2> QED BY <1>1, <2>1
<1>3. c = both BY <1>1, <1>2
<1> QED BY <1>3 DEF both

Due(items) == SumOf(PreviewsDue(items))[Len(items)]
Disclosed(events) == SumOf(PreviewsTold(events))[Len(events)]

LEMMA DueTyped ==
  ASSUME NEW items \in Seq(Items)
  PROVE  /\ PreviewsDue(items) \in Seq(Nat) /\ Len(PreviewsDue(items)) = Len(items)
         /\ \A i \in 1..Len(items) : PreviewsDue(items)[i] = items[i].dropped + (IF items[i].n = 0 THEN 1 ELSE 0)
         /\ Due(items) \in Nat
<1>1. DOMAIN items = 1..Len(items) /\ Len(items) \in Nat /\ Len(items) \in 0..Len(items)
  OBVIOUS
<1>2. \A i \in 1..Len(items) : items[i].dropped + (IF items[i].n = 0 THEN 1 ELSE 0) \in Nat
  <2> TAKE i \in 1..Len(items)
  <2> DEFINE item == items[i]
  <2>1. item \in Items
    OBVIOUS
  <2> HIDE DEF item
  <2>2. item.dropped \in Nat BY <2>1 DEF Items
  <2>3. item.dropped + (IF item.n = 0 THEN 1 ELSE 0) \in Nat BY <2>2
  <2> QED BY <2>3 DEF item
<1>3. PreviewsDue(items) \in [1..Len(items) -> Nat] BY <1>1, <1>2 DEF PreviewsDue
<1>4. PreviewsDue(items) \in Seq(Nat) BY <1>1, <1>3
<1>5. Len(PreviewsDue(items)) = Len(items) BY <1>1, <1>3, <1>4
<1>6. Due(items) \in Nat BY <1>1, <1>4, <1>5, SumOfSteps DEF Due
<1> QED BY <1>1, <1>4, <1>5, <1>6 DEF PreviewsDue

LEMMA DueMore ==
  ASSUME NEW items \in Seq(Items), NEW more \in Seq(Items)
  PROVE  Due(items \o more) = Due(items) + Due(more)
<1> DEFINE all == items \o more
           a == PreviewsDue(items)
           b == PreviewsDue(more)
           c == PreviewsDue(all)
<1>1. /\ all \in Seq(Items) /\ Len(all) = Len(items) + Len(more)
      /\ Len(items) \in Nat /\ Len(more) \in Nat
      /\ \A i \in 1..Len(items) : all[i] = items[i] /\ i \in 1..Len(all)
      /\ \A i \in 1..Len(more) : all[Len(items) + i] = more[i] /\ Len(items) + i \in 1..Len(all)
  OBVIOUS
<1> HIDE DEF all
<1>2. /\ a \in Seq(Nat) /\ Len(a) = Len(items) /\ b \in Seq(Nat) /\ Len(b) = Len(more)
      /\ c \in Seq(Nat) /\ Len(c) = Len(all)
  BY <1>1, DueTyped
<1>3. \A i \in 1..Len(items) : c[i] = a[i] BY <1>1, DueTyped
<1>4. \A i \in 1..Len(more) : c[Len(items) + i] = b[i]
  <2>1. \A i \in 1..Len(more) : b[i] = more[i].dropped + (IF more[i].n = 0 THEN 1 ELSE 0)
    BY DueTyped
  <2>2. \A i \in 1..Len(all) : c[i] = all[i].dropped + (IF all[i].n = 0 THEN 1 ELSE 0)
    BY <1>1, DueTyped
  <2> HIDE DEF b, c
  <2>3. ASSUME NEW i \in 1..Len(more)
        PROVE  c[Len(items) + i] = b[i]
    <3> DEFINE k == Len(items) + i
    <3>1. k \in 1..Len(all) /\ all[k] = more[i] BY <1>1
    <3> HIDE DEF k
    <3>2. c[k] = b[i] BY <2>1, <2>2, <3>1
    <3> QED BY <3>2 DEF k
  <2> QED BY <2>3
<1> HIDE DEF a, b, c
<1>5. c = a \o b
  <2>1. Len(c) = Len(a) + Len(b) BY <1>1, <1>2
  <2>2. (\A i \in 1..Len(a) : c[i] = a[i]) /\ (\A i \in 1..Len(b) : c[Len(a) + i] = b[i])
    BY <1>2, <1>3, <1>4
  <2> QED BY <1>2, <2>1, <2>2, SameAsBoth
<1>6. SumOf(c)[Len(c)] = SumOf(a)[Len(a)] + SumOf(b)[Len(b)] BY <1>2, <1>5, SumOfBoth
<1>7. Due(all) = Due(items) + Due(more) BY <1>2, <1>6 DEF Due, a, b, c
<1> QED BY <1>7 DEF all

LEMMA DueOne ==
  ASSUME NEW item \in Items
  PROVE  Due(<<item>>) = item.dropped + (IF item.n = 0 THEN 1 ELSE 0)
<1> DEFINE x == item.dropped + (IF item.n = 0 THEN 1 ELSE 0)
           items == <<item>>
<1>1. items \in Seq(Items) /\ Len(items) = 1 /\ items[1] = item /\ 1 \in 1..Len(items)
  OBVIOUS
<1> HIDE DEF items
<1>2. PreviewsDue(items) \in Seq(Nat) /\ Len(PreviewsDue(items)) = 1 /\ PreviewsDue(items)[1] = x
  BY <1>1, DueTyped
<1> HIDE DEF x
<1>3. SumOf(PreviewsDue(items))[1] = x
  <2> DEFINE s == PreviewsDue(items)
  <2>1. s \in Seq(Nat) /\ Len(s) = 1 /\ s[1] = x /\ s # <<>> /\ \A n \in 2..Len(s) : s[n] = 0
    BY <1>2
  <2> HIDE DEF s
  <2>2. SumOf(s)[Len(s)] = s[1] BY <2>1, SumOfFirst
  <2> QED BY <2>1, <2>2 DEF s
<1>4. Due(items) = x BY <1>1, <1>3 DEF Due
<1> QED BY <1>4 DEF items, x

\* Records handed out owe no more than the first of them reports.
LEMMA DueFirst ==
  ASSUME NEW items \in Seq(Items), NEW first \in Nat, items # <<>>,
         \A i \in 1..Len(items) : items[i].n # 0 /\ items[i].dropped = IF i = 1 THEN first ELSE 0
  PROVE  Due(items) = first
<1> DEFINE s == PreviewsDue(items)
<1>1. Len(items) \in Nat /\ Len(items) # 0 /\ 1 \in 1..Len(items) /\ \A n \in 2..Len(items) : n \in 1..Len(items) /\ n # 1
  OBVIOUS
<1>2. s \in Seq(Nat) /\ Len(s) = Len(items) /\ \A i \in 1..Len(items) : s[i] = IF i = 1 THEN first ELSE 0
  <2>1. \A i \in 1..Len(items) : s[i] = (IF i = 1 THEN first ELSE 0) + 0 BY DueTyped
  <2>2. \A i \in 1..Len(items) : s[i] = IF i = 1 THEN first ELSE 0 BY <2>1
  <2> QED BY <2>2, DueTyped
<1> HIDE DEF s
<1>3. s # <<>> /\ s[1] = first /\ \A n \in 2..Len(s) : s[n] = 0 BY <1>1, <1>2
<1>4. SumOf(s)[Len(s)] = first BY <1>2, <1>3, SumOfFirst
<1> QED BY <1>2, <1>4 DEF Due, s

LEMMA DisclosedTyped ==
  ASSUME NEW events \in Seq(LoopEvents)
  PROVE  /\ PreviewsTold(events) \in Seq(Nat) /\ Len(PreviewsTold(events)) = Len(events)
         /\ \A i \in 1..Len(events) :
              PreviewsTold(events)[i] = events[i].dropped + (IF events[i].kind = "preview" THEN 1 ELSE 0)
         /\ Disclosed(events) \in Nat
<1>1. DOMAIN events = 1..Len(events) /\ Len(events) \in Nat /\ Len(events) \in 0..Len(events)
  OBVIOUS
<1>2. \A i \in 1..Len(events) : events[i].dropped + (IF events[i].kind = "preview" THEN 1 ELSE 0) \in Nat
  <2> TAKE i \in 1..Len(events)
  <2> DEFINE event == events[i]
  <2>1. event \in LoopEvents
    OBVIOUS
  <2> HIDE DEF event
  <2>2. event.dropped \in Nat BY <2>1 DEF LoopEvents
  <2>3. event.dropped + (IF event.kind = "preview" THEN 1 ELSE 0) \in Nat BY <2>2
  <2> QED BY <2>3 DEF event
<1>3. PreviewsTold(events) \in [1..Len(events) -> Nat] BY <1>1, <1>2 DEF PreviewsTold
<1>4. PreviewsTold(events) \in Seq(Nat) BY <1>1, <1>3
<1>5. Len(PreviewsTold(events)) = Len(events) BY <1>1, <1>3, <1>4
<1>6. Disclosed(events) \in Nat BY <1>1, <1>4, <1>5, SumOfSteps DEF Disclosed
<1> QED BY <1>1, <1>4, <1>5, <1>6 DEF PreviewsTold

LEMMA DisclosedMore ==
  ASSUME NEW events \in Seq(LoopEvents), NEW more \in Seq(LoopEvents)
  PROVE  Disclosed(events \o more) = Disclosed(events) + Disclosed(more)
<1> DEFINE all == events \o more
           a == PreviewsTold(events)
           b == PreviewsTold(more)
           c == PreviewsTold(all)
<1>1. /\ all \in Seq(LoopEvents) /\ Len(all) = Len(events) + Len(more)
      /\ Len(events) \in Nat /\ Len(more) \in Nat
      /\ \A i \in 1..Len(events) : all[i] = events[i] /\ i \in 1..Len(all)
      /\ \A i \in 1..Len(more) : all[Len(events) + i] = more[i] /\ Len(events) + i \in 1..Len(all)
  OBVIOUS
<1> HIDE DEF all
<1>2. /\ a \in Seq(Nat) /\ Len(a) = Len(events) /\ b \in Seq(Nat) /\ Len(b) = Len(more)
      /\ c \in Seq(Nat) /\ Len(c) = Len(all)
  BY <1>1, DisclosedTyped
<1>3. \A i \in 1..Len(events) : c[i] = a[i] BY <1>1, DisclosedTyped
<1>4. \A i \in 1..Len(more) : c[Len(events) + i] = b[i]
  <2>1. \A i \in 1..Len(more) : b[i] = more[i].dropped + (IF more[i].kind = "preview" THEN 1 ELSE 0)
    BY DisclosedTyped
  <2>2. \A i \in 1..Len(all) : c[i] = all[i].dropped + (IF all[i].kind = "preview" THEN 1 ELSE 0)
    BY <1>1, DisclosedTyped
  <2> HIDE DEF b, c
  <2>3. ASSUME NEW i \in 1..Len(more)
        PROVE  c[Len(events) + i] = b[i]
    <3> DEFINE k == Len(events) + i
    <3>1. k \in 1..Len(all) /\ all[k] = more[i] BY <1>1
    <3> HIDE DEF k
    <3>2. c[k] = b[i] BY <2>1, <2>2, <3>1
    <3> QED BY <3>2 DEF k
  <2> QED BY <2>3
<1> HIDE DEF a, b, c
<1>5. c = a \o b
  <2>1. Len(c) = Len(a) + Len(b) BY <1>1, <1>2
  <2>2. (\A i \in 1..Len(a) : c[i] = a[i]) /\ (\A i \in 1..Len(b) : c[Len(a) + i] = b[i])
    BY <1>2, <1>3, <1>4
  <2> QED BY <1>2, <2>1, <2>2, SameAsBoth
<1>6. SumOf(c)[Len(c)] = SumOf(a)[Len(a)] + SumOf(b)[Len(b)] BY <1>2, <1>5, SumOfBoth
<1>7. Disclosed(all) = Disclosed(events) + Disclosed(more)
  BY <1>2, <1>6 DEF Disclosed, a, b, c
<1> QED BY <1>7 DEF all

LEMMA NothingDisclosed ==
  Disclosed(<<>>) = 0
<1> DEFINE none == <<>>
<1>1. none \in Seq(LoopEvents) /\ Len(none) = 0
  OBVIOUS
<1> HIDE DEF none
<1>2. PreviewsTold(none) \in Seq(Nat) BY <1>1, DisclosedTyped
<1>3. SumOf(PreviewsTold(none))[0] = 0 BY <1>2, SumOfSteps
<1>4. Disclosed(none) = 0 BY <1>1, <1>3 DEF Disclosed
<1> QED BY <1>4 DEF none

\* What is delivered of a record: the first event carries the losses.
LEMMA StampParts ==
  ASSUME NEW events \in Seq(Bare), NEW losses \in Nat
  PROVE  /\ Stamp(events, losses) \in Seq(LoopEvents)
         /\ Stamp(events, losses) = <<>> <=> events = <<>>
         /\ \A i \in DOMAIN Stamp(events, losses) : Stamp(events, losses)[i].kind # "preview"
         /\ MarksOf(Stamp(events, losses)) = MarksOf(events)
         /\ Disclosed(Stamp(events, losses)) = IF events = <<>> THEN 0 ELSE losses
<1> DEFINE all == Stamp(events, losses)
<1>1. CASE events = <<>>
  <2>1. all = <<>> /\ <<>> \in Seq(LoopEvents) /\ DOMAIN <<>> = {} /\ Len(<<>>) = 0
    BY <1>1 DEF Stamp
  <2> QED BY <1>1, <2>1, NothingDisclosed
<1>2. CASE events # <<>>
  <2> DEFINE first == events[1]
             marked == [first EXCEPT !.dropped = losses]
  <2>1. /\ Len(events) \in Nat /\ DOMAIN events = 1..Len(events) /\ 1 \in 1..Len(events)
        /\ \A i \in 1..Len(events) : events[i] \in Bare
    BY <1>2
  <2>2. all = [i \in 1..Len(events) |-> IF i = 1 THEN marked ELSE events[i]]
    BY <1>2, <2>1 DEF Stamp
  <2>3. first \in LoopEvents /\ first.kind # "preview" /\ first.dropped = 0 BY <2>1 DEF Bare
  <2>4. /\ marked \in LoopEvents /\ marked.kind # "preview" /\ marked.dropped = losses
        /\ Mark(marked) = Mark(first)
    <3> HIDE DEF first
    <3> QED BY <2>3 DEF LoopEvents, Mark
  <2>5. \A i \in 1..Len(events) : events[i] \in LoopEvents /\ events[i].kind # "preview" /\ events[i].dropped = 0
    BY <2>1 DEF Bare
  <2> HIDE DEF marked, all
  <2>6. \A i \in 1..Len(events) :
          /\ all[i] \in LoopEvents /\ all[i].kind # "preview" /\ Mark(all[i]) = Mark(events[i])
          /\ all[i].dropped = IF i = 1 THEN losses ELSE 0
    BY <2>2, <2>4, <2>5
  <2>7. all \in Seq(LoopEvents) /\ Len(all) = Len(events) /\ DOMAIN all = 1..Len(events)
    <3>1. all \in [1..Len(events) -> LoopEvents] BY <2>2, <2>4, <2>5
    <3>2. all \in Seq(LoopEvents) BY <2>1, <3>1
    <3> QED BY <2>1, <3>1, <3>2
  <2>8. MarksOf(all) = MarksOf(events) BY <2>1, <2>6, <2>7 DEF MarksOf
  <2>9. Disclosed(all) = losses
    <3> DEFINE s == PreviewsTold(all)
    <3>1. s \in Seq(Nat) /\ Len(s) = Len(events) BY <2>7, DisclosedTyped
    <3>2. \A i \in 1..Len(events) : s[i] = (IF i = 1 THEN losses ELSE 0) + 0
      BY <2>6, <2>7, DisclosedTyped
    <3> HIDE DEF s
    <3>3. s # <<>> /\ s[1] = losses /\ \A n \in 2..Len(s) : s[n] = 0
      <4>1. \A n \in 2..Len(s) : n \in 1..Len(events) /\ n # 1 BY <2>1, <3>1
      <4> QED BY <2>1, <3>1, <3>2, <4>1
    <3>4. SumOf(s)[Len(s)] = losses BY <3>1, <3>3, SumOfFirst
    <3> QED BY <2>7, <3>1, <3>4 DEF Disclosed, s
  <2>10. all # <<>> BY <2>1, <2>7
  <2> QED BY <1>2, <2>6, <2>7, <2>8, <2>9, <2>10 DEF all
<1> QED BY <1>1, <1>2

-----------------------------------------------------------------------------
(***************************************************************************)
(* The stream.                                                             *)
(***************************************************************************)
\* A stream is where the records take it.
Follows(records, s, items) ==
  s.open =>
    /\ s.after <= s.read /\ s.read <= Len(records)
    /\ Following(items, s.read, Len(records))
    /\ Agrees(s.fold, Folded(records)[s.read])
    /\ Committed(s.seen)[Len(s.seen)] = History(records, s.after)[s.read]

Accounted(s, items, count, missed) ==
  IF s.open THEN Due(items) + Disclosed(s.seen) + missed + s.fold.dropped = count
  ELSE count = 0 /\ missed = 0

StreamInv ==
  /\ deltas \in Nat /\ lost \in Nat /\ source \in Seq(Items) /\ stream \in Streams
  /\ Follows(journal, stream, source)
  /\ Accounted(stream, source, deltas, lost)

LEMMA StreamParts ==
  ASSUME NEW s \in Streams
  PROVE  /\ s.open \in BOOLEAN /\ s.after \in Nat /\ s.read \in Nat /\ s.fold \in Folds
         /\ s.seen \in Seq(LoopEvents) /\ s.fold.dropped \in Nat /\ Disclosed(s.seen) \in Nat
<1>1. s.open \in BOOLEAN /\ s.after \in Nat /\ s.read \in Nat /\ s.fold \in Folds /\ s.seen \in Seq(LoopEvents)
  <2> DEFINE S == Seq(LoopEvents)
  <2>1. Streams = [open : BOOLEAN, after : Nat, read : Nat, fold : Folds, seen : S]
    BY DEF Streams
  <2> HIDE DEF S
  <2>2. s.open \in BOOLEAN /\ s.after \in Nat /\ s.read \in Nat /\ s.fold \in Folds /\ s.seen \in S
    BY <2>1
  <2> QED BY <2>2 DEF S
<1>2. s.fold.dropped \in Nat BY <1>1 DEF Folds
<1>3. Disclosed(s.seen) \in Nat BY <1>1, DisclosedTyped
<1> QED BY <1>1, <1>2, <1>3

\* Records are written: the stream has more to come.
LEMMA AddsKeeps ==
  ASSUME JournalInv, StreamInv, AddsRecords
  PROVE  StreamInv'
<1>1. PICK batch \in Seq(Records) : batch # <<>> /\ Write(batch) BY DEF AddsRecords
<1> DEFINE count == Len(batch)
           more == [i \in 1..count |-> Item(Len(journal) + i, IF i = 1 THEN lost ELSE 0)]
<1>2. /\ journal' = journal \o batch /\ Hands(Len(journal), count) /\ deltas' = deltas /\ stream' = stream
  BY <1>1 DEF Write
<1>3. /\ journal \in Seq(Records) /\ Len(journal) \in Nat /\ count \in Nat /\ count # 0
      /\ Len(journal') = Len(journal) + count
  BY <1>1, <1>2, JournalTyped
<1>4. deltas \in Nat /\ lost \in Nat /\ source \in Seq(Items) /\ stream \in Streams
      /\ Follows(journal, stream, source) /\ Accounted(stream, source, deltas, lost)
  BY DEF StreamInv
<1>5. CASE ~stream.open
  <2>1. lost' = lost /\ source' = source BY <1>2, <1>5 DEF Hands
  <2> QED BY <1>2, <1>4, <1>5, <2>1 DEF StreamInv, Follows, Accounted
<1>6. CASE stream.open
  <2>1. lost' = 0 /\ source' = source \o more BY <1>2, <1>6 DEF Hands
  <2>2. \A i \in 1..count : /\ more[i] \in Items /\ more[i].n = Len(journal) + i /\ more[i].n # 0
                            /\ more[i].dropped = IF i = 1 THEN lost ELSE 0
    BY <1>3, <1>4 DEF Item, Items
  <2>3. more \in Seq(Items) /\ Len(more) = count /\ more # <<>>
    <3>1. more \in [1..count -> Items] BY <2>2
    <3> HIDE DEF more, count
    <3>2. more \in Seq(Items) BY <1>3, <3>1
    <3>3. Len(more) = count BY <1>3, <3>1, <3>2
    <3> QED BY <1>3, <3>2, <3>3
  <2> HIDE DEF more, count
  <2>4. source' \in Seq(Items) BY <1>4, <2>1, <2>3
  <2>5. Follows(journal', stream, source')
    <3>1. /\ stream.after \in Nat /\ stream.read \in Nat /\ stream.after <= stream.read
          /\ stream.read <= Len(journal) /\ Following(source, stream.read, Len(journal))
          /\ Agrees(stream.fold, Folded(journal)[stream.read])
          /\ Committed(stream.seen)[Len(stream.seen)] = History(journal, stream.after)[stream.read]
      BY <1>4, <1>6, StreamParts DEF Follows
    <3>2. Following(source', stream.read, Len(journal'))
      <4>1. \A i \in 1..Len(more) : more[i].n = Len(journal) + i BY <2>2, <2>3
      <4>2. Following(source \o more, stream.read, Len(journal) + Len(more))
        BY <1>3, <1>4, <2>3, <3>1, <4>1, FollowingMore
      <4> QED BY <1>3, <2>1, <2>3, <4>2
    <3>3. stream.read \in 0..Len(journal) /\ stream.read <= Len(journal') BY <1>3, <3>1
    <3>4. Folded(journal')[stream.read] = Folded(journal)[stream.read]
      BY <1>1, <1>2, <1>3, <3>3, FoldedGrows
    <3>5. History(journal', stream.after)[stream.read] = History(journal, stream.after)[stream.read]
      BY <1>1, <1>2, <1>3, <3>1, <3>3, HistoryGrows
    <3> QED BY <3>1, <3>2, <3>3, <3>4, <3>5 DEF Follows
  <2>6. Accounted(stream, source', deltas, 0)
    <3>1. Due(source \o more) = Due(source) + Due(more) BY <1>4, <2>3, DueMore
    <3>2. Due(more) = lost BY <1>4, <2>2, <2>3, DueFirst
    <3>3. Due(source) \in Nat /\ Disclosed(stream.seen) \in Nat /\ stream.fold.dropped \in Nat
      BY <1>4, DueTyped, StreamParts
    <3>4. Due(source) + Disclosed(stream.seen) + lost + stream.fold.dropped = deltas
      BY <1>4, <1>6 DEF Accounted
    <3>5. Due(source') + Disclosed(stream.seen) + 0 + stream.fold.dropped = deltas
      BY <1>4, <2>1, <3>1, <3>2, <3>3, <3>4
    <3> QED BY <1>6, <3>5 DEF Accounted
  <2> QED BY <1>2, <1>4, <2>1, <2>4, <2>5, <2>6 DEF StreamInv
<1> QED BY <1>5, <1>6

\* A preview reaches the stream or is counted as lost.
LEMMA PreviewKeeps ==
  ASSUME JournalInv, StreamInv, Preview
  PROVE  StreamInv'
<1> DEFINE item == Item(0, lost)
<1>1. /\ stream.open /\ deltas' = deltas + 1 /\ journal' = journal /\ stream' = stream
      /\ \/ source' = Append(source, item) /\ lost' = 0
         \/ source' = source /\ lost' = lost + 1
  BY DEF Preview
<1>2. deltas \in Nat /\ lost \in Nat /\ source \in Seq(Items) /\ stream \in Streams
      /\ Follows(journal, stream, source) /\ Accounted(stream, source, deltas, lost)
  BY DEF StreamInv
<1>3. Due(source) \in Nat /\ Disclosed(stream.seen) \in Nat /\ stream.fold.dropped \in Nat
  BY <1>2, DueTyped, StreamParts
<1>4. Due(source) + Disclosed(stream.seen) + lost + stream.fold.dropped = deltas
  BY <1>1, <1>2 DEF Accounted
<1>5. item \in Items /\ item.n = 0 /\ item.dropped = lost BY <1>2 DEF Item, Items
<1> HIDE DEF item
<1>6. CASE source' = source /\ lost' = lost + 1
  <2>1. Accounted(stream, source, deltas + 1, lost + 1)
    BY <1>1, <1>2, <1>3, <1>4 DEF Accounted
  <2> QED BY <1>1, <1>2, <1>6, <2>1 DEF StreamInv
<1>7. CASE source' = Append(source, item) /\ lost' = 0
  <2>1. source' \in Seq(Items) /\ <<item>> \in Seq(Items) /\ source' = source \o <<item>>
    BY <1>2, <1>5, <1>7
  <2>2. Due(<<item>>) = lost + 1 BY <1>5, DueOne
  <2>3. Due(source') = Due(source) + (lost + 1) BY <1>2, <2>1, <2>2, DueMore
  <2>4. Accounted(stream, source', deltas + 1, 0)
    BY <1>1, <1>2, <1>3, <1>4, <2>3 DEF Accounted
  <2>5. Follows(journal, stream, source')
    <3>1. Following(source, stream.read, Len(journal)) BY <1>1, <1>2 DEF Follows
    <3>2. Following(source', stream.read, Len(journal))
      BY <1>2, <1>5, <1>7, <3>1, FollowingPreview
    <3> QED BY <1>1, <1>2, <3>2 DEF Follows
  <2> QED BY <1>1, <1>2, <1>7, <2>1, <2>4, <2>5 DEF StreamInv
<1> QED BY <1>1, <1>6, <1>7

\* A stream opens: it is seeded with the fold of what lies before it.
LEMMA OpenKeeps ==
  ASSUME JournalInv, StreamInv, OpenStream
  PROVE  StreamInv'
<1>1. PICK after \in 0..Len(journal) :
        /\ stream' = [open |-> TRUE, after |-> after, read |-> after, fold |-> Seeded(after), seen |-> <<>>]
        /\ source' = [i \in 1..(Len(journal) - after) |-> Item(after + i, 0)]
  BY DEF OpenStream
<1>2. ~stream.open /\ journal' = journal /\ deltas' = deltas /\ lost' = lost
  BY DEF OpenStream
<1>3. deltas = 0 /\ lost = 0 BY <1>2 DEF StreamInv, Accounted
<1> DEFINE count == Len(journal) - after
           items == [i \in 1..count |-> Item(after + i, 0)]
           fold == Seeded(after)
           none == <<>>
<1>4. /\ journal \in Seq(Records) /\ Len(journal) \in Nat /\ after \in Nat /\ after <= Len(journal)
      /\ count \in Nat /\ after + count = Len(journal)
  BY JournalTyped
<1>5. fold = Folded(journal)[after] /\ fold \in Folds /\ fold.dropped = 0
  BY <1>4, FoldedSteps DEF Seeded
<1>6. \A i \in 1..count : items[i] \in Items /\ items[i].n = after + i /\ items[i].n # 0 /\ items[i].dropped = 0
  BY <1>4 DEF Item, Items
<1>7. items \in Seq(Items) /\ Len(items) = count
  <2>1. items \in [1..count -> Items] BY <1>6
  <2> HIDE DEF items, count
  <2>2. items \in Seq(Items) BY <1>4, <2>1
  <2> QED BY <1>4, <2>1, <2>2
<1>8. none \in Seq(LoopEvents) /\ none \in Seq(Items) /\ Len(none) = 0
  OBVIOUS
<1> HIDE DEF items, fold, count, none
<1>9. stream' \in Streams /\ stream'.open /\ stream'.after = after /\ stream'.read = after
      /\ stream'.fold = fold /\ stream'.seen = none
  <2> DEFINE S == Seq(LoopEvents)
  <2>1. stream' = [open |-> TRUE, after |-> after, read |-> after, fold |-> fold, seen |-> none]
    BY <1>1 DEF fold, none
  <2>2. none \in S /\ Streams = [open : BOOLEAN, after : Nat, read : Nat, fold : Folds, seen : S]
    BY <1>8 DEF Streams
  <2> HIDE DEF S
  <2> QED BY <1>4, <1>5, <2>1, <2>2
<1>10. source' = items BY <1>1 DEF items, count
<1>11. Following(items, after, Len(journal))
  <2>1. Following(none, after, after)
    <3>1. \A i \in 1..Len(none) : FALSE BY <1>8
    <3>2. (after + 1)..after = {} BY <1>4
    <3> QED BY <3>1, <3>2 DEF Following
  <2>2. \A i \in 1..Len(items) : items[i].n = after + i BY <1>6, <1>7
  <2>3. Following(none \o items, after, after + Len(items))
    <3>1. after \in Nat /\ after <= after /\ none \in Seq(Items) /\ items \in Seq(Items)
      BY <1>4, <1>7, <1>8
    <3> QED BY <2>1, <2>2, <3>1, FollowingMore
  <2>4. none \o items = items BY <1>7 DEF none
  <2> QED BY <1>4, <1>7, <2>3, <2>4
<1>12. Due(items) = 0 /\ Disclosed(none) = 0
  <2>1. CASE items = <<>>
    <3> DEFINE s == PreviewsDue(items)
    <3>1. s \in Seq(Nat) /\ Len(items) = 0 BY <1>7, <2>1, DueTyped
    <3>2. SumOf(s)[0] = 0 BY <3>1, SumOfSteps
    <3> QED BY <3>1, <3>2, NothingDisclosed DEF Due, none
  <2>2. CASE items # <<>>
    <3>1. \A i \in 1..Len(items) : items[i].n # 0 /\ items[i].dropped = IF i = 1 THEN 0 ELSE 0
      BY <1>6, <1>7
    <3> QED BY <1>7, <2>2, <3>1, DueFirst, NothingDisclosed DEF none
  <2> QED BY <2>1, <2>2
<1>13. Follows(journal, stream', items)
  <2>1. Committed(none)[0] = <<>> BY <1>8, CommittedSteps
  <2>2. History(journal, after)[after] = <<>> BY <1>4, HistorySteps
  <2> QED BY <1>4, <1>5, <1>8, <1>9, <1>11, <2>1, <2>2 DEF Follows, Agrees
<1>14. Accounted(stream', items, deltas, lost) BY <1>3, <1>5, <1>9, <1>12 DEF Accounted
<1> QED BY <1>2, <1>3, <1>7, <1>9, <1>10, <1>13, <1>14 DEF StreamInv

\* What a stream holds once an item was taken: the events it shows are told, and
\* losses before an event wait in the fold.
TakenFrom(s, item, step) ==
  [s EXCEPT !.read = IF item.n = 0 THEN @ ELSE item.n, !.fold = step.fold, !.seen = @ \o step.events]

LEMMA TakenTyped ==
  ASSUME NEW s \in Streams, NEW item \in Items, NEW step,
         step.fold \in Folds, step.events \in Seq(LoopEvents)
  PROVE  /\ TakenFrom(s, item, step) \in Streams
         /\ TakenFrom(s, item, step).open = s.open /\ TakenFrom(s, item, step).after = s.after
         /\ TakenFrom(s, item, step).read = (IF item.n = 0 THEN s.read ELSE item.n)
         /\ TakenFrom(s, item, step).fold = step.fold
         /\ TakenFrom(s, item, step).seen = s.seen \o step.events
<1> DEFINE S == Seq(LoopEvents)
           seen == s.seen \o step.events
           read == IF item.n = 0 THEN s.read ELSE item.n
           t == TakenFrom(s, item, step)
<1>1. s = [open |-> s.open, after |-> s.after, read |-> s.read, fold |-> s.fold, seen |-> s.seen]
  BY DEF Streams
<1>2. s.open \in BOOLEAN /\ s.after \in Nat /\ s.read \in Nat /\ s.seen \in S BY StreamParts
<1>3. seen \in S BY <1>2
<1>4. read \in Nat BY <1>2 DEF Items
<1>5. t = [open |-> s.open, after |-> s.after, read |-> read, fold |-> step.fold, seen |-> seen]
  <2>1. t = [s EXCEPT !.read = read, !.fold = step.fold, !.seen = seen] BY DEF TakenFrom
  <2> HIDE DEF t, read, seen
  <2> QED BY <1>1, <2>1
<1>6. Streams = [open : BOOLEAN, after : Nat, read : Nat, fold : Folds, seen : S]
  BY DEF Streams
<1> HIDE DEF S, t, seen, read
<1>7. /\ t \in Streams /\ t.open = s.open /\ t.after = s.after /\ t.read = read
      /\ t.fold = step.fold /\ t.seen = seen
  BY <1>2, <1>3, <1>4, <1>5, <1>6
<1> QED BY <1>7 DEF t, seen, read

\* A preview is shown as an event of its own.
LEMMA PreviewTaken ==
  ASSUME NEW fold \in Folds, NEW item \in Items, item.n = 0
  PROVE  /\ Apply(fold, item).fold \in Folds
         /\ Agrees(Apply(fold, item).fold, fold) /\ Apply(fold, item).fold.dropped = 0
         /\ \E event \in LoopEvents :
              /\ Apply(fold, item).events = <<event>> /\ event.kind = "preview"
              /\ Disclosed(<<event>>) = fold.dropped + item.dropped + 1
<1> DEFINE bare == [Event(fold.last, 0, "preview", fold.run) EXCEPT !.ordinal = fold.ordinal + 1]
           losses == fold.dropped + item.dropped
           event == [bare EXCEPT !.dropped = losses]
           next == [[fold EXCEPT !.ordinal = @ + 1] EXCEPT !.dropped = 0]
           P == Seq(Nat)
<1>1. /\ fold.run \in Nat /\ fold.pending \in P /\ fold.known \in SUBSET Nat /\ fold.last \in Nat
      /\ fold.ordinal \in Nat /\ fold.dropped \in Nat /\ item.dropped \in Nat
      /\ fold = [run |-> fold.run, pending |-> fold.pending, known |-> fold.known, last |-> fold.last,
                 ordinal |-> fold.ordinal, dropped |-> fold.dropped]
      /\ Folds = [run : Nat, pending : P, known : SUBSET Nat, last : Nat, ordinal : Nat, dropped : Nat]
  BY DEF Folds, Items
<1> HIDE DEF P
<1>2. losses \in Nat /\ fold.ordinal + 1 \in Nat BY <1>1
<1>3. next \in Folds /\ Agrees(next, fold) /\ next.dropped = 0
  <2> DEFINE ordinal == fold.ordinal + 1
  <2>1. ordinal \in Nat /\ next = [fold EXCEPT !.ordinal = ordinal, !.dropped = 0]
    BY <1>1, <1>2
  <2> HIDE DEF ordinal, next
  <2>2. next = [run |-> fold.run, pending |-> fold.pending, known |-> fold.known, last |-> fold.last,
                ordinal |-> ordinal, dropped |-> 0]
    BY <1>1, <2>1
  <2>3. next \in Folds BY <1>1, <2>1, <2>2
  <2> QED BY <2>2, <2>3 DEF Agrees
<1>4. bare \in LoopEvents /\ bare.kind = "preview" /\ bare.dropped = 0
  <2> DEFINE ordinal == fold.ordinal + 1
  <2>1. ordinal \in Nat /\ "preview" \in EventKinds BY <1>2 DEF EventKinds
  <2> HIDE DEF ordinal
  <2>2. [Event(fold.last, 0, "preview", fold.run) EXCEPT !.ordinal = ordinal]
          = [at |-> fold.last, part |-> 0, kind |-> "preview", run |-> fold.run, dropped |-> 0,
             ordinal |-> ordinal]
    BY DEF Event
  <2> QED BY <1>1, <2>1, <2>2 DEF LoopEvents, ordinal
<1>5. event \in LoopEvents /\ event.kind = "preview" /\ event.dropped = losses
  <2> HIDE DEF bare, losses
  <2> QED BY <1>2, <1>4 DEF LoopEvents
<1>6. Stamp(<<bare>>, losses) = <<event>>
  <2> HIDE DEF bare, losses
  <2>1. <<bare>> # <<>>
    OBVIOUS
  <2> QED BY <2>1 DEF Stamp
<1>7. ProjectPreview(fold) = <<bare>> /\ <<bare>> # <<>> BY DEF ProjectPreview
<1>8. Apply(fold, item).events = <<event>> /\ Apply(fold, item).fold = next
  <2> HIDE DEF bare, event
  <2> QED BY <1>6, <1>7 DEF Apply
<1> HIDE DEF bare, event, next, losses
<1>9. Disclosed(<<event>>) = losses + 1
  <2> DEFINE events == <<event>>
  <2>1. events \in Seq(LoopEvents) /\ Len(events) = 1 /\ events[1] = event /\ 1 \in 1..Len(events)
    BY <1>5
  <2> HIDE DEF events
  <2>2. PreviewsTold(events) \in Seq(Nat) /\ Len(PreviewsTold(events)) = 1
        /\ PreviewsTold(events)[1] = losses + 1
    BY <1>5, <2>1, DisclosedTyped
  <2> DEFINE s == PreviewsTold(events)
  <2>3. s \in Seq(Nat) /\ Len(s) = 1 /\ s[1] = losses + 1 /\ s # <<>> /\ \A n \in 2..Len(s) : s[n] = 0
    BY <2>2
  <2> HIDE DEF s
  <2>4. SumOf(s)[Len(s)] = s[1] BY <2>3, SumOfFirst
  <2> QED BY <2>1, <2>3, <2>4 DEF Disclosed, s, events
<1> QED BY <1>3, <1>5, <1>8, <1>9 DEF losses

\* A record that fits is shown as what it truly is.
LEMMA RecordTaken ==
  ASSUME NEW fold \in Folds, NEW item \in Items, item.n # 0,
         JournalInv, item.n \in 1..Len(journal), Agrees(fold, Folded(journal)[item.n - 1])
  PROVE  /\ Apply(fold, item).fold \in Folds
         /\ Agrees(Apply(fold, item).fold, Folded(journal)[item.n])
         /\ Apply(fold, item).events \in Seq(LoopEvents)
         /\ \A i \in DOMAIN Apply(fold, item).events : Apply(fold, item).events[i].kind # "preview"
         /\ MarksOf(Apply(fold, item).events) = Truth(journal, item.n)
         /\ Disclosed(Apply(fold, item).events) + Apply(fold, item).fold.dropped = fold.dropped + item.dropped
<1> DEFINE n == item.n
           record == journal[n]
           base == Folded(journal)[n - 1]
           events == Project(fold, n, record)
           losses == fold.dropped + item.dropped
           next == Advance(fold, n, record)
           kept == IF events = <<>> THEN losses ELSE 0
           out == Stamp(events, losses)
           after == [next EXCEPT !.dropped = kept]
<1>1. /\ journal \in Seq(Records) /\ n \in 1..Len(journal) /\ n \in Nat /\ record \in Records
      /\ n - 1 \in 0..Len(journal) /\ Len(journal) \in Nat
  BY JournalTyped
<1>2. fold.dropped \in Nat /\ item.dropped \in Nat BY DEF Folds, Items
<1>3. losses \in Nat BY <1>2
<1>4. Suits(fold, journal, n, record)
  <2>1. Suits(base, journal, n, record)
    BY <1>1 DEF JournalInv, JournalHolds, Told, Attributed
  <2> HIDE DEF base, record, n
  <2>2. Agrees(fold, base) BY DEF base, n
  <2> QED BY <2>1, <2>2 DEF Suits, Agrees
<1>5. Apply(fold, item).events = out /\ Apply(fold, item).fold = after BY DEF Apply
<1>6. events \in Seq(Bare) /\ MarksOf(events) = Truth(journal, n)
  BY <1>1, <1>4, ProjectParts
<1>7. next \in Folds /\ next.dropped = fold.dropped BY <1>1, AdvanceTyped
<1>8. Agrees(next, Folded(journal)[n])
  <2>1. Folded(journal)[n] = Advance(base, n, record) /\ base \in Folds BY <1>1, FoldedSteps
  <2>2. Agrees(fold, base)
    OBVIOUS
  <2> HIDE DEF base, record, n, next
  <2>3. /\ next.run = (IF record.kind = "opened" THEN record.run
                       ELSE IF record.kind = "closed" THEN 0 ELSE fold.run)
        /\ next.pending = (IF record.kind = "opened" THEN <<>>
                           ELSE IF record.kind = "resume" THEN Append(fold.pending, n) ELSE fold.pending)
        /\ next.known = (IF record.kind = "accepted" THEN fold.known \union Range(record.queues) ELSE fold.known)
    BY <1>1, AdvanceParts DEF next
  <2>4. LET other == Advance(base, n, record)
        IN /\ other.run = (IF record.kind = "opened" THEN record.run
                           ELSE IF record.kind = "closed" THEN 0 ELSE base.run)
           /\ other.pending = (IF record.kind = "opened" THEN <<>>
                               ELSE IF record.kind = "resume" THEN Append(base.pending, n) ELSE base.pending)
           /\ other.known = (IF record.kind = "accepted" THEN base.known \union Range(record.queues) ELSE base.known)
    BY <1>1, <2>1, AdvanceParts
  <2> QED BY <2>1, <2>2, <2>3, <2>4 DEF Agrees
<1> HIDE DEF events, next, out, losses
<1>9. kept \in Nat BY <1>3
<1>10. after \in Folds /\ after.dropped = kept /\ Agrees(after, next)
  <2> DEFINE P == Seq(Nat)
  <2>1. /\ next.run \in Nat /\ next.pending \in P /\ next.known \in SUBSET Nat /\ next.last \in Nat
        /\ next.ordinal \in Nat
        /\ next = [run |-> next.run, pending |-> next.pending, known |-> next.known, last |-> next.last,
                   ordinal |-> next.ordinal, dropped |-> next.dropped]
        /\ Folds = [run : Nat, pending : P, known : SUBSET Nat, last : Nat, ordinal : Nat, dropped : Nat]
    BY <1>7 DEF Folds
  <2> HIDE DEF kept, P
  <2> QED BY <1>9, <2>1 DEF Agrees
<1>11. /\ out \in Seq(LoopEvents) /\ (\A i \in DOMAIN out : out[i].kind # "preview")
       /\ MarksOf(out) = MarksOf(events) /\ Disclosed(out) = IF events = <<>> THEN 0 ELSE losses
  BY <1>3, <1>6, StampParts DEF out
<1> HIDE DEF after
<1>12. Disclosed(out) + after.dropped = losses BY <1>3, <1>10, <1>11
<1>13. Agrees(after, Folded(journal)[n]) BY <1>8, <1>10 DEF Agrees
<1> QED BY <1>5, <1>6, <1>10, <1>11, <1>12, <1>13 DEF losses

LEMMA Balance ==
  ASSUME NEW due \in Nat, NEW shown \in Nat, NEW dropped \in Nat, NEW more \in Nat, NEW left \in Nat,
         NEW waits \in Nat, NEW missed \in Nat, more + left = waits + dropped
  PROVE  due + (shown + more) + missed + left = (dropped + due) + shown + missed + waits
OBVIOUS

\* An item is taken: what it shows is what comes next of the history.
LEMMA TakeKeeps ==
  ASSUME JournalInv, StreamInv, TakeNext
  PROVE  StreamInv'
<1> DEFINE item == Head(source)
           rest == Tail(source)
           step == Apply(stream.fold, item)
           taken == TakenFrom(stream, item, step)
<1>1. /\ stream.open /\ source # <<>> /\ stream' = taken /\ source' = rest
      /\ journal' = journal /\ deltas' = deltas /\ lost' = lost
  BY DEF TakeNext, Take, TakenFrom
<1>2. deltas \in Nat /\ lost \in Nat /\ source \in Seq(Items) /\ stream \in Streams
      /\ Follows(journal, stream, source) /\ Accounted(stream, source, deltas, lost)
  BY DEF StreamInv
<1>3. /\ stream.after \in Nat /\ stream.read \in Nat /\ stream.fold \in Folds
      /\ stream.seen \in Seq(LoopEvents) /\ stream.fold.dropped \in Nat /\ Disclosed(stream.seen) \in Nat
  BY <1>2, StreamParts
<1>4. /\ stream.after <= stream.read /\ stream.read <= Len(journal)
      /\ Following(source, stream.read, Len(journal))
      /\ Agrees(stream.fold, Folded(journal)[stream.read])
      /\ Committed(stream.seen)[Len(stream.seen)] = History(journal, stream.after)[stream.read]
  BY <1>1, <1>2 DEF Follows
<1>5. journal \in Seq(Records) /\ Len(journal) \in Nat BY JournalTyped
<1>6. /\ item \in Items /\ rest \in Seq(Items)
      /\ item.n = 0 => Following(rest, stream.read, Len(journal))
      /\ item.n # 0 => /\ item.n = stream.read + 1 /\ stream.read + 1 <= Len(journal)
                       /\ Following(rest, stream.read + 1, Len(journal))
  BY <1>1, <1>2, <1>3, <1>4, <1>5, FollowingFirst
<1>7. Due(source) = Due(<<item>>) + Due(rest)
  <2>1. <<item>> \in Seq(Items) /\ source = <<item>> \o rest BY <1>1, <1>2, <1>6
  <2> HIDE DEF item, rest
  <2>2. Due(<<item>> \o rest) = Due(<<item>>) + Due(rest) BY <1>6, <2>1, DueMore
  <2> QED BY <2>1, <2>2
<1>8. Due(<<item>>) = item.dropped + (IF item.n = 0 THEN 1 ELSE 0) BY <1>6, DueOne
<1>9. Due(rest) \in Nat /\ item.dropped \in Nat BY <1>6, DueTyped DEF Items
<1>10. Due(source) + Disclosed(stream.seen) + lost + stream.fold.dropped = deltas
  BY <1>1, <1>2 DEF Accounted
<1> HIDE DEF item, rest, step, taken
<1>11. CASE item.n = 0
  <2>1. step.fold \in Folds /\ Agrees(step.fold, stream.fold) /\ step.fold.dropped = 0
    BY <1>3, <1>6, <1>11, PreviewTaken DEF step
  <2>2. PICK event \in LoopEvents :
          /\ step.events = <<event>> /\ event.kind = "preview"
          /\ Disclosed(<<event>>) = stream.fold.dropped + item.dropped + 1
    BY <1>3, <1>6, <1>11, PreviewTaken DEF step
  <2>3. <<event>> \in Seq(LoopEvents)
    OBVIOUS
  <2>4. /\ taken \in Streams /\ taken.open = stream.open /\ taken.after = stream.after
        /\ taken.read = stream.read /\ taken.fold = step.fold /\ taken.seen = stream.seen \o <<event>>
    <3>1. step.events \in Seq(LoopEvents) BY <2>2, <2>3
    <3>2. /\ taken \in Streams /\ taken.open = stream.open /\ taken.after = stream.after
          /\ taken.read = (IF item.n = 0 THEN stream.read ELSE item.n)
          /\ taken.fold = step.fold /\ taken.seen = stream.seen \o step.events
      BY <1>2, <1>6, <2>1, <3>1, TakenTyped DEF taken
    <3> QED BY <1>11, <2>2, <3>2
  <2>5. Committed(taken.seen)[Len(taken.seen)] = Committed(stream.seen)[Len(stream.seen)]
    BY <1>3, <2>2, <2>4, CommittedPreview
  <2>6. Disclosed(taken.seen) = Disclosed(stream.seen) + (stream.fold.dropped + item.dropped + 1)
    BY <1>3, <2>2, <2>3, <2>4, DisclosedMore
  <2>7. Follows(journal, taken, rest)
    <3>1. Agrees(step.fold, Folded(journal)[stream.read]) BY <1>4, <2>1 DEF Agrees
    <3> QED BY <1>4, <1>6, <1>11, <2>4, <2>5, <3>1 DEF Follows
  <2>8. Accounted(taken, rest, deltas, lost)
    <3>1. Due(<<item>>) = item.dropped + 1 BY <1>8, <1>11
    <3>2. Due(rest) + Disclosed(taken.seen) + lost + 0 = deltas
      BY <1>2, <1>3, <1>7, <1>9, <1>10, <2>6, <3>1
    <3> QED BY <1>1, <2>1, <2>4, <3>2 DEF Accounted
  <2> QED BY <1>1, <1>2, <1>6, <2>4, <2>7, <2>8 DEF StreamInv
<1>12. CASE item.n # 0
  <2> DEFINE n == item.n
  <2>1. n = stream.read + 1 /\ n \in 1..Len(journal) /\ n - 1 = stream.read /\ n \in 0..Len(journal)
    BY <1>3, <1>5, <1>6, <1>12
  <2>2. Agrees(stream.fold, Folded(journal)[item.n - 1]) BY <1>4, <2>1
  <2>3. /\ step.fold \in Folds /\ Agrees(step.fold, Folded(journal)[n]) /\ step.events \in Seq(LoopEvents)
        /\ \A i \in DOMAIN step.events : step.events[i].kind # "preview"
        /\ MarksOf(step.events) = Truth(journal, n)
        /\ Disclosed(step.events) + step.fold.dropped = stream.fold.dropped + item.dropped
    BY <1>3, <1>6, <1>12, <2>1, <2>2, RecordTaken DEF step
  <2>4. /\ taken \in Streams /\ taken.open = stream.open /\ taken.after = stream.after
        /\ taken.read = n /\ taken.fold = step.fold /\ taken.seen = stream.seen \o step.events
    BY <1>2, <1>6, <1>12, <2>3, TakenTyped DEF taken
  <2>5. Committed(taken.seen)[Len(taken.seen)] = Committed(stream.seen)[Len(stream.seen)] \o Truth(journal, n)
    BY <1>3, <2>3, <2>4, CommittedMore
  <2>6. Disclosed(taken.seen) = Disclosed(stream.seen) + Disclosed(step.events)
    BY <1>3, <2>3, <2>4, DisclosedMore
  <2>7. Follows(journal, taken, rest)
    <3>1. n > stream.after /\ stream.after <= n /\ n <= Len(journal) BY <1>3, <1>4, <2>1
    <3>2. History(journal, stream.after)[n] = History(journal, stream.after)[n - 1] \o Truth(journal, n)
      BY <1>3, <1>5, <2>1, <3>1, HistorySteps
    <3>3. Following(rest, n, Len(journal)) BY <1>6, <1>12, <2>1
    <3>4. Committed(taken.seen)[Len(taken.seen)] = History(journal, stream.after)[n]
      BY <1>4, <2>1, <2>5, <3>2
    <3> QED BY <2>3, <2>4, <3>1, <3>3, <3>4 DEF Follows
  <2>8. Accounted(taken, rest, deltas, lost)
    <3>1. Due(<<item>>) = item.dropped BY <1>8, <1>9, <1>12
    <3>2. Disclosed(step.events) \in Nat /\ step.fold.dropped \in Nat
      BY <2>3, DisclosedTyped DEF Folds
    <3>3. Due(rest) + Disclosed(taken.seen) + lost + taken.fold.dropped = deltas
      <4>1. lost \in Nat /\ item.dropped \in Nat /\ Due(rest) \in Nat /\ Disclosed(stream.seen) \in Nat
            /\ stream.fold.dropped \in Nat
        BY <1>2, <1>3, <1>9
      <4>2. Disclosed(step.events) + step.fold.dropped = stream.fold.dropped + item.dropped
        BY <2>3
      <4>3. Due(rest) + (Disclosed(stream.seen) + Disclosed(step.events)) + lost + step.fold.dropped
              = (item.dropped + Due(rest)) + Disclosed(stream.seen) + lost + stream.fold.dropped
        BY <3>2, <4>1, <4>2, Balance
      <4>4. taken.fold = step.fold BY <2>4
      <4> QED BY <1>7, <1>10, <2>6, <3>1, <4>3, <4>4
    <3> QED BY <1>1, <2>4, <3>3 DEF Accounted
  <2> QED BY <1>1, <1>2, <1>6, <2>4, <2>7, <2>8 DEF StreamInv
<1> QED BY <1>11, <1>12

-----------------------------------------------------------------------------
\* Every step of the session and of its subscriber keeps both halves.
LEMMA ProjectionStays ==
  ASSUME JournalInv, StreamInv, [ProjectionNext]_projectionVars
  PROVE  JournalInv' /\ StreamInv'
<1>1. CASE UNCHANGED projectionVars BY <1>1 DEF projectionVars, JournalInv, StreamInv
<1>2. CASE WriteHistory BY <1>2, HistoryStep, AddsKeeps
<1>3. CASE WriteStart BY <1>3, StartStep, AddsKeeps
<1>4. CASE WriteAccepted BY <1>4, AcceptedStep, AddsKeeps
<1>5. CASE WriteInjected BY <1>5, InjectedStep, AddsKeeps
<1>6. CASE WriteTurn BY <1>6, TurnStep, AddsKeeps
<1>7. CASE WriteSuspended BY <1>7, SuspendedStep, AddsKeeps
<1>8. CASE WriteResumed BY <1>8, ResumedStep, AddsKeeps
<1>9. CASE WriteClosed BY <1>9, ClosedStep, AddsKeeps
<1>10. CASE Finalize
  <2>1. journal' = journal /\ deltas' = deltas /\ lost' = lost /\ source' = source /\ stream' = stream
    BY <1>10 DEF Finalize
  <2>2. StreamInv' BY <2>1 DEF StreamInv
  <2> QED BY <1>10, <2>2, OtherStep
<1>11. CASE Preview BY <1>11, OtherStep, PreviewKeeps
<1>12. CASE OpenStream BY <1>12, OtherStep, OpenKeeps
<1>13. CASE TakeNext BY <1>13, OtherStep, TakeKeeps
<1> QED BY <1>1, <1>2, <1>3, <1>4, <1>5, <1>6, <1>7, <1>8, <1>9, <1>10, <1>11, <1>12, <1>13
        DEF ProjectionNext

LEMMA ProjectionStarts ==
  ASSUME ProjectionInit
  PROVE  JournalInv /\ StreamInv
<1> DEFINE none == <<>>
<1>1. /\ journal = none /\ drive = "idle" /\ runs = 0 /\ deltas = 0 /\ lost = 0 /\ source = none
      /\ stream = NoStream
  BY DEF ProjectionInit
<1>2. none \in Seq(Records) /\ none \in Seq(Items) /\ none \in Seq(LoopEvents) /\ none \in Seq(Nat) /\ Len(none) = 0
  OBVIOUS
<1>3. NoFold \in Folds /\ NoFold.run = 0 /\ NoFold.pending = <<>>
  <2> DEFINE P == Seq(Nat)
  <2>1. none \in P /\ NoFold = [run |-> 0, pending |-> none, known |-> {}, last |-> 0, ordinal |-> 0, dropped |-> 0]
        /\ Folds = [run : Nat, pending : P, known : SUBSET Nat, last : Nat, ordinal : Nat, dropped : Nat]
    BY <1>2 DEF NoFold, Folds
  <2> HIDE DEF P, none
  <2>2. NoFold \in Folds BY <2>1
  <2> QED BY <2>2 DEF NoFold
<1>4. NoStream \in Streams /\ NoStream.open = FALSE
  <2> DEFINE S == Seq(LoopEvents)
  <2>1. none \in S /\ NoStream = [open |-> FALSE, after |-> 0, read |-> 0, fold |-> NoFold, seen |-> none]
        /\ Streams = [open : BOOLEAN, after : Nat, read : Nat, fold : Folds, seen : S]
    BY <1>2 DEF NoStream, Streams
  <2> HIDE DEF S, none
  <2> QED BY <1>3, <2>1
<1> HIDE DEF none
<1>5. End(none) = NoFold BY <1>2, FoldedSteps DEF End
<1>6. \A n \in 1..Len(none) : FALSE BY <1>2
<1>7. Told(none, End(none))
  <2>1. NoFold = Folded(none)[Len(none)] BY <1>5 DEF End
  <2> QED BY <1>2, <1>3, <1>5, <1>6, <2>1 DEF Told
<1>8. JournalInv BY <1>1, <1>3, <1>5, <1>6, <1>7 DEF JournalInv, JournalHolds, Drives
<1>9. StreamInv BY <1>1, <1>2, <1>4 DEF StreamInv, Follows, Accounted
<1> QED BY <1>8, <1>9

\* A subscriber sees the session's records whole, in order, under the run each
\* belongs to, wherever its stream begins and however the session's writes, its
\* previews and the reader's steps interleave; it is told of every preview the
\* hub dropped (loop_projection.go, loop_fold.go and the streams of loop_view.go).
THEOREM StreamKeepsFaith == ProjectionSpec => []StreamIsFaithful
<1>1. ProjectionInit => JournalInv /\ StreamInv BY ProjectionStarts
<1>2. JournalInv /\ StreamInv /\ [ProjectionNext]_projectionVars => (JournalInv /\ StreamInv)'
  BY ProjectionStays
<1>3. StreamInv => StreamIsFaithful
  BY DEF StreamInv, Follows, Accounted, Due, Disclosed, StreamIsFaithful, StreamShowsHistory, LossIsReported
<1> QED BY <1>1, <1>2, <1>3, PTL DEF ProjectionSpec
=============================================================================
