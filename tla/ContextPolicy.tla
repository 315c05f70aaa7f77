----------------------------- MODULE ContextPolicy -----------------------------
(***************************************************************************)
(* The provider view of a session (harness/contextpolicy, projected by     *)
(* harness/session/context.go): durable additions and an ephemeral tail    *)
(* around an append-only transcript, and a persisted recipe that replaces  *)
(* one prefix of it by a summary.                                          *)
(*                                                                         *)
(*   journal    entries: messages, system, markers, interrupts, recipes    *)
(*   messages   s.messages, markers  s.contextMarkers, recipe s.compaction *)
(*   run        phase, root (the driver's own history), count (the markers *)
(*              its history had), request (what Project was handed), open  *)
(*              (calls of this frontier without a result)                  *)
(*   view       the last projection, before the terminal repair            *)
(*   refused    a projection found its history or its recipe not to match  *)
(*                                                                         *)
(* A message counts one token.  Hashes are the messages themselves.        *)
(***************************************************************************)
EXTENDS Naturals, FiniteSets, Sequences, SequencesExt

CONSTANTS
  Trigger, Target,   \* thresholds in tokens, Target < Trigger
  RecentMessages,    \* the reserve no compaction touches
  SystemVaries,      \* the agent's system prompt may be empty in some runs
  MaxMessages,       \* bound on the transcript
  MaxExtras,         \* bound on durable additions
  MaxMishaps         \* bound on crashes, interrupts, failures and deferrals

VARIABLES journal, messages, markers, recipe, run, view, refused, prompted, mishaps
contextVars == <<journal, messages, markers, recipe, run, view, refused, prompted, mishaps>>

Message(role, id) == [role |-> role, id |-> id, calls |-> {}, of |-> 0]
System == Message("system", 0)
EphemeralTail == Message("user", 0)
Summary == Message("summary", 0)
NoRecipe == [start |-> 0, cut |-> 0, prefix |-> <<>>]
NoRun == [phase |-> "idle", root |-> <<>>, count |-> 0, request |-> <<>>, open |-> {}]

HasSystem(list) == \E i \in DOMAIN list : list[i].role = "system"
StartsWithSystem(list) == list # <<>> /\ list[1].role = "system"
NextId == Len(journal) + 1
Fresh == Message("user", NextId)

\* a marker stands behind the first `after' messages
providerHistory(base, marks) ==
  LET Marks(n, exact) ==
        SelectSeq(marks, LAMBDA m : IF exact THEN m.after = n ELSE m.after <= n)
      Texts(chosen) == [i \in DOMAIN chosen |-> chosen[i].message]
      Upto[n \in 0..Len(base)] ==
        IF n = 0 THEN Texts(Marks(0, FALSE))
        ELSE Append(Upto[n - 1], base[n]) \o Texts(Marks(n, TRUE))
  IN Upto[Len(base)]

\* fault: markers keep their place
shiftNothing(marks) == marks

shiftContextMarkers(marks) == [i \in DOMAIN marks |-> [marks[i] EXCEPT !.after = @ + 1]]

contextViews ==
  LET lifted == StartsWithSystem(run.root) /\ ~StartsWithSystem(messages)
      base == IF lifted THEN <<System>> \o messages ELSE messages
      marks == IF lifted THEN [i \in DOMAIN markers |-> [markers[i] EXCEPT !.after = @ + 1]]
               ELSE markers
  IN [expected |-> providerHistory(base, SubSeq(marks, 1, run.count)),
      full |-> providerHistory(base, marks)]

Applies(list, r) ==
  /\ r.start < r.cut /\ r.cut <= Len(list)
  /\ SubSeq(list, r.start + 1, r.cut) = r.prefix
Apply(list, r) ==
  SubSeq(list, 1, r.start) \o <<Summary>> \o SubSeq(list, r.cut + 1, Len(list))

\* calls opened and not closed within the first n messages
OpenAt(list, n) ==
  UNION {list[i].calls : i \in 1..n} \ {list[i].of : i \in 1..n}
Overlaps(list) ==
  \E i \in DOMAIN list : list[i].calls # {} /\ OpenAt(list, i - 1) # {}

\* fault: a transcript may be cut anywhere
BoundariesAnywhere(list, start) == {n \in start + 1 .. Len(list) : n + RecentMessages <= Len(list)}

Boundaries(list, start) ==
  {n \in start + 1 .. Len(list) : n + RecentMessages <= Len(list) /\ OpenAt(list, n) = {}}

compactionCut(list) ==
  LET start == IF StartsWithSystem(list) THEN 1 ELSE 0
      cuts == Boundaries(list, start)
      cut == CHOOSE n \in cuts : \A m \in cuts : m <= n
  IN IF Overlaps(list) \/ cuts = {} THEN NoRecipe
     ELSE [start |-> start, cut |-> cut, prefix |-> SubSeq(list, start + 1, cut)]

ContextInit ==
  /\ journal = <<>> /\ messages = <<>> /\ markers = <<>>
  /\ recipe = NoRecipe /\ run = NoRun /\ view = <<>>
  /\ refused = FALSE /\ prompted \in BOOLEAN /\ mishaps = 0

Entry(kind, message, after, r) == [kind |-> kind, message |-> message, after |-> after, recipe |-> r]
MessageEntry(m) == Entry("message", m, 0, NoRecipe)
SystemEntry == Entry("system", System, 0, NoRecipe)

\* the fold of the journal (recovery.go)
FoldEntry(s, e) ==
  CASE e.kind = "message" -> [s EXCEPT !.messages = Append(@, e.message)]
    [] e.kind = "system" /\ ~StartsWithSystem(s.messages) ->
         [s EXCEPT !.messages = <<System>> \o @, !.markers = shiftContextMarkers(@)]
    [] e.kind = "system" /\ StartsWithSystem(s.messages) -> s
    [] e.kind = "marker" ->
         [s EXCEPT !.markers = Append(@, [after |-> e.after, message |-> e.message])]
    [] e.kind = "interrupt" ->
         [s EXCEPT !.markers = Append(@, [after |-> Len(s.messages), message |-> e.message])]
    [] e.kind = "compaction" -> [s EXCEPT !.recipe = e.recipe]
Folded == FoldLeft(FoldEntry, [messages |-> <<>>, markers |-> <<>>, recipe |-> NoRecipe], journal)

--------------------------------------------------------------------------------
\* a run starts from the history with its markers; the driver puts the system
\* prompt before it when it holds none
Root(history, system) ==
  IF system /\ ~HasSystem(history) THEN <<System>> \o history ELSE history

RunBegins ==
  /\ run.phase = "idle" /\ ~refused /\ Len(messages) + 2 <= MaxMessages
  /\ \E system \in (IF SystemVaries THEN BOOLEAN ELSE {prompted}) :
       run' = [NoRun EXCEPT !.phase = "asking", !.count = Len(markers),
                            !.root = Append(Root(providerHistory(messages, markers), system), Fresh)]
  /\ messages' = Append(messages, Fresh)
  /\ journal' = Append(journal, MessageEntry(Fresh))
  /\ UNCHANGED <<markers, recipe, view, refused, prompted, mishaps>>

\* projectHistory compares under the lock, projects without it
ProjectBegins ==
  /\ run.phase = "asking" /\ ~refused
  /\ IF contextViews.expected = run.root
       THEN run' = [run EXCEPT !.phase = "projecting", !.request = contextViews.full]
            /\ UNCHANGED refused
       ELSE refused' = TRUE /\ UNCHANGED run
  /\ UNCHANGED <<journal, messages, markers, recipe, view, prompted, mishaps>>

\* additions and a changed recipe are one batch, then they are the state
Commits(additions, next, projected) ==
  /\ journal' = journal
       \o [i \in DOMAIN additions |-> Entry("marker", additions[i], Len(messages), NoRecipe)]
       \o (IF next = recipe THEN <<>> ELSE <<Entry("compaction", System, 0, next)>>)
  /\ markers' = markers
       \o [i \in DOMAIN additions |-> [after |-> Len(messages), message |-> additions[i]]]
  /\ recipe' = next /\ view' = projected
  /\ run' = [run EXCEPT !.phase = "asked", !.request = <<>>]
  /\ UNCHANGED <<messages, prompted, mishaps>>

FailsToProject ==
  /\ run' = [run EXCEPT !.phase = "failed"]
  /\ UNCHANGED <<journal, messages, markers, recipe, view, prompted, mishaps>>

\* the transforms have run; a crowded view is compacted, or the run fails
Projected(additions, tail) ==
  LET durable == run.request \o additions
      full == durable \o tail
      current == IF recipe = NoRecipe THEN full ELSE Apply(full, recipe)
      next == compactionCut(durable)
      compacted == Apply(full, next)
  IN /\ UNCHANGED refused
     /\ IF Len(current) < Trigger THEN Commits(additions, recipe, current)
        ELSE IF next = NoRecipe \/ Len(compacted) > Target THEN FailsToProject
        ELSE Commits(additions, next, compacted) \/ FailsToProject   \* the compactor fails

\* Apply refuses a recipe whose prefix changed, and the run fails
ProjectEnds ==
  /\ run.phase = "projecting"
  /\ IF recipe # NoRecipe /\ ~Applies(run.request, recipe)
     THEN refused' = TRUE /\ FailsToProject
     ELSE \E additions \in {<<>>} \union (IF Len(markers) < MaxExtras THEN {<<Fresh>>} ELSE {}),
                tail \in {<<>>, <<EphemeralTail>>} : Projected(additions, tail)

--------------------------------------------------------------------------------
\* the sink commits what the driver appends
Commit(m) ==
  /\ messages' = Append(messages, m)
  /\ journal' = Append(journal, MessageEntry(m))

ModelCalls(count) ==
  /\ run.phase = "asked" /\ Len(messages) + count + 1 <= MaxMessages
  /\ LET m == [Message("assistant", NextId) EXCEPT !.calls = {NextId * 10 + k : k \in 1..count}]
     IN Commit(m) /\ run' = [run EXCEPT !.phase = "calling", !.root = Append(@, m), !.open = m.calls]
  /\ UNCHANGED <<markers, recipe, view, refused, prompted, mishaps>>

Result(call) == [Message("tool", NextId) EXCEPT !.of = call]

ToolReturns(call) ==
  /\ run.phase = "calling" /\ call \in run.open
  /\ Commit(Result(call))
  /\ run' = [run EXCEPT !.root = Append(@, Result(call)), !.open = @ \ {call},
                        !.phase = IF run.open = {call} THEN "asking" ELSE "calling"]
  /\ UNCHANGED <<markers, recipe, view, refused, prompted, mishaps>>

\* the system message the driver put first is kept when the run settles
KeepsSystem == StartsWithSystem(run.root) /\ ~StartsWithSystem(messages)
LiftedMarkers == IF KeepsSystem THEN shiftContextMarkers(markers) ELSE markers
Lifted(list) == IF KeepsSystem THEN <<System>> \o list ELSE list
SystemEntries == IF KeepsSystem THEN <<SystemEntry>> ELSE <<>>

ModelAnswers ==
  /\ run.phase = "asked"
  /\ LET m == Message("assistant", NextId)
     IN /\ messages' = Lifted(Append(messages, m))
        /\ journal' = Append(journal, MessageEntry(m)) \o SystemEntries
  /\ markers' = LiftedMarkers /\ run' = NoRun
  /\ UNCHANGED <<recipe, view, refused, prompted, mishaps>>

Mishap == mishaps < MaxMishaps /\ mishaps' = mishaps + 1

\* a failed run settles as it is: calls without a result stay open
RunFails ==
  /\ \/ run.phase = "failed" /\ UNCHANGED mishaps
     \/ run.phase \in {"asked", "calling"} /\ Mishap
  /\ messages' = Lifted(messages) /\ journal' = journal \o SystemEntries
  /\ markers' = LiftedMarkers /\ run' = NoRun
  /\ UNCHANGED <<recipe, view, refused, prompted>>

Defers ==
  /\ run.phase = "calling" /\ Mishap
  /\ messages' = Lifted(messages) /\ journal' = journal \o SystemEntries
  /\ markers' = LiftedMarkers /\ run' = [run EXCEPT !.phase = "suspended"]
  /\ UNCHANGED <<recipe, view, refused, prompted>>

\* results for the calls left open by the transcript's last frontier
Closing(calls) ==
  LET order == SetToSeq(calls) IN [i \in DOMAIN order |-> [Result(order[i]) EXCEPT !.id = @ + i]]
Continues(added) ==
  /\ messages' = messages \o added
  /\ journal' = journal \o [i \in DOMAIN added |-> MessageEntry(added[i])]
  /\ run' = [NoRun EXCEPT !.phase = "asking", !.count = Len(markers),
               !.root = Root(providerHistory(messages', markers), prompted)]
  /\ UNCHANGED <<markers, recipe, view, refused, prompted, mishaps>>

Resumes == run.phase = "suspended" /\ Continues(Closing(run.open))

\* repair refuses to write results between committed messages: a frontier that
\* an earlier failed run left open faults the session
Parted == OpenAt(messages, Len(messages)) # run.open
Faults == /\ run' = [run EXCEPT !.phase = "faulted"]
          /\ UNCHANGED <<journal, messages, markers, recipe, view, refused, prompted>>

\* repair closes the frontier, and a marker tells the model of the interrupt
Interrupts ==
  /\ run.phase \in {"asking", "projecting", "asked", "calling"} /\ ~refused /\ Mishap
  /\ IF Parted THEN Faults
     ELSE LET added == Closing(run.open)
              note == Message("user", NextId + Len(added) + 1)
          IN /\ messages' = Lifted(messages \o added)
             /\ markers' = Append(LiftedMarkers, [after |-> Len(messages'), message |-> note])
             /\ journal' = journal \o [i \in DOMAIN added |-> MessageEntry(added[i])]
                             \o SystemEntries \o <<Entry("interrupt", note, 0, NoRecipe)>>
             /\ run' = NoRun
             /\ UNCHANGED <<recipe, view, refused, prompted>>

\* a crash leaves the journal; an unfinished run is recovered under its identity
Crash ==
  /\ ~refused /\ Mishap
  /\ messages' = Folded.messages /\ markers' = Folded.markers /\ recipe' = Folded.recipe
  /\ run' = IF run.phase \in {"idle", "suspended"} THEN run ELSE [run EXCEPT !.phase = "crashed"]
  /\ UNCHANGED <<journal, view, refused, prompted>>

Recovers ==
  /\ run.phase = "crashed"
  /\ IF Parted THEN Faults /\ UNCHANGED mishaps ELSE Continues(Closing(run.open))

ContextNext ==
  \/ RunBegins \/ ProjectBegins \/ ProjectEnds
  \/ \E count \in 1..2 : ModelCalls(count)
  \/ \E call \in run.open : ToolReturns(call)
  \/ ModelAnswers \/ RunFails \/ Defers \/ Resumes \/ Interrupts
  \/ Crash \/ Recovers

ContextSpec == ContextInit /\ [][ContextNext]_contextVars

--------------------------------------------------------------------------------
\* Through runs, suspensions, interrupts and crashes the history the driver
\* holds is the one the session derives, and a persisted recipe applies to
\* every later transcript.
HistoryIsAppendOnly == ~refused

\* A view holds a result with its call or neither: no compaction parts them.
ViewKeepsFrontiers ==
  LET list == providerHistory(messages, markers)
      answered == {list[i].of : i \in DOMAIN list} \ {0}
      called == UNION {view[i].calls : i \in DOMAIN view}
      closed == {view[i].of : i \in DOMAIN view} \ {0}
  IN run.phase = "asked" => closed \subseteq called /\ called \intersect answered \subseteq closed

\* A session that is told to go on can: its transcript can be compacted.
CanBeCompacted == ~Overlaps(providerHistory(messages, markers))
================================================================================
