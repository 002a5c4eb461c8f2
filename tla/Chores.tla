-------------------------------- MODULE Chores --------------------------------
(***************************************************************************)
(* What the chore chain of stage 7 makes of a delivery: the author's       *)
(* characteristics.md (maestro/characteristics.py), the batch's own        *)
(* choices of targets, divisions and contest list (settings.py) and the    *)
(* stages an earlier attempt completed, from the check at ingest to the    *)
(* end of the chores (electicode_lane.py, _chores).                        *)
(*                                                                         *)
(* ElectiCodeLane has the control of that stage, every store write and     *)
(* every crash; this module has its data, and a step is what one thread    *)
(* does between two moments at which another may write: the author edits   *)
(* the delivered file, the operator changes a choice, the chain is killed. *)
(* A document is a sequence of lines, a line is what parse tells it to be, *)
(* and the tag line that belongs to a problem is named after the problem.  *)
(***************************************************************************)
EXTENDS Integers, Sequences, FiniteSets, TLC

CONSTANTS
  Slug,         \* the problems of the manifest
  Vocabulary,   \* the names a choice may take (DIVISIONS, LANGUAGES; a URL)
  Defaults,     \* the keys the configuration has a default for
  MaxEvents     \* bound: edits of the delivered file after its check, settings
                \* requests, and attempts after a failed one

Key   == {"targets", "divisions", "list_url"}   \* FIELDS
Group == {"fresh", "existing"}
Unset == {"unset"}     \* None: never chosen
Odd   == "odd"         \* a name outside the vocabulary, a slug outside the manifest
NoSlug == "[none]"     \* one of _NONE_TOKENS

Configured == [k \in Key |-> IF k \in Defaults THEN Vocabulary ELSE {}]

ASSUME SlugAssumption == IsFiniteSet(Slug)
ASSUME DefaultsAssumption == Defaults \subseteq Key /\ Vocabulary # {}
ASSUME NamesAssumption == Odd \notin Vocabulary \cup Slug /\ NoSlug \notin Slug
ASSUME BoundsAssumption == MaxEvents \in Nat

VARIABLES
  manifest,  \* what MANIFEST.json says: who has tags and limits, mixed languages?
  doc,       \* characteristics.md as it lies in the delivery
  phase,     \* "delivered", "refused", "accepted", then the run at stage 7:
             \* "chores" between invocations, "chain", "failed", "audit"
  rows,      \* existed_before_upload of the survivors: problem -> group
  chored,    \* the survivors marked CHORED
  choice,    \* runs.targets, divisions, list_url
  group,     \* the group in hand
  source,    \* what _chores parsed at the start of its pass over the groups
  args,      \* the choices as it read them then
  file,      \* characteristics-<group>.md
  plan,      \* the stages of the invocation that have still to run
  ran,       \* those that completed
  joined,    \* whom list add reported as joined
  doneFile,  \* chores-<group>-done.json
  got,       \* the platform: what each problem has; of one that existed before the upload
             \* nothing is known until then
  earlier,   \* history: what each problem had from before the upload
  unsure,    \* history: problems of which the log says that the list was not verified
  late,      \* history: keys chosen anew after stage 7 began
  edited,    \* history: was the document edited after its check?
  events     \* history: events so far

delivery == <<manifest, doc, edited>>
chosen   == <<choice, late>>
chain    == <<group, file, plan, ran, joined>>
pass     == <<source, args>>
lane     == <<rows, chored, doneFile, unsure, earlier>>
vars     == <<delivery, phase, lane, chosen, chain, pass, got, events>>

-----------------------------------------------------------------------------
(***************************************************************************)
(* Documents.                                                              *)
(***************************************************************************)

Mark(kind) == [kind |-> kind]
Row(s, easy, limit) == [kind |-> "row", slug |-> s, easy |-> easy, limit |-> limit]
TagLine(s) == [kind |-> "tag", tag |-> s]

\* The first place at or after i with a line of those kinds, or the place after the end.
FirstOf(lines, i, kinds) ==
  CHOOSE k \in i .. Len(lines) + 1 :
    /\ k = Len(lines) + 1 \/ lines[k].kind \in kinds
    /\ \A j \in i .. k - 1 : lines[j].kind \notin kinds

\* The places of a set, from the first to the last.
InOrder(places) ==
  [k \in 1 .. Cardinality(places) |->
     CHOOSE i \in places : Cardinality({j \in places : j <= i}) = k]

\* What q has at some of its places, in the order it has it.
At(q, places) == [k \in DOMAIN InOrder(places) |-> q[InOrder(places)[k]]]

Kinds == {"title", "general", "header", "separator", "row", "blank", "suggested", "tag",
          "none", "rule", "heading"}
Table == {"header", "separator", "row"}

IsRow(l) == l.kind = "row" /\ l.slug # NoSlug

\* The rows below "## General": the first block of table lines, less the two on top of
\* it, which name and rule off the columns; a row without a slug is passed over.
TableRows(lines) ==
  LET heading == FirstOf(lines, 1, {"general"})
      first   == FirstOf(lines, heading, Table)
      end     == FirstOf(lines, first, Kinds \ Table)
  IN  IF heading > Len(lines) \/ end < first + 3 \/ lines[first].kind # "header" THEN <<>>
      ELSE At(lines, {i \in first + 2 .. end - 1 : IsRow(lines[i])})

\* The numbered lines below "## Suggested tags", up to a heading or a rule; "[none]"
\* takes back all of them.
TagLines(lines) ==
  LET heading == FirstOf(lines, 1, {"suggested"})
      end     == FirstOf(lines, heading + 1, {"general", "suggested", "heading", "rule", "none"})
  IN  IF heading > Len(lines) \/ (end <= Len(lines) /\ lines[end].kind = "none") THEN <<>>
      ELSE At(lines, {i \in heading .. end - 1 : lines[i].kind = "tag"})

parse(lines) == [rows |-> TableRows(lines), tags |-> TagLines(lines),
                 found |-> FirstOf(lines, 1, {"general"}) <= Len(lines)]

tags_will_apply(c) == c.tags # <<>> /\ Len(c.tags) = Len(c.rows)

RowsOf(c) == {c.rows[i].slug : i \in DOMAIN c.rows}

\* The places of c whose rows are kept.
Kept(c, slugs) == {i \in DOMAIN c.rows : c.rows[i].slug \in slugs}

SubsetFirstTags(c, slugs) ==   \* mutant: the tags are cut, not filtered
  [rows  |-> At(c.rows, Kept(c, slugs)),
   tags  |-> IF tags_will_apply(c) THEN SubSeq(c.tags, 1, Cardinality(Kept(c, slugs))) ELSE <<>>,
   found |-> c.found]

\* Tags travel with their rows or not at all.
subset(c, slugs) ==
  [rows  |-> At(c.rows, Kept(c, slugs)),
   tags  |-> IF tags_will_apply(c) THEN At(c.tags, Kept(c, slugs)) ELSE <<>>,
   found |-> c.found]

RenderUnruled(c) ==   \* mutant: no line below the header
  <<Mark("title"), Mark("blank"), Mark("general"), Mark("blank"), Mark("header")>>
    \o c.rows \o <<Mark("blank"), Mark("suggested"), Mark("blank")>>
    \o (IF c.tags = <<>> THEN <<Mark("none")>> ELSE c.tags)

\* The columns TL and ML are not written; nothing reads them out of the group's file.
render(c) ==
  <<Mark("title"), Mark("blank"), Mark("general"), Mark("blank"), Mark("header"), Mark("separator")>>
    \o c.rows \o <<Mark("blank"), Mark("suggested"), Mark("blank")>>
    \o (IF c.tags = <<>> THEN <<Mark("none")>> ELSE c.tags)

-----------------------------------------------------------------------------
(***************************************************************************)
(* precheck: C-1 to C-7.                                                   *)
(***************************************************************************)

MisTaggedAsSet(c) ==   \* mutant: the right lines, in any order
  {c.tags[i].tag : i \in DOMAIN c.tags} # {c.rows[i].slug : i \in DOMAIN c.rows} \cap manifest.tagged

MisTagged(c) == \E i \in DOMAIN c.tags :
  c.rows[i].slug \in manifest.tagged /\ c.tags[i].tag # c.rows[i].slug

Refusals(c) ==
  LET ids == [i \in DOMAIN c.rows |-> c.rows[i].slug]
  IN  IF ~c.found \/ c.rows = <<>> THEN {"C-1"} ELSE
      {k \in {"C-2", "C-3", "C-4", "C-5", "C-6", "C-7"} :
         CASE k = "C-2" -> c.tags # <<>> /\ Len(c.tags) # Len(c.rows)
           [] k = "C-3" -> \E i \in DOMAIN ids : ~c.rows[i].easy
           [] k = "C-4" -> RowsOf(c) # Slug \/ Cardinality(RowsOf(c)) # Len(ids)
           [] k = "C-5" -> tags_will_apply(c) /\ MisTagged(c)
           [] k = "C-6" -> manifest.mixed
           [] k = "C-7" -> \E i \in DOMAIN ids :
                             ids[i] \in manifest.limited /\ c.rows[i].limit # "same"}

Event == events < MaxEvents /\ events' = events + 1

Precheck ==
  /\ phase = "delivered"
  /\ phase' = IF Refusals(parse(doc)) = {} THEN "accepted" ELSE "refused"
  /\ UNCHANGED <<delivery, lane, chosen, chain, pass, got, events>>

-----------------------------------------------------------------------------
(***************************************************************************)
(* The batch's own choices.                                                *)
(***************************************************************************)

EffectiveIfAny(key, value) ==   \* mutant: an empty choice is no choice
  IF value \in {Unset, {}} THEN Configured[key] ELSE value

effective(key, value) == IF value = Unset THEN Configured[key] ELSE value

AcceptsAll(key, value) == TRUE   \* mutant

\* normalise finds nothing unknown; the contest list is free text.
Accepts(key, value) == value = Unset \/ key = "list_url" \/ value \subseteq Vocabulary

\* A transaction for each key of a request: the keys before one that is refused stay
\* stored, as if they had been asked for one by one.  A pass over the groups reads the
\* choices once, so that one made during it is as good as one made after it.
Choose(key, value) ==
  /\ phase \in {"accepted", "failed"} /\ Accepts(key, value) /\ Event
  /\ value # choice[key]
  /\ choice' = [choice EXCEPT ![key] = value]
  /\ late' = IF phase = "accepted" THEN late ELSE late \cup {key}
  /\ UNCHANGED <<delivery, phase, lane, chain, pass, got>>

-----------------------------------------------------------------------------
(***************************************************************************)
(* Stage 7.                                                                *)
(***************************************************************************)

\* _chores reads the delivered file and the choices, for all groups.
BeginPass ==
  /\ phase' = "chores" /\ source' = parse(doc)
  /\ args' = [k \in Key |-> effective(k, choice[k])]

\* A problem nobody has worked on yet, and one that has another's tag, a translation and
\* a division of an earlier time, and its place in the list.
Blank    == [tags |-> {}, level |-> FALSE, translated |-> {}, divisions |-> {}, listed |-> FALSE]
WorkedOn == [tags |-> {Odd}, level |-> FALSE, translated |-> {Odd}, divisions |-> {Odd},
             listed |-> TRUE]

\* The upload is over: some problems were quarantined, of the others some existed, and
\* what these have no tool looks at; bound: they are alike in it, and have nothing if the
\* manifest leaves a problem without tags.
Upload(r, entry) ==
  /\ phase = "accepted" /\ BeginPass
  /\ entry = Blank \/ manifest.tagged = Slug
  /\ rows' = r
  /\ earlier' = [s \in Slug |-> IF s \in DOMAIN r /\ r[s] = "existing" THEN entry ELSE Blank]
  /\ got' = earlier'
  /\ UNCHANGED <<delivery, chored, doneFile, unsure, chosen, chain, events>>

\* By the operator, or by itself where the failed stage may be repeated.
Resume ==
  /\ phase = "failed" /\ BeginPass /\ Event
  /\ UNCHANGED <<delivery, lane, chosen, chain, got>>

MembersFilled(g) ==   \* mutant: a problem without a survivor's row counts as existing
  {s \in Slug : IF s \in DOMAIN rows THEN rows[s] = g /\ s \notin chored ELSE g = "existing"}

Members(g) == {s \in DOMAIN rows : rows[s] = g /\ s \notin chored}

\* Every stage batch.py has work for, without those on the skip list.
Order == <<"translate", "metadata", "division", "list-add", "list-reorder">>
Wanted(k) ==
  CASE k = "translate" -> args["targets"] # {}
    [] k = "metadata"  -> TRUE
    [] k = "division"  -> args["divisions"] # {}
    [] OTHER           -> args["list_url"] # {}

StartChain(g) ==
  /\ phase = "chores" /\ Members(g) # {} /\ (g = "existing" => Members("fresh") = {})
  /\ phase' = "chain" /\ group' = g
  /\ file' = render(subset(source, Members(g)))
  /\ plan' = IF parse(file').rows = <<>> THEN <<>>
             ELSE At(Order, {i \in DOMAIN Order : Wanted(Order[i]) /\ Order[i] \notin doneFile[g]})
  /\ ran' = {} /\ joined' = {}
  /\ UNCHANGED <<delivery, lane, chosen, pass, got, events>>

\* build_plan pairs the tag lines with the rows by their places.
Paired(c, s) ==
  IF tags_will_apply(c) THEN {c.tags[i].tag : i \in {j \in DOMAIN c.rows : c.rows[j].slug = s}}
                        ELSE {}

Effect(k, s, c) ==
  CASE k = "translate" -> [got[s] EXCEPT !.translated = @ \cup args["targets"]]
    [] k = "metadata"  -> [got[s] EXCEPT !.level = TRUE,
                             !.tags = IF group = "fresh" /\ Paired(c, s) # {} THEN Paired(c, s)
                                      ELSE @ \cup Paired(c, s)]
    [] k = "division"  -> [got[s] EXCEPT !.divisions = args["divisions"]]
    [] k = "list-add"  -> [got[s] EXCEPT !.listed = @ \/ s \in joined']
    [] OTHER           -> got[s]

\* The next stage, for every row of the file; the list takes whom it finds.
StageRuns ==
  LET c == parse(file) IN
  /\ phase = "chain" /\ plan # <<>>
  /\ joined' \in IF Head(plan) = "list-add" THEN SUBSET RowsOf(c) ELSE {joined}
  /\ got' = [s \in Slug |-> IF s \in RowsOf(c) THEN Effect(Head(plan), s, c) ELSE got[s]]
  /\ ran' = ran \cup {Head(plan)} /\ plan' = Tail(plan)
  /\ UNCHANGED <<delivery, phase, lane, chosen, group, file, pass, events>>

Fail ==
  /\ phase' = "failed"
  /\ UNCHANGED <<delivery, rows, chored, unsure, earlier, chosen, chain, pass, got, events>>

\* A stage fails, or the tool is stopped: what completed is skipped the next time.
ChainFails ==
  /\ phase = "chain"
  /\ doneFile' = [doneFile EXCEPT ![group] = @ \cup ran]
  /\ Fail

\* _did_nothing.
PlanEmpty ==
  /\ phase = "chain" /\ plan = <<>> /\ ran = {}
  /\ Fail /\ UNCHANGED doneFile

\* list_landed: LI-1 and LI-2.
NotJoined ==
  /\ phase = "chain" /\ plan = <<>> /\ args["list_url"] # {}
  /\ "list-add" \in ran /\ ~(Members(group) \subseteq joined)
  /\ Fail /\ UNCHANGED doneFile

UnverifiedNever == {}   \* mutant: no events, no finding

\* LI-0: without events of the list step the list could not be verified.
Unverified == IF args["list_url"] # {} /\ "list-add" \notin ran THEN Members(group) ELSE {}

ChainEnds ==
  /\ phase = "chain" /\ plan = <<>> /\ ran # {}
  /\ (args["list_url"] # {} /\ "list-add" \in ran) => Members(group) \subseteq joined
  /\ unsure' = unsure \cup Unverified
  /\ chored' = chored \cup Members(group)
  /\ phase' = "chores"
  /\ UNCHANGED <<delivery, rows, doneFile, earlier, chosen, chain, pass, got, events>>

EndChores ==
  /\ phase = "chores" /\ chored = DOMAIN rows /\ phase' = "audit"
  /\ UNCHANGED <<delivery, lane, chosen, chain, pass, got, events>>

\* The author goes on working in the delivered folder; bound: one line is lost.
Edit(lines) ==
  /\ phase \in {"accepted", "failed"} /\ ~edited /\ Event
  /\ parse(lines) # parse(doc)
  /\ doc' = lines /\ edited' = TRUE
  /\ UNCHANGED <<manifest, phase, lane, chosen, chain, pass, got>>

Without(lines, i) == SubSeq(lines, 1, i - 1) \o SubSeq(lines, i + 1, Len(lines))

Rest == phase \in {"refused", "failed", "audit"} /\ UNCHANGED vars

Next ==
  \/ Precheck \/ StageRuns \/ ChainFails \/ PlanEmpty \/ NotJoined \/ ChainEnds \/ EndChores
  \/ Resume \/ Rest
  \/ \E key \in Key : \E value \in {Unset, {Odd}} \cup SUBSET Vocabulary : Choose(key, value)
  \/ \E some \in (SUBSET Slug) \ {{}} : \E r \in [some -> Group] :
       \E entry \in {Blank, WorkedOn} : Upload(r, entry)
  \/ \E g \in Group : StartChain(g)
  \/ \E i \in DOMAIN doc : Edit(Without(doc, i))

\* An author's document, with one slip at most.
Slips == {"none", "miscased", "gap", "unruled", "ended", "taken back", "untitled",
          "odd group", "other limit", "no limit"}

After1(lines, more) == IF lines = <<>> THEN more ELSE <<Head(lines)>> \o more \o Tail(lines)

Written(slugs, tags, slip) ==
  LET table == [i \in DOMAIN slugs |-> Row(slugs[i], i > 1 \/ slip # "odd group",
                 IF i > 1 THEN "same" ELSE IF slip = "other limit" THEN "other"
                 ELSE IF slip = "no limit" THEN "none" ELSE "same")]
      lines == [i \in DOMAIN tags |-> TagLine(tags[i])]
  IN  <<Mark(IF slip = "miscased" THEN "heading" ELSE "general"), Mark("header")>>
        \o (IF slip = "unruled" THEN <<>> ELSE <<Mark("separator")>>)
        \o After1(table, IF slip = "gap" THEN <<Mark("blank")>> ELSE <<>>)
        \o <<Mark("blank"), Mark(IF slip = "untitled" THEN "heading" ELSE "suggested")>>
        \o After1(lines, IF slip = "ended" THEN <<Mark("rule")>> ELSE <<>>)
        \o (IF slip = "taken back" THEN <<Mark("none")>> ELSE <<>>)

SeqsUpTo(S, n) == UNION {[1 .. k -> S] : k \in 0 .. n}
Injective(q) == \A i, j \in DOMAIN q : q[i] = q[j] => i = j

\* The document is of a manifest's problems; bound: a slip in its tags is of one that
\* tags them all.
IsDelivered ==
  \E slugs \in SeqsUpTo(Slug \cup {Odd, NoSlug}, Cardinality(Slug)),
     tags \in {q \in SeqsUpTo(Slug, Cardinality(Slug)) : Injective(q)}, slip \in Slips :
    /\ slip # "none" => tags = slugs
    /\ slip \in {"taken back", "untitled"} => manifest.tagged = Slug
    /\ doc = Written(slugs, tags, slip)

Init ==
  /\ manifest \in {[tagged |-> t, limited |-> t, mixed |-> m] :
                     t \in {u \in SUBSET Slug : Cardinality(Slug \ u) <= 1}, m \in BOOLEAN}
  /\ IsDelivered
  /\ phase = "delivered" /\ rows = <<>> /\ chored = {} /\ unsure = {}
  /\ choice = [k \in Key |-> Unset] /\ late = {}
  /\ group = "fresh" /\ source = parse(<<>>) /\ file = <<>> /\ args = Configured
  /\ plan = <<>> /\ ran = {} /\ joined = {}
  /\ doneFile = [g \in Group |-> {}]
  /\ earlier = [s \in Slug |-> Blank] /\ got = earlier
  /\ edited = FALSE /\ events = 0

Spec == Init /\ [][Next]_vars

\* The problems are alike.
Symmetry == Permutations(Slug)

-----------------------------------------------------------------------------
(***************************************************************************)
(* Properties.                                                             *)
(***************************************************************************)

\* Well typed; what is stored of a closed choice is from its vocabulary.
TypeOK ==
  /\ phase \in {"delivered", "refused", "accepted", "chores", "chain", "failed", "audit"}
  /\ DOMAIN rows \subseteq Slug /\ chored \subseteq DOMAIN rows
  /\ \A s \in DOMAIN rows : rows[s] \in Group
  /\ \A k \in Key \ {"list_url"} : choice[k] \in {Unset} \cup SUBSET Vocabulary
  /\ late \subseteq Key
  /\ doneFile \in [Group -> SUBSET {Order[i] : i \in DOMAIN Order}]
  /\ unsure \subseteq DOMAIN rows /\ joined \subseteq Slug

\* Whatever the author did to the file before or after the check, a problem gets no tags
\* but those of its own row (subset filters the tags in lockstep with the rows); and a
\* quarantined problem, of which the platform may have another under the same slug,
\* gets nothing; from stage 7 on, before which nothing writes to the platform's entries.
TagsAreTheRowsOwn == [][phase # "accepted" => \A s \in Slug :
  /\ got'[s] # got[s] => s \in DOMAIN rows
  /\ got'[s].tags # got[s].tags => \E i \in DOMAIN source.rows :
       source.rows[i].slug = s /\ got'[s].tags \ got[s].tags \subseteq {source.tags[i].tag}]_vars

\* A file that passed the check and was left alone is handed to the tool in full, so
\* that its lenient parser drops nothing (render), and is applied in full: every
\* survivor has its difficulty and, if the file has tags at all, those of the manifest,
\* beside what tags it had before the upload.
CheckedMeansApplied == ~edited =>
  /\ phase = "chain" => LET c == parse(file) IN
       RowsOf(c) = Members(group) /\ (tags_will_apply(c) <=> source.tags # <<>>)
  /\ phase = "audit" => \A s \in DOMAIN rows :
       /\ got[s].level
       /\ (source.tags # <<>> /\ s \in manifest.tagged) =>
            got[s].tags = {s} \cup earlier[s].tags

\* A choice made before stage 7 is what every survivor gets, however often the chain was
\* killed and resumed: translations beside those it had, divisions in their place.  An
\* empty choice gives and takes nothing: translations, divisions and place in the list
\* stay as they were before the upload, whatever the configuration has for the others.
Promised(key) == IF choice[key] = Unset THEN Configured[key] ELSE choice[key]

TranslationsDue(s) == Promised("targets") \cup earlier[s].translated
DivisionsDue(s) ==
  IF Promised("divisions") = {} THEN earlier[s].divisions ELSE Promised("divisions")

ChosenMeansApplied == phase = "audit" /\ ~edited => \A s \in DOMAIN rows :
  /\ "targets" \notin late => got[s].translated = TranslationsDue(s)
  /\ "divisions" \notin late => got[s].divisions = DivisionsDue(s)
  /\ ("list_url" \notin late /\ Promised("list_url") = {}) => got[s].listed = earlier[s].listed

\* A batch with a contest list comes to the audit only with every problem in the list, or
\* with a warning that it was not verified, though a resume skips the list step.
ListedOrSaid == phase = "audit" /\ args["list_url"] # {} /\ late = {} =>
  \A s \in DOMAIN rows : got[s].listed \/ s \in unsure
===============================================================================
