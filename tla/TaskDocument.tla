---------------------------- MODULE TaskDocument ----------------------------
(***************************************************************************)
(* The file of one task: how it is read (src/lib/tasks/task-parser.ts),    *)
(* written (task-serializer.ts) and edited by agents and people at once    *)
(* (TaskManager.updateTask, the task_edit tool and `cosmonauts task        *)
(* edit`).  Every edit reads the file, changes some fields and writes all  *)
(* of it, with no lock.                                                    *)
(*                                                                         *)
(* The body is a sequence of blocks: a heading, a paragraph, the list of   *)
(* criteria between its markers, or a bare list of boxes.  TaskStore       *)
(* models the names of the files and the allocation of ids.                *)
(***************************************************************************)
EXTENDS Naturals, FiniteSets, Sequences, SequencesExt, FiniteSetsExt

CONSTANTS Editor,
          Tool,       \* the editors that use the task_edit tool; the others type the command
          Edits,      \* the edits tried
          Bodies,     \* bodies of files that people or the manager have written
          None,
          MaxWrites   \* bounds the edits that are written

DocumentAssumption == Tool \subseteq Editor /\ MaxWrites \in Nat

NoEdit == [status |-> None, plan |-> None, notes |-> None, labels |-> {}, unlabels |-> {},
           remove |-> {}, add |-> None, check |-> {}, uncheck |-> {}]

VARIABLES front,    \* the front matter: the labels, and the status for its other fields
          body,     \* sequence of blocks
          ed,       \* editor -> how far it is
          writes
vars == <<front, body, ed, writes>>

Heading(h) == [kind |-> "head", of |-> h, items |-> <<>>]
Para(p) == [kind |-> "para", of |-> p, items |-> <<>>]
Marked(s) == [kind |-> "marked", of |-> "criteria", items |-> s]
Bare(s) == [kind |-> "bare", of |-> "list", items |-> s]
Item(n, x, c) == [index |-> n, text |-> x, checked |-> c]
Recognized == {"description", "plan", "notes", "criteria"}

-----------------------------------------------------------------------------
(* Reading.                                                                *)

Heads(b) == {i \in DOMAIN b : b[i].kind = "head"}
Of(b, h) == {i \in Heads(b) : b[i].of = h}

\* where the section of the heading at i ends: a heading right after it is taken for text
Stop(b, i) == Min({j \in Heads(b) : j > i + 1} \cup {Len(b) + 1})

\* a bug to be found: the list of criteria stays in the section it stands in
SectionWithCriteria(b, h) ==
    IF Of(b, h) = {} THEN <<>> ELSE SubSeq(b, Min(Of(b, h)) + 1, Stop(b, Min(Of(b, h))) - 1)

\* extractSection: the first of its name, without the marked criteria
Section(b, h) ==
    IF Of(b, h) = {} THEN <<>>
    ELSE SelectSeq(SubSeq(b, Min(Of(b, h)) + 1, Stop(b, Min(Of(b, h))) - 1),
                   LAMBDA x : x.kind # "marked")

\* parseAcceptanceCriteria: the first marked list, or the bare ones of the section, numbered
Criteria(b) ==
    LET marked == SelectSeq(b, LAMBDA x : x.kind = "marked")
        bare == SelectSeq(Section(b, "criteria"), LAMBDA x : x.kind = "bare")
        all == FlattenSeq([i \in DOMAIN bare |-> bare[i].items])
    IN IF marked # <<>> THEN marked[1].items
       ELSE [i \in DOMAIN all |-> [all[i] EXCEPT !.index = i]]

\* every section of the name, also a repeated one
Without(b, h) ==
    LET starts == {i \in Of(b, h) : i - 1 \notin Of(b, h)}
        gone == UNION {i .. Stop(b, i) - 1 : i \in starts}
        left == SelectSeq([i \in DOMAIN b |-> i], LAMBDA i : i \notin gone)
    IN [i \in DOMAIN left |-> b[left[i]]]

\* extractRawContent
Raw(b) == SelectSeq(Without(Without(Without(Without(b, "description"), "plan"), "notes"),
                            "criteria"), LAMBDA x : x.kind # "marked")

ParseTask(f, b) ==
    [front |-> f, description |-> Section(b, "description"), plan |-> Section(b, "plan"),
     notes |-> Section(b, "notes"), criteria |-> Criteria(b), raw |-> Raw(b)]

-----------------------------------------------------------------------------
(* Writing.                                                                *)

Under(h, blocks) == IF blocks = <<>> THEN <<>> ELSE <<Heading(h)>> \o blocks

\* a bug to be found: what the parser does not recognize is not written back
BodyRecognized(t) ==
    Under("description", t.description) \o Under("plan", t.plan)
    \o (IF t.criteria = <<>> THEN <<>> ELSE <<Marked(t.criteria)>>)
    \o Under("notes", t.notes)

\* buildBodyContent
Body(t) ==
    Under("description", t.description) \o Under("plan", t.plan)
    \o (IF t.criteria = <<>> THEN <<>> ELSE <<Marked(t.criteria)>>)
    \o Under("notes", t.notes) \o t.raw

-----------------------------------------------------------------------------
(* An edit.                                                                *)

\* applyTaskLabelEdits; applyTaskDependencyEdits is the same
Relabelled(old, edit) == (old \ edit.unlabels) \cup edit.labels

Checked(c, ns, value) ==
    [i \in DOMAIN c |-> IF c[i].index \in ns THEN [c[i] EXCEPT !.checked = value] ELSE c[i]]

\* a bug to be found: criteria are counted, whatever their numbers
ByPlace(c, edit) ==
    [i \in DOMAIN c |-> IF i \in edit.check THEN [c[i] EXCEPT !.checked = TRUE]
                        ELSE IF i \in edit.uncheck THEN [c[i] EXCEPT !.checked = FALSE] ELSE c[i]]

\* applyAcceptanceCriterionToggles, of the tool
Toggled(c, edit) == Checked(Checked(c, edit.check, TRUE), edit.uncheck, FALSE)

\* applyAcceptanceCriterionEdits, of the command: removes, numbers anew, adds, then checks
Recounted(c, edit) ==
    LET kept == SelectSeq(c, LAMBDA x : x.index \notin edit.remove)
        more == IF edit.add = None THEN kept ELSE Append(kept, Item(0, edit.add, FALSE))
    IN Toggled([i \in DOMAIN more |-> [more[i] EXCEPT !.index = i]], edit)

TouchesCriteria(edit) ==
    edit.remove # {} \/ edit.add # None \/ edit.check # {} \/ edit.uncheck # {}

\* applyBasicFieldEdits: the status, like the title, the priority and the others, is replaced
Basic(edit) == edit.status

Unless(absent, value) == IF absent THEN None ELSE value

\* the fields the command gives updateTask: computed from the task as it is now
Update(edit, task) ==
    [status |-> Basic(edit),
     plan |-> Unless(edit.plan = None, <<Para(edit.plan)>>),
     notes |-> Unless(edit.notes = None, Append(task.notes, Para(edit.notes))),
     labels |-> Unless(edit.labels \cup edit.unlabels = {}, Relabelled(task.front.labels, edit)),
     criteria |-> Unless(~TouchesCriteria(edit), Recounted(task.criteria, edit))]

\* the fields the tool gives it: the notes replace the old ones, and the labels those that
\* its user has seen
ToolUpdate(edit, task, saw) ==
    [Update(edit, task) EXCEPT
        !.notes = Unless(edit.notes = None, <<Para(edit.notes)>>),
        !.labels = Unless(edit.labels \cup edit.unlabels = {}, Relabelled(saw.front.labels, edit)),
        !.criteria = Unless(~TouchesCriteria(edit), Toggled(task.criteria, edit))]

\* updateTask's spread of the update over the task
Merged(task, u) ==
    [task EXCEPT !.plan = IF u.plan = None THEN @ ELSE u.plan,
                 !.notes = IF u.notes = None THEN @ ELSE u.notes,
                 !.front.labels = IF u.labels = None THEN @ ELSE u.labels,
                 !.front.status = IF u.status = None THEN @ ELSE u.status,
                 !.criteria = IF u.criteria = None THEN @ ELSE u.criteria]

Idle == [step |-> "idle", edit |-> NoEdit, update |-> None, old |-> None, saw |-> None]
Now == ParseTask(front, body)

\* task_view: the editor decides on an edit from what it is shown; the tool neither adds
\* nor removes criteria
View(e) ==
    /\ ed[e].step = "idle" /\ writes < MaxWrites
    /\ \E edit \in Edits :
          /\ e \in Tool => edit.remove = {} /\ edit.add = None
          /\ edit.check \cup edit.uncheck \cup edit.remove
                \subseteq {Now.criteria[i].index : i \in DOMAIN Now.criteria}
          /\ ed' = [ed EXCEPT ![e] = [Idle EXCEPT !.step = "viewed", !.edit = edit, !.saw = Now]]
    /\ UNCHANGED <<front, body, writes>>

\* the command reads the task, the tool only for a change of its criteria
Build(e) ==
    /\ ed[e].step = "viewed"
    /\ ed' = [ed EXCEPT ![e].step = "built", ![e].update =
                    IF e \in Tool THEN ToolUpdate(ed[e].edit, Now, ed[e].saw)
                    ELSE Update(ed[e].edit, Now)]
    /\ UNCHANGED <<front, body, writes>>

\* updateTask reads it again
Read(e) ==
    /\ ed[e].step = "built"
    /\ ed' = [ed EXCEPT ![e].step = "read", ![e].old = Now]
    /\ UNCHANGED <<front, body, writes>>

Write(e) ==
    /\ ed[e].step = "read" /\ writes < MaxWrites
    /\ LET task == Merged(ed[e].old, ed[e].update)
       IN front' = task.front /\ body' = Body(task)
    /\ ed' = [ed EXCEPT ![e] = Idle]
    /\ writes' = writes + 1

-----------------------------------------------------------------------------
Init == /\ front = [labels |-> {}, status |-> "todo"] /\ body \in Bodies
        /\ ed = [e \in Editor |-> Idle] /\ writes = 0

Next == \E e \in Editor : View(e) \/ Build(e) \/ Read(e) \/ Write(e)

Spec == Init /\ [][Next]_vars

-----------------------------------------------------------------------------
TypeOK ==
    /\ \A i \in DOMAIN body : body[i].kind \in {"head", "para", "marked", "bare"}
    /\ \A i \in DOMAIN Now.criteria : Now.criteria[i].index \in Nat \ {0}
    /\ \A e \in Editor : /\ ed[e].step \in {"idle", "viewed", "built", "read"}
                         /\ ed[e].step = "read" => ed[e].old # None /\ ed[e].update # None
    /\ writes \in 0 .. MaxWrites

\* a file as the documentation of the format has it: no section twice and none empty, the
\* section of the criteria holds a list and nothing else, there is one list
WellFormed(b) ==
    /\ \A h \in Recognized : Cardinality(Of(b, h)) <= 1
    /\ \A i \in Heads(b) : i + 1 \in DOMAIN b \ Heads(b)
    /\ Cardinality({i \in DOMAIN b : b[i].kind = "marked"})
          + Cardinality(Of(b, "criteria")) <= 1
    /\ \A i \in DOMAIN Section(b, "criteria") : Section(b, "criteria")[i].kind = "bare"

Rewritten(b) == Body(ParseTask(None, b))
Paragraphs(b) == {b[i].of : i \in {j \in DOMAIN b : b[j].kind = "para"}}

(* Editing a task again and again does not change what the edits leave     *)
(* alone: reading and writing a well-formed file settles after two rounds, *)
(* with every paragraph and every criterion still in it.                   *)
Settles ==
    WellFormed(body) =>
        LET twice == Rewritten(Rewritten(body))
        IN /\ Rewritten(twice) = twice
           /\ Paragraphs(twice) = Paragraphs(body) /\ Criteria(twice) = Criteria(body)

(* An edit that no other write overtook loses no label, status or          *)
(* paragraph but those it replaces, and changes exactly the criteria its   *)
(* author saw under the numbers given.  The command is left out where it   *)
(* removes criteria at the same time or finds them numbered with gaps: it  *)
(* counts them anew before it checks.                                      *)
EditChangesOnlyWhatItSays ==
    \A e \in Editor :
       LET edit == ed[e].edit
           replaced == (IF edit.plan # None THEN Paragraphs(Now.plan) ELSE {})
                       \cup (IF e \in Tool /\ edit.notes # None
                             THEN Paragraphs(Now.notes) ELSE {})
       IN (/\ ed[e].step = "read" /\ ed'[e].step = "idle"
           /\ WellFormed(body) /\ ed[e].saw = Now
           /\ \/ e \in Tool
              \/ /\ edit.remove = {}
                 /\ \A i \in DOMAIN Now.criteria : Now.criteria[i].index = i)
          => /\ front.labels \ edit.unlabels \subseteq front'.labels
             /\ front'.status = IF edit.status = None THEN front.status ELSE edit.status
             /\ Paragraphs(body) \subseteq Paragraphs(body') \cup replaced
             /\ \A i \in DOMAIN Now.criteria :
                  LET was == Now.criteria[i]
                      is == Criteria(body')[i]
                  IN /\ is.text = was.text
                     /\ is.checked <=> /\ was.checked \/ was.index \in edit.check
                                       /\ was.index \notin edit.uncheck
EditsAsSeen == [][EditChangesOnlyWhatItSays]_vars
=============================================================================
