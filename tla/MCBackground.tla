---------------------------- MODULE MCBackground ----------------------------
(***************************************************************************)
(* The mailroom, a workflow and the code index, which do not meet, for     *)
(* TLC: a behaviour is one of two mails, of one run of a workflow of three *)
(* steps, or of the index of one file.                                     *)
(***************************************************************************)
EXTENDS Mailroom, Workflow, IndexWatcher, TLC

CONSTANTS w1, s1, s2, s3, f1

VARIABLE part

SpaceDef == [m \in Mails |-> w1]

\* The second content of a file is shorter than the first.
SizeDef == <<2, 1>>

Graph(a, b, c) == (s1 :> a) @@ (s2 :> b) @@ (s3 :> c)

\* A triangle, a join and a cycle.
Circle == Graph({}, {s3}, {s2})
GraphsDef == {Graph({}, {s1}, {s1, s2}), Graph({}, {}, {s1, s2}), Circle}

BackgroundInit ==
    /\ part \in {"mail", "workflow", "index"}
    /\ MailInit /\ WorkflowInit /\ IndexInit
    /\ part # "workflow" => deps = Circle
    /\ part # "index" => markdown = {}
    /\ part # "index" \/ markdown # {} => content = [f \in Paths |-> 0]

MailStep == part = "mail" /\ MailNext /\ UNCHANGED <<part, wfVars, indexVars>>

WorkflowStep == part = "workflow" /\ WorkflowNext /\ UNCHANGED <<part, mailVars, indexVars>>

Indexing == part = "index" /\ UNCHANGED <<part, mailVars, wfVars>>

\* Bound: a scan on request or an upset.
IndexStepTaken == Indexing /\ IndexNext /\ scans' + upsets' <= 1

\* Where no mail was sent, and no run started, no fair action of theirs is
\* enabled; the index is fair where it runs.
BackgroundSpec ==
    /\ BackgroundInit
    /\ [][MailStep \/ WorkflowStep \/ IndexStepTaken]_<<part, mailVars, wfVars, indexVars>>
    /\ MailFairness /\ WorkflowFairness
    /\ WF_indexVars(Indexing /\ RunLoop) /\ WF_indexVars(Indexing /\ ScanLoop)
    /\ \A f \in Paths : WF_indexVars(Indexing /\ Timer(f))
=============================================================================
