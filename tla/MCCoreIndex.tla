---------------------------- MODULE MCCoreIndex ----------------------------
(* CoreIndex on small instances: the label lists the runs send.            *)
EXTENDS CoreIndex

CONSTANTS person, dog, inst1

Shows(label, inst) == [label |-> label, inst |-> inst]

NoLabels == {<<>>}

\* agreeing and disagreeing labels of one instance, in one list (general and
\* bounding box labels are joined) and between two uploads, and an instance text
\* that is no uuid before the nil one
LabelsOfUpload == {<<>>, <<Shows(person, inst1)>>, <<Shows(dog, inst1)>>,
                   <<Shows(dog, Malformed), Shows(dog, Nil)>>}
=============================================================================
