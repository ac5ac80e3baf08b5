------------------------------ MODULE MCStack ------------------------------
(***************************************************************************)
(* Small instances of the update of a stack: a database and a script of the*)
(* same name, a bucket and an AzurePowerShellScript; the loops come to the *)
(* bucket first, which depends on the script, which depends on the         *)
(* database, as the other script does.                                     *)
(***************************************************************************)
EXTENDS StackProperties

db     == [kind |-> "MsSqlDatabase", name |-> "a"]
script == [kind |-> "LocalScript", name |-> "a"]
bucket == [kind |-> "MinioBucket", name |-> "b"]
azure  == [kind |-> "AzurePowerShellScript", name |-> "c"]

AllResources == {bucket, azure, db, script}
KindsInOrder == <<bucket, azure, db, script>>
BucketFirst  == [r \in AllResources |-> IF r = bucket THEN <<script>>
                                        ELSE IF r = db THEN <<>> ELSE <<db>>]

StatefulOnes == {bucket, db}
Databases    == {db}
OneBucket    == {bucket}
OneScript    == {script}
OneUndelayed == {azure}

Asks(infra, on, retain) ==
    [infra |-> infra, import |-> FALSE, on |-> on, off |-> {}, retain |-> retain,
     tags |-> {}]

ImportAll(infra, off) ==
    [infra |-> infra, import |-> TRUE, on |-> {}, off |-> off, retain |-> TRUE,
     tags |-> {}]

Retag(m) == [m EXCEPT !.tags = {script}]

Three == AllResources \ {azure}

FewManifests == {Asks({}, {}, FALSE), Asks(Three, {}, TRUE), Asks(Three, {}, FALSE),
                 Asks({bucket, azure, script}, {}, FALSE), Asks({db, azure, script}, {db}, TRUE),
                 ImportAll(Three, {bucket}), Retag(Asks(Three, {db}, TRUE))}

ScriptManifests == {Asks({}, {}, FALSE), Asks({script}, {}, FALSE)}

DelayManifests == {Asks({}, {}, FALSE), Asks({azure, db}, {}, FALSE)}
=============================================================================
