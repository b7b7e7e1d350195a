---- MODULE MCReport ----
(***************************************************************************)
(* A run with a parent branch 2 and its child 1, an empty inventory of one *)
(* namespace and a listener seen from another, and the answers of three    *)
(* rules: a listener rule, a refusal rule, and a rule that chains claims   *)
(* and also answers what an evaluator must refuse.                         *)
(***************************************************************************)
EXTENDS Report

NoBucket == <<0, "none", "none">>
TheBucket == <<1, "ipv4", "any">>
Naming(entity) == [entity |-> entity, bucket |-> NoBucket, vantage |-> 1, port |-> 0]

Observation(id, kind, subject, vantage, count) ==
    [id |-> id, kind |-> kind, subject |-> subject, vantage |-> vantage, count |-> count,
     bucket |-> IF kind \in {"RESULT", "ENTRY"} THEN TheBucket ELSE NoBucket,
     ports |-> <<1, 1>>, listener |-> 3, owned |-> FALSE, at |-> 1, limited |-> FALSE]

Base ==
    [version |-> <<1, 0, 0>>, port |-> 1, window |-> 0,
     entities |-> <<[id |-> 1, kind |-> "NETWORK_NAMESPACE", inode |-> 7],
                    [id |-> 2, kind |-> "SOCKET_ENDPOINT", inode |-> 0],
                    [id |-> 3, kind |-> "LISTENER", inode |-> 0]>>,
     vantages |-> <<[id |-> 1, kind |-> "HOST_NAMESPACE", inode |-> 7],
                    [id |-> 2, kind |-> "HOST_NAMESPACE", inode |-> 8]>>,
     assertions |-> <<[id |-> 1]>>,
     edges |-> <<[id |-> 1, from |-> 1, to |-> 2, asserted |-> FALSE,
                  refs |-> <<<<Obs, 1>>, <<Obs, 4>>>>],
                 [id |-> 2, from |-> 2, to |-> 3, asserted |-> TRUE, refs |-> <<<<Asn, 1>>>>]>>,
     branches |-> <<[id |-> 2, parent |-> 0, edges |-> <<1>>], [id |-> 1, parent |-> 2, edges |-> <<2>>]>>,
     checks |-> <<[id |-> 1, subject |-> 2, deps |-> <<>>], [id |-> 2, subject |-> 2, deps |-> <<1>>],
                  [id |-> 3, subject |-> 3, deps |-> <<1, 2>>]>>,
     executions |-> <<[id |-> 1, check |-> 1, lifecycle |-> "COMPLETED", verdict |-> "FAIL",
                       observations |-> <<1, 4>>, visibility |-> <<1>>],
                      [id |-> 2, check |-> 3, lifecycle |-> "NOT_RUN", verdict |-> "SKIPPED",
                       observations |-> <<>>, visibility |-> <<>>]>>,
     observations |-> <<Observation(1, "REFUSED", 2, 1, 0), Observation(2, "RESULT", 1, 1, 0),
                        Observation(3, "ENTRY", 3, 2, 0), Observation(4, "OTHER", 2, 1, 0)>>,
     visibility |-> <<[id |-> 1, vantage |-> 1, bucket |-> TheBucket, ports |-> <<1, 1>>,
                       level |-> "COMPLETE_FOR_SCOPE", basis |-> <<2>>, ownershipRequired |-> FALSE,
                       limited |-> FALSE, at |-> 1]>>,
     rules |-> <<>>, claims |-> <<>>, findings |-> <<>>]

MCEvidences == {Base}

Template(key, statement, about, level, support) ==
    [key |-> key, statement |-> statement, about |-> about, level |-> level, support |-> support,
     contra |-> <<>>, missing |-> IF level = "SUSPECTED" THEN <<1, 2>> ELSE <<>>]
FindingOn(level, claims, branches) ==
    [level |-> level, blocker |-> TRUE, claims |-> claims, branches |-> branches,
     positions |-> Each(branches, LAMBDA b : <<b, 0>>)]
Candidate(key, claims, findings) == [key |-> key, claims |-> claims, findings |-> findings]

Absent ==
    Candidate(1, <<Template(1, "ABSENT", [entity |-> 1, bucket |-> TheBucket, vantage |-> 1, port |-> 1],
                            "INFERRED", <<<<Vis, 1>>, <<Obs, 2>>>>)>>,
              <<FindingOn("INFERRED", <<1>>, <<>>)>>)
Refused(key, branches) ==
    Candidate(key, <<Template(1, "REFUSED", Naming(key + 1), "OBSERVED", <<<<Obs, 1>>>>)>>,
              <<FindingOn("OBSERVED", <<1>>, branches)>>)
Mismatch(key, level, support) == Template(key, "MISMATCH", Naming(key), level, support)

Chain ==
    Candidate(1, <<Mismatch(1, "OBSERVED", <<<<Obs, 4>>>>),
                   [Mismatch(2, "INFERRED", <<<<Clm, 1>>>>) EXCEPT !.contra = <<<<Obs, 1>>>>]>>,
              <<FindingOn("INFERRED", <<2, 1>>, <<1>>)>>)
Suspicion ==
    Candidate(2, <<Mismatch(1, "SUSPECTED", <<<<Asn, 1>>, <<Obs, 4>>>>)>>,
              <<FindingOn("SUSPECTED", <<1>>, <<1, 2>>)>>)
\* A rule breaks the contract of the evaluator in one way each.
Broken ==
    {Candidate(0, <<>>, <<>>), Candidate(1, <<>>, <<>>),
     Candidate(2, <<Mismatch(1, "INFERRED", <<<<Clm, 2>>>>), Mismatch(2, "OBSERVED", <<<<Obs, 4>>>>)>>, <<>>),
     Candidate(2, <<Mismatch(1, "OBSERVED", <<<<Obs, 4>>>>), Mismatch(1, "OBSERVED", <<<<Obs, 1>>>>)>>, <<>>),
     Candidate(2, <<Mismatch(1, "OBSERVED", <<<<Obs, 9>>>>)>>, <<>>),
     Candidate(2, <<>>, <<FindingOn("INFERRED", <<1>>, <<1>>)>>)}

MCEmissions ==
    {[n \in 1..3 |-> CASE n = 1 -> a [] n = 2 -> b [] n = 3 -> c] :
       a \in {<<Absent>>},
       b \in {<<Refused(1, <<1>>)>>, <<Refused(2, <<1, 2>>), Refused(1, <<2>>)>>},
       c \in {<<Suspicion, Chain>>} \cup {<<Chain, x>> : x \in Broken}}

Refs == {<<>>, <<<<Clm, 1>>>>, <<<<Clm, 3>>>>, <<<<Clm, 2>>, <<Asn, 1>>>>, <<<<Obs, 9>>>>,
         <<<<Obs, 2>>>>, <<<<Obs, 2>>, <<Vis, 1>>>>}

MCChanges ==
    [entities |-> [kind |-> {"OTHER"}],
     edges |-> [to |-> {9}, asserted |-> BOOLEAN],
     branches |-> [parent |-> {0, 1, 2, 9}],
     checks |-> [deps |-> {<<>>, <<1>>, <<3>>, <<2, 1>>, <<9>>}],
     executions |-> [check |-> {9}, verdict |-> {"PASS"}, observations |-> {<<4, 1>>, <<9>>}],
     observations |-> [vantage |-> {1, 2}, count |-> {1}],
     visibility |-> [level |-> {"PARTIAL"}, basis |-> {<<>>, <<9>>}],
     claims |-> [level |-> {"OBSERVED", "INFERRED", "SUSPECTED"}, rule |-> {2, 3}, support |-> Refs,
                 contra |-> {<<>>, <<<<Clm, 4>>>>, <<<<Obs, 9>>>>}, missing |-> {<<>>, <<2, 1>>}],
     findings |-> [level |-> {"SUSPECTED", "INFERRED"}, claims |-> {<<>>, <<1>>, <<2, 1>>},
                   selection |-> {"NONE", "BRANCH_PRIMARY", "GLOBAL_PRIMARY"},
                   branches |-> {<<1>>, <<1, 2>>, <<9>>}, positions |-> {<<>>, <<<<1, 0>>>>, <<<<2, 1>>>>}]]

MCVersions == {<<1, 0, 1>>, <<1, 1, 0>>, <<2, 0, 0>>}
====
