---------------------------- MODULE MCSessionTurns ----------------------------
(***************************************************************************)
(* Instances of SessionTurns for TLC.  Sends and calls are numbered, so    *)
(* there is no symmetry to use: the order of the sends is theirs.          *)
(***************************************************************************)
EXTENDS SessionTurns

\* How a turn may end: three ways in one behaviour, or one of them and a shutdown.
Endings == {"send-now", "fail", "recover", "follow-up", "tool-end", "startup-fail"}
MixedEndings == {p \in SUBSET Endings : Cardinality(p) = 3} \cup {{e, "shutdown"} : e \in Endings}

\* Sends that overlap; the first of them against an edit and a mutation; two
\* sends and every mix of endings.
Overlaps == {[callers |-> Sends, paths |-> {"soft-send-now"}],
             [callers |-> {1, 2}, paths |-> {"soft-send-now", "goal", "fail"}],
             [callers |-> {1} \cup Edits \cup Mutations,
              paths |-> {"stop", "fail", "startup-fail", "follow-up"}]}
              \cup {[callers |-> {1, 2}, paths |-> p] : p \in MixedEndings}

\* Nothing but sends, edits and the dispatch a provider's tool asks for.
Liveness == {[callers |-> Sends \cup Edits, paths |-> {"tool-end"}]}

SoftOnly == {[callers |-> Sends, paths |-> {"soft-send-now"}]}
=============================================================================
