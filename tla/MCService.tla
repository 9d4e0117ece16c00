----------------------------- MODULE MCService -----------------------------
(***************************************************************************)
(* Instances of Service for TLC.  Items, their kinds, messages and threads *)
(* are named after what they stand for.                                    *)
(***************************************************************************)
EXTENDS ServiceProperties, TLC

\* Every thread on a stripe of its own.
OwnStripe == [m \in Messages |-> m]

\* An alert, and a question in its thread.
AlertItems == {"rca", "ask"}
AlertMessages == {"alert", "question"}
AlertKind == ("rca" :> "firing" @@ "ask" :> "ask")
AlertMessage == ("rca" :> "alert" @@ "ask" :> "question")
AlertThread == [AlertMessage EXCEPT !["ask"] = "alert"]

\* A scheduled run and an alert that is delivered twice, for one place in the
\* queue, beside a marker that is not valid.  The two deliveries are the same.
CONSTANTS rca, dup
CrowdItems == {rca, dup, "run", "bad"}
CrowdMessages == {"alert", "root", "junk"}
CrowdKind == (rca :> "firing" @@ dup :> "firing" @@ "run" :> "scheduled" @@ "bad" :> "invalid")
CrowdMessage == (rca :> "alert" @@ dup :> "alert" @@ "run" :> "root" @@ "bad" :> "junk")
Deliveries == Permutations({rca, dup})
CrowdThread == CrowdMessage

\* A scheduled run, an alert that has ended, and idle talk.
FaultItems == {"run", "end", "chat"}
FaultMessages == {"root", "alert", "talk"}
FaultKind == ("run" :> "scheduled" @@ "end" :> "resolved" @@ "chat" :> "unmarked")
FaultMessage == ("run" :> "root" @@ "end" :> "alert" @@ "chat" :> "talk")
FaultThread == FaultMessage

\* A scheduled run, and a question under its root.
RunItems == {"run", "ask"}
RunMessages == {"root", "question"}
RunKind == ("run" :> "scheduled" @@ "ask" :> "ask")
RunMessage == ("run" :> "root" @@ "ask" :> "question")
RunThread == [RunMessage EXCEPT !["ask"] = "root"]

=============================================================================
