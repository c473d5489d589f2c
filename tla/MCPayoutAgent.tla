--------------------------- MODULE MCPayoutAgent ----------------------------
(* Instances of PayoutAgent for TLC. *)
EXTENDS PayoutAgent, TLC

(* Every output covers a payout. *)
Single == {{o} : o \in Outputs}

NoMishap == [m \in Mishap |-> 0]
EachOnce == [m \in Mishap |-> 1]
SafetyBudget == EachOnce
LedgerFaults == [NoMishap EXCEPT !["crash"] = 1, !["saveFault"] = 1]
CrashesOnly == [NoMishap EXCEPT !["crash"] = 1, !["gapCrash"] = 1]
LiveBudget == [NoMishap EXCEPT !["crash"] = 1]

Symmetry == Permutations(Workers) \cup Permutations(Outputs)
            \cup Permutations(Payees) \cup Permutations(Intents)
=============================================================================
