--------------------------- MODULE MCBillingSetup ---------------------------
(***************************************************************************)
(* A small instance of BillingSetup: one project, two billing accounts and *)
(* two gcloud accounts.                                                    *)
(***************************************************************************)
EXTENDS BillingSetup

Policy(amount) == [project |-> "p", name |-> None, amount |-> amount, thresholds |-> "default"]

InitP(account, asks) == [cmd |-> "init", project |-> "p", account |-> account, asks |-> asks]

Ensure(amount, how) ==
  [cmd |-> "ensure", project |-> "p", policy |-> Policy(amount), how |-> how]

Enable(how) == [cmd |-> "enable-api", project |-> "p", how |-> how]

MCRequests ==
  {InitP("A", FALSE), InitP("B", TRUE), Ensure(1, "live"), Ensure(2, "live"), Enable("live")}

Beginning(state, account, given) ==
  [project |-> [p \in {"p"} |-> state], billing |-> [p \in {"p"} |-> account],
   user |-> "u", granted |-> given]

Given(n) == [of |-> <<Policy(n), "u">>, number |-> n]

\* A project to be made, one that cannot be had, and one in use with two approvals.
MCBeginnings ==
  {Beginning("absent", None, {}), Beginning("taken", None, {}),
   Beginning("active", "A", {Given(1), Given(2)})}

Outer == [account |-> "A", name |-> "p", project |-> "p", amount |-> 1, thresholds |-> "default",
          rule |-> [topic |-> "t", schema |-> "other", channels |-> "mail"]]

MCHandBudgets == {Outer}
=============================================================================
