--------------------------- MODULE MCCloudSession ---------------------------
(***************************************************************************)
(* A small instance of CloudSession.                                       *)
(***************************************************************************)
EXTENDS CloudSession, TLC

Set(source) == [cmd |-> "secret.set", name |-> "s", source |-> source, how |-> "live"]

Delete(p, expect) == [cmd |-> "project.delete", project |-> p, expect |-> expect]

Create(account, p, login) ==
  [cmd |-> "auth.create", config |-> "work", account |-> account, project |-> p,
   login |-> login, align |-> FALSE, asks |-> FALSE]

Setup(p, name, asks) ==
  [cmd |-> "setup", config |-> name, project |-> p, yes |-> FALSE, login |-> FALSE,
   align |-> FALSE, asks |-> asks]

Switch(name, align) == [cmd |-> "auth.switch", config |-> name, align |-> align]

Fresh == Create(None, None, TRUE)

Secrets ==
  {Set("inline"), Set("file"), [cmd |-> "secret.list"],
   [cmd |-> "secret.delete", name |-> "s", how |-> "live"], Create("v", "p", FALSE)}

Lifecycle ==
  {Delete("p", None), Delete("guarded", None), Delete("org", "u"),
   [cmd |-> "project.undelete", project |-> "p", expect |-> "u"],
   [cmd |-> "project.audit", project |-> "p"], Create("v", None, FALSE)}

Names ==
  {Switch("home", TRUE), Switch("work", FALSE), Fresh,
   [cmd |-> "auth.project", project |-> None, asks |-> TRUE]}

Setups ==
  {[cmd |-> "auth.context"], [cmd |-> "auth.refresh"], [cmd |-> "auth.logout"],
   Setup("p", "home", FALSE), Setup(None, None, TRUE)}

Call(t, args) == [cmd |-> "gateway.call", server |-> "docs", tool |-> t, args |-> args]

Gateway ==
  {Call(t, "object") : t \in Tools}
    \cup {Call("list", "malformed"), [cmd |-> "gateway.audit", discover |-> TRUE]}

MCRequests == Secrets \cup Lifecycle \cup Names \cup Setups \cup Gateway

Home(account, p) ==
  [n \in Configurations |-> IF n = "home" THEN [account |-> account, project |-> p] ELSE NoConfig]

Beginning(account, p, given, requests) ==
  [billed |-> {}, owners |-> Projects \X {"u"}, configs |-> Home(account, p), active |-> "home",
   registry |-> [valid |-> TRUE, status |-> [s \in Servers |-> "enabled"],
                 mode |-> [s \in Servers |-> [t \in Tools |-> "read"]]],
   granted |-> given, menu |-> requests]

DeleteApproved ==
  [of |-> [action |-> "delete", project |-> "p", state |-> "ACTIVE", billed |-> FALSE,
           account |-> "u"],
   number |-> 1]

\* Commands on the same things run together; only the auth commands with nobody logged in.
MCBeginnings ==
  {Beginning("u", "org", {}, Secrets), Beginning("u", "org", {DeleteApproved}, Lifecycle),
   Beginning("u", "org", {}, Names), Beginning("u", "org", {}, Setups),
   Beginning(None, None, {}, Setups),
   Beginning("u", "org", {}, Gateway)}

ClientSymmetry == Permutations(Clients)
=============================================================================
