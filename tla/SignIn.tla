------------------------------- MODULE SignIn -------------------------------
(***************************************************************************)
(* Signing in to the cloud, as a function of the hosts that cannot be      *)
(* reached while it lasts (api/passport.py: lookup_region, login, refresh; *)
(* const.py: the hosts and the codes of the regions; client.py:            *)
(* authenticate).                                                          *)
(*                                                                         *)
(* An account is in the directory of one region.  The hosts of that region *)
(* know it; the hosts of the others answer that there is no such account.  *)
(* One host refuses whatever it is asked (test_passport_hosts.py).         *)
(***************************************************************************)
EXTENDS Sequences, FiniteSetsExt

Regions == {"fra", "sg", "us", "bj"}
DefaultRegion == "fra"

(* The codes the passport servers report; _REGION_ALIASES.                 *)
Aliases == [ore |-> "us", eu |-> "fra", sea |-> "sg"]
Codes == Regions \union DOMAIN Aliases

CanonicalRegion(code) == IF code \in DOMAIN Aliases THEN Aliases[code] ELSE code

(* PASSPORT_HOSTS.  A host is its region and its place in the list.        *)
NumberOfHosts == [fra |-> 2, sg |-> 2, us |-> 3, bj |-> 2]
HostsOf(region) == [i \in 1 .. NumberOfHosts[region] |-> <<region, i>>]
Hosts == {<<region, i>> \in Regions \X (1 .. 3) : i <= NumberOfHosts[region]}
Legacy == <<"us", 2>>

(* ALL_PASSPORT_HOSTS.                                                     *)
Directories == Hosts

(* passport_hosts, for the codes there are.                                *)
PassportHosts(code) == HostsOf(CanonicalRegion(code))

(* What a host says of an account of region owner; "none" is nowhere.      *)
Says(host, owner) ==
  IF host = Legacy THEN "refused" ELSE IF host[1] = owner THEN "known" ELSE "notHere"

(* lookup_region: the region of the account, or nobody claims it, or       *)
(* nobody answers.                                                         *)
LookupRegion(owner, down) ==
  IF \E host \in Directories \ down : Says(host, owner) = "known" THEN owner
  ELSE IF Directories \subseteq down THEN "unreachable" ELSE "unclaimed"

-----------------------------------------------------------------------------
(* One round over the hosts of a region: it ends at the first host that    *)
(* cannot be reached (nothing is caught) or that does not answer "not      *)
(* here".                                                                  *)
Round(owner, code, right, down) ==
  LET hosts == PassportHosts(code)
      ends == {i \in DOMAIN hosts : hosts[i] \in down \/ Says(hosts[i], owner) # "notHere"}
  IN IF ends = {} THEN "notHere"
     ELSE IF hosts[Min(ends)] \in down THEN "unreachable"
     ELSE IF Says(hosts[Min(ends)], owner) = "known" /\ right THEN "ok" ELSE "refused"

(* login: a region pinned may be the wrong one, and the one that claims    *)
(* the account is tried then.                                              *)
Login(owner, pinned, right, down) ==
  LET found == LookupRegion(owner, down)
      code == IF pinned # "auto" THEN pinned
              ELSE IF found = "unclaimed" THEN DefaultRegion ELSE found
      again == /\ pinned # "auto" /\ Round(owner, code, right, down) = "notHere"
               /\ found \in Regions /\ found # CanonicalRegion(code)
      used == IF again THEN found ELSE code
  IN IF code = "unreachable" THEN [how |-> "unreachable", region |-> code]
     ELSE [how |-> Round(owner, used, right, down), region |-> used]

(* refresh: the first host of the region that can be reached has the word. *)
Refresh(owner, code, down) ==
  LET hosts == PassportHosts(code)
      up == {i \in DOMAIN hosts : hosts[i] \notin down}
  IN IF up = {} THEN "unreachable"
     ELSE IF Says(hosts[Min(up)], owner) = "known" THEN "ok" ELSE "refused"

-----------------------------------------------------------------------------
(* Who has an account and the right password gets in while all hosts can   *)
(* be reached, whichever region was pinned (login: "A pinned region can    *)
(* simply be the wrong guess"), but for a pin that leads to the host that  *)
(* refuses all.                                                            *)
EverybodyGetsIn ==
  \A owner \in Regions, pinned \in Codes \union {"auto"} :
    CanonicalRegion(pinned) # "us" \/ owner = "us" =>
      LET end == Login(owner, pinned, TRUE, {})
      IN end.how = "ok" /\ CanonicalRegion(end.region) = owner

(* Without a pin, one host of the right region is enough for the password  *)
(* to be offered there and nowhere else (lookup_region: "the password is   *)
(* never offered to a server that does not own the account").              *)
OneDirectoryIsEnough ==
  \A owner \in Regions, down \in SUBSET Hosts :
    (\E host \in Hosts \ (down \union {Legacy}) : host[1] = owner) =>
      Login(owner, "auto", TRUE, down).region = owner

(* A session of an account outside the Americas is never refused by a host *)
(* of another region, whichever hosts are dead (refresh: "one dead         *)
(* endpoint must not cost a re-authentication prompt").                    *)
SessionsAreKnown ==
  \A owner \in Regions \ {"us"}, code \in Codes, down \in SUBSET Hosts :
    CanonicalRegion(code) = owner => Refresh(owner, code, down) # "refused"
=============================================================================
