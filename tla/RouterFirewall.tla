--------------------------- MODULE RouterFirewall ---------------------------
(***************************************************************************)
(* network_router/entrypoint.sh: the names dnsmasq answers and the packets *)
(* nftables lets pass in a router container, for the configuration that    *)
(* NetworkController puts into it.  A rule chain is a sequence of rules;   *)
(* the first one that matches decides.                                     *)
(*                                                                         *)
(* A configuration names the internal hosts (sidecars and custom           *)
(* environments, by name) and their addresses, in two lists.               *)
(***************************************************************************)
EXTENDS Naturals, Sequences, SequencesExt

(* Where a packet goes: an address on the list, in the dotted or colon form *)
(* the script looks for; one on the list in another form (a range); one     *)
(* that dnsmasq resolved for a name on the list; the router itself; or      *)
(* elsewhere.  An internal host, <<kind, number>>, is its own address.      *)
Fixed == {"listed", "range", "resolved", "local", "elsewhere"} \X {0}

Listed == <<"listed", 0>>
AsRange == <<"range", 0>>
Resolved == <<"resolved", 0>>
Local == <<"local", 0>>
Elsewhere == <<"elsewhere", 0>>

(* A host name: on the URL list or not; internal hosts have theirs.         *)
Domains == {"listed", "other"}

Users == {"root", "dnsmasq", "teacher", "student", "other"}
Graded == {"teacher", "student"}

Rule(users, to, old, verdict) ==
  [users |-> users, to |-> to, old |-> old, verdict |-> verdict]

(* Packets to a (set of destinations); of connections already established.  *)
AnyHost(conf) == Fixed \cup ToSet(conf.ips)

(* Mutant of OutputChain: established connections pass before the rules of  *)
(* the graded users are looked at.                                          *)
EstablishedFirst(conf) ==
  << Rule(Users, {Local}, FALSE, "accept"),
     Rule({"root", "dnsmasq"}, AnyHost(conf), FALSE, "accept"),
     Rule(Users, AnyHost(conf), TRUE, "accept"),
     Rule(Graded, AnyHost(conf), FALSE, "student_out"),
     Rule(Users, AnyHost(conf), FALSE, "drop") >>

(* The output chain: loopback, the users of the router itself, teacher and  *)
(* student (uid 1450 and 1451), established connections, and the policy.    *)
OutputChain(conf) ==
  << Rule(Users, {Local}, FALSE, "accept"),
     Rule({"root", "dnsmasq"}, AnyHost(conf), FALSE, "accept"),
     Rule(Graded, AnyHost(conf), FALSE, "student_out"),
     Rule(Users, AnyHost(conf), TRUE, "accept"),
     Rule(Users, AnyHost(conf), FALSE, "drop") >>

(* student_out in the two modes.  A range is on neither list: its form is   *)
(* not recognised and no rule is made for it.                               *)
StudentOut(conf) ==
  IF conf.model = "white"
  THEN << Rule(Users, ToSet(conf.ips), FALSE, "accept"),
          Rule(Users, {Local}, FALSE, "accept"),
          Rule(Users, {Listed}, FALSE, "accept"),
          Rule(Users, {Resolved}, FALSE, "accept"),
          Rule(Users, AnyHost(conf), FALSE, "reject") >>
  ELSE << Rule(Users, {Listed}, FALSE, "reject"),
          Rule(Users, AnyHost(conf), FALSE, "accept") >>

(* A rule for established connections matches no other packet.              *)
Matches(r, p) == p.user \in r.users /\ p.to \in r.to /\ (r.old => p.old)

First(chain, p) == SelectInSeq(chain, LAMBDA r : Matches(r, p))

Filter(conf, p) ==
  LET out == OutputChain(conf)[First(OutputChain(conf), p)].verdict
  IN IF out = "student_out" THEN StudentOut(conf)[First(StudentOut(conf), p)].verdict
     ELSE out

Passes(conf, p) == Filter(conf, p) = "accept"

(* host-record: the i-th name and the i-th address, in both modes.          *)
HostRecords(conf) ==
  {<<conf.names[i], conf.ips[i]>> : i \in DOMAIN conf.names \cap DOMAIN conf.ips}

(* What dnsmasq, to which every query is redirected, answers for a domain:  *)
(* 0.0.0.0 counts as the router itself.  In white mode the address of a     *)
(* name on the list enters the set of resolved addresses.                   *)
Lookup(conf, d) ==
  IF conf.model = "white"
  THEN IF d = "listed" THEN Resolved ELSE Local
  ELSE IF d = "listed" THEN Local ELSE Elsewhere

Packet(user, to, old) == [user |-> user, to |-> to, old |-> old]

(* A graded user gets through to a domain by its name.                      *)
Reaches(conf, user, d) ==
  LET to == Lookup(conf, d)
  IN to # Local /\ Passes(conf, Packet(user, to, FALSE))

-----------------------------------------------------------------------------
(* What the configuration asks for: in white mode the internal hosts and    *)
(* what is on the lists, and nothing else; in black mode all but the lists. *)
MayReach(conf, to) ==
  IF conf.model = "white"
  THEN to \in ToSet(conf.ips) \cup {Local, Listed, Resolved}
  ELSE to # Listed

(* A range is not enforced either way, and not part of the policy.          *)
EnforcesPolicy(conf) ==
  \A user \in Graded :
    /\ \A to \in AnyHost(conf) \ {AsRange}, old \in BOOLEAN :
         Passes(conf, Packet(user, to, old)) <=> MayReach(conf, to)
    /\ \A d \in Domains : Reaches(conf, user, d) <=> (conf.model = "white") = (d = "listed")
=============================================================================
