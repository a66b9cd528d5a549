----------------------------- MODULE MCBanSync -----------------------------
(***************************************************************************)
(* BanSync with two workers, of one master or of a master each.            *)
(***************************************************************************)
EXTENDS BanSync, TLC

CONSTANTS m1, m2, w1, w2, p1, p2, i1, d1

TwoMasters == {m1, m2}
TwoWorkers == {w1, w2}
TwoPorts == {p1, p2}
OneIp == {i1}
OneDomain == {d1}

Ban(ip) == [ip |-> ip, dom |-> NoDomain]
DomainBan(ip) == [ip |-> ip, dom |-> d1]

MCWorld(ports, entries, operations, patient, max_ops, max_restarts) ==
    [ports |-> ports, entries |-> entries, cloud |-> FALSE,
     master |-> [w \in TwoWorkers |-> m1], operations |-> operations, patient |-> patient,
     max_ops |-> max_ops, max_restarts |-> max_restarts]
InCloud(w) == [w EXCEPT !.cloud = TRUE, !.master[w2] = m2]

\* Users and rules that ban at any time, and users who wait between their
\* operations, on two ports and with bans for a domain.
Bans == MCWorld({p1}, {Ban(i1)}, {"ban", "rule", "rule_global", "update"}, FALSE, 4, 1)
Patient == MCWorld({p1, p2}, {Ban(i1), DomainBan(i1)},
                   {"ban", "unban", "unbans", "global", "update"}, TRUE, 3, 1)
\* The same with two masters that share a list in redis, and a master that dies.
CloudBans == InCloud(MCWorld({p1}, {Ban(i1), DomainBan(i1)}, {"ban"}, FALSE, 2, 0))
CloudRules == InCloud(MCWorld({p1}, {Ban(i1)}, {"ban", "rule"}, FALSE, 2, 1))
CloudPatient == InCloud(MCWorld({p1}, {Ban(i1)}, {"ban", "unban", "unbans", "reboot"}, TRUE, 3, 1))
AllWorlds == {Bans, Patient, CloudBans, CloudRules, CloudPatient}
ASSUME \A W \in AllWorlds : Coherent(W)

\* A ban and an unban in quick succession.
UnbanWorlds == {MCWorld({p1}, {Ban(i1)}, {"ban", "unban"}, FALSE, 2, 0)}
=============================================================================
