----------------------------- MODULE Diagnosis -----------------------------
(***************************************************************************)
(* The network diagnosis engines CNEM, Cumbia, Assurance and ISP           *)
(* (core/cnem, core/cumbia, core/assurance, core/isp).                     *)
(*                                                                         *)
(* An engine is a function of one observation and keeps no state.  All     *)
(* four are given the same site here, a fault at a time: a check that      *)
(* fails in the structs of several engines has one name, a measurement is  *)
(* the number its threshold is compared with.  Texts (origin, evidence,    *)
(* recommendation) are left out; severity, category, root cause and the    *)
(* number of anomalies are kept.                                           *)
(***************************************************************************)
EXTENDS Integers, FiniteSets

CONSTANTS
  MaxDeviations,  \* bound: checks that fail and measurements off zero at a time
  Latencies,   \* latency_ms
  Jitters,     \* jitter_ms
  Losses,      \* packet_loss_percent
  Loads        \* utilization_pct

\* The boolean fields of the four structs; "onu" is onu_errors >= 10 and "sla"
\* an availability below the target.
Checks ==
  {"authorized", "management", "interface", "ip", "gateway", "routing", "bgp",
   "rpki", "ipv4", "ipv6", "dns", "pon", "radio", "certificate",
   "authentication", "configuration", "exposed", "los", "flapping", "onu", "sla"}

VARIABLE site   \* [down, latency, jitter, loss, load]

Fails(o, checks) == o.down \cap checks # {}
-----------------------------------------------------------------------------
\* The validate functions: a measurement out of its range is refused.
Measured(o) == o.latency >= 0 /\ o.jitter >= 0 /\ o.loss \in 0..100
IspMeasured(o) == Measured(o) /\ o.load \in 0..100

\* The thresholds CNEM, Cumbia and Assurance share.
SlowLink(o) == o.loss >= 5 \/ o.latency >= 200 \/ o.jitter >= 50

\* chrono_cnem_correlate: the first failing domain is the root cause.
CnemCause(o) ==
  IF Fails(o, {"gateway", "ipv4", "interface"}) THEN "CONNECTIVITY"
  ELSE IF Fails(o, {"routing", "bgp"}) THEN "ROUTING"
  ELSE IF Fails(o, {"dns"}) THEN "DNS"
  ELSE IF Fails(o, {"pon"}) THEN "PON"
  ELSE IF Fails(o, {"radio"}) THEN "RADIO"
  ELSE IF SlowLink(o) THEN "PERFORMANCE"
  ELSE "NONE"

\* Severities: 0 INFO, 1 WARNING, 2 CRITICAL.
CnemSeverity(o) ==
  CASE CnemCause(o) \in {"CONNECTIVITY", "ROUTING"} -> 2
    [] CnemCause(o) = "NONE" -> 0
    [] OTHER -> 1

CnemEvidence(o) ==
  (IF Fails(o, {"sla"}) THEN 1 ELSE 0) + 1
  + (IF CnemCause(o) = "ROUTING" /\ Fails(o, {"rpki"}) THEN 1 ELSE 0)
-----------------------------------------------------------------------------
\* chrono_cumbia_analyze returns at once from the first of these.
CumbiaStops(o) == Fails(o, {"authorized", "management", "ip", "gateway"})

\* The checks it goes through otherwise, none of which ends the analysis.
CumbiaAnomalies(o) ==
  {c \in {"ROUTING", "BGP", "RPKI", "IPV", "DNS", "SECURITY", "INTERFACE", "PERFORMANCE"} :
     CASE c = "ROUTING"     -> Fails(o, {"routing"})
       [] c = "BGP"         -> Fails(o, {"bgp"})
       [] c = "RPKI"        -> Fails(o, {"rpki"})
       [] c = "IPV"         -> Fails(o, {"ipv4", "ipv6"})
       [] c = "DNS"         -> Fails(o, {"dns"})
       [] c = "SECURITY"    -> Fails(o, {"certificate", "authentication", "configuration"})
       [] c = "INTERFACE"   -> Fails(o, {"interface"})
       [] c = "PERFORMANCE" -> SlowLink(o)}

CumbiaCount(o) == IF CumbiaStops(o) THEN 1 ELSE Cardinality(CumbiaAnomalies(o))

\* Fault: no early return, the later checks overwrite the status.
CumbiaStatusNoReturn(o) ==
  IF "PERFORMANCE" \in CumbiaAnomalies(o) THEN 1
  ELSE IF "INTERFACE" \in CumbiaAnomalies(o) \/ CumbiaStops(o) THEN 2
  ELSE IF CumbiaAnomalies(o) # {} THEN 1 ELSE 0

\* 0 ONLINE, 1 DEGRADED, 2 BLOCKED: every check assigns the status, so the
\* last one that fails decides; performance comes after interface_down.
CumbiaStatus(o) ==
  IF CumbiaStops(o) THEN 2
  ELSE IF "PERFORMANCE" \in CumbiaAnomalies(o) THEN 1
  ELSE IF "INTERFACE" \in CumbiaAnomalies(o) THEN 2
  ELSE IF CumbiaAnomalies(o) # {} THEN 1 ELSE 0
-----------------------------------------------------------------------------
\* chrono_assurance_analyze: the domains that show a problem.
AssuranceDomains(o) ==
  {d \in {"management", "interface", "gateway", "routing", "rpki", "dns", "ip",
          "pon", "radio", "certificate", "configuration", "performance"} :
     CASE d = "routing"     -> Fails(o, {"routing", "bgp"})
       [] d = "ip"          -> Fails(o, {"ipv4", "ipv6"})
       [] d = "performance" -> SlowLink(o)
       [] OTHER             -> Fails(o, {d})}

\* 0 OK, 1 DEGRADED; CRITICAL is never assigned.
AssuranceStatus(o) == IF AssuranceDomains(o) = {} THEN 0 ELSE 1

\* Fault: routing is looked at before the link.
AssuranceRootRoutingFirst(o) ==
  LET d == AssuranceDomains(o) IN
  IF d = {} THEN "NONE"
  ELSE IF "routing" \in d THEN "ROUTING"
  ELSE IF d \cap {"interface", "gateway", "management"} # {} THEN "LINK"
  ELSE IF "dns" \in d THEN "DNS"
  ELSE IF "pon" \in d THEN "PON"
  ELSE IF "radio" \in d THEN "RADIO"
  ELSE IF "certificate" \in d THEN "CERTIFICATE"
  ELSE IF "configuration" \in d THEN "CONFIGURATION"
  ELSE "MULTI_DOMAIN"

\* The root cause, in the order of the else-if chain.
AssuranceRoot(o) ==
  LET d == AssuranceDomains(o) IN
  IF d = {} THEN "NONE"
  ELSE IF d \cap {"interface", "gateway", "management"} # {} THEN "LINK"
  ELSE IF "routing" \in d THEN "ROUTING"
  ELSE IF "dns" \in d THEN "DNS"
  ELSE IF "pon" \in d THEN "PON"
  ELSE IF "radio" \in d THEN "RADIO"
  ELSE IF "certificate" \in d THEN "CERTIFICATE"
  ELSE IF "configuration" \in d THEN "CONFIGURATION"
  ELSE "MULTI_DOMAIN"

\* sla_at_risk is set whatever the domains say.
AssuranceEvidence(o) ==
  Cardinality(AssuranceDomains(o)) + (IF Fails(o, {"sla"}) THEN 1 ELSE 0)
-----------------------------------------------------------------------------
\* chrono_isp_analyze returns from the first category that applies.
IspRouting(o) == Fails(o, {"rpki", "bgp"})
IspPon(o) == Fails(o, {"los", "flapping", "onu"})
IspSecurity(o) == Fails(o, {"certificate", "exposed", "configuration"})
IspNetwork(o) == o.loss >= 2 \/ o.latency >= 100 \/ o.jitter >= 30
IspCapacity(o) == o.load >= 80

\* The category as its place in the function, 6 for HEALTHY.
IspCategory(o) ==
  IF IspRouting(o) THEN 1
  ELSE IF IspPon(o) THEN 2
  ELSE IF IspSecurity(o) THEN 3
  ELSE IF IspNetwork(o) THEN 4
  ELSE IF IspCapacity(o) THEN 5
  ELSE 6

\* 0 INFO, 1 WARNING, 2 CRITICAL: of the category that was reached.
IspSeverity(o) ==
  CASE IspCategory(o) = 1 -> 2
    [] IspCategory(o) = 2 -> IF Fails(o, {"los", "flapping"}) THEN 2 ELSE 1
    [] IspCategory(o) = 3 -> IF Fails(o, {"certificate"}) THEN 2 ELSE 1
    [] IspCategory(o) = 4 -> IF o.loss >= 5 \/ o.latency >= 200 THEN 2 ELSE 1
    [] IspCategory(o) = 5 -> IF o.load >= 90 THEN 2 ELSE 1
    [] IspCategory(o) = 6 -> 0
-----------------------------------------------------------------------------
Healthy == [down |-> {}, latency |-> 0, jitter |-> 0, loss |-> 0, load |-> 0]

Init == site = Healthy

Off(x) == IF x = 0 THEN 0 ELSE 1
Deviations(o) ==
  Cardinality(o.down) + Off(o.latency) + Off(o.jitter) + Off(o.loss) + Off(o.load)

\* The network, external: a check starts or ceases to fail, a measurement moves.
CheckFails == \E c \in Checks \ site.down : site' = [site EXCEPT !.down = @ \cup {c}]
CheckRecovers == \E c \in site.down : site' = [site EXCEPT !.down = @ \ {c}]
MeasurementMoves ==
  \/ \E x \in Latencies : site' = [site EXCEPT !.latency = x]
  \/ \E x \in Jitters : site' = [site EXCEPT !.jitter = x]
  \/ \E x \in Losses : site' = [site EXCEPT !.loss = x]
  \/ \E x \in Loads : site' = [site EXCEPT !.load = x]

Next ==
  /\ CheckFails \/ CheckRecovers \/ MeasurementMoves
  /\ Deviations(site') <= MaxDeviations
vars == site
Spec == Init /\ [][Next]_vars
-----------------------------------------------------------------------------
TypeOK ==
  /\ site \in [down : SUBSET Checks, latency : Latencies \cup {0}, jitter : Jitters \cup {0},
               loss : Losses \cup {0}, load : Loads \cup {0}]
  /\ CumbiaCount(site) \in 0..8
  /\ CnemEvidence(site) \in 1..3     \* evidence[8] is never full
  /\ AssuranceEvidence(site) \in 0..13

\* p is the site o with more failing checks or higher measurements.
Worse(o, p) ==
  /\ o # p
  /\ o.down \subseteq p.down
  /\ o.latency <= p.latency /\ o.jitter <= p.jitter
  /\ o.loss <= p.loss /\ o.load <= p.load

\* A site that gets worse is not reported as better.  CNEM and Assurance never
\* do.  Cumbia does in one case, an interface down on a slow link, and ISP only
\* when a category it tests earlier takes over with a warning.
NoBetter(o, p) ==
  /\ CnemSeverity(o) <= CnemSeverity(p)
  /\ AssuranceStatus(o) <= AssuranceStatus(p)
  /\ CumbiaStatus(o) <= CumbiaStatus(p) \/ ("interface" \in p.down /\ SlowLink(p))
  /\ IspMeasured(o) /\ IspMeasured(p) =>
       \/ IspSeverity(o) <= IspSeverity(p)
       \/ IspSeverity(p) = 1 /\ IspCategory(p) < IspCategory(o)
WorseNeverLooksBetter ==
  [][Worse(site, site') /\ Measured(site) /\ Measured(site') => NoBetter(site, site')]_vars

\* The engines agree about one site: what CNEM, Cumbia or (but for what only it
\* reads) ISP reports, Assurance reports too, and CNEM and Assurance name the
\* same root cause unless management or IPv4 fail, which one of them takes for
\* the link and the other does not; only RPKI and IPv6 go unnoticed in CNEM.
SameRoot(o) ==
  CASE CnemCause(o) = "CONNECTIVITY" -> AssuranceRoot(o) = "LINK"
    [] CnemCause(o) \in {"ROUTING", "DNS", "PON", "RADIO"} -> AssuranceRoot(o) = CnemCause(o)
    [] OTHER -> AssuranceRoot(o) \in {"NONE", "CERTIFICATE", "CONFIGURATION", "MULTI_DOMAIN"}
EnginesAgree ==
  Measured(site) =>
    /\ CnemSeverity(site) > 0 => AssuranceStatus(site) > 0
    /\ CumbiaStatus(site) > 0 =>
         AssuranceStatus(site) > 0 \/ Fails(site, {"authorized", "ip", "authentication"})
    /\ CumbiaStatus(site) = 0 <=> CumbiaCount(site) = 0
    /\ AssuranceStatus(site) > 0 /\ CnemSeverity(site) = 0 =>
         Fails(site, {"management", "rpki", "ipv6", "certificate", "configuration"})
    /\ ~Fails(site, {"management", "ipv4"}) => SameRoot(site)
=============================================================================
