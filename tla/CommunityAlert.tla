--------------------------- MODULE CommunityAlert ---------------------------
(***************************************************************************)
(* Community alerts (core/community/chrono_community_alert.c): "send"      *)
(* builds an authenticated datagram and sends it to every peer, "listen"   *)
(* verifies what arrives, remembers its nonce on disk and raises the       *)
(* alert.  One listener is modelled, with its senders and a network that   *)
(* loses, delays, duplicates, reorders and damages datagrams.              *)
(*                                                                         *)
(* A packet is what parse_and_verify_packet tells apart: the nonce, which  *)
(* 128 random bits make unique, the sender's timestamp, the address it     *)
(* comes from, whether its HMAC is right, and the form of its texts:       *)
(* "plain", "empty" (strtok_r skips an empty field, so the packet has six) *)
(* or "long" (the sender takes what does not fit the listener's buffers).  *)
(***************************************************************************)
EXTENDS Integers, Sequences, SequencesExt

CONSTANTS
  Addresses,        \* IPv4 addresses
  PeerLines,        \* community_peers.conf: its well-formed addresses in order
  MAX_PEERS,        \* 32 in the code
  MAX_CLOCK_SKEW,   \* 300 seconds in the code
  MAX_SEEN_NONCES,  \* 4096 in the code
  Drift,            \* how far a sender's clock may be off
  MaxAlerts,        \* bound: alerts sent
  MaxClock,         \* bound: the listener's clock
  MaxLines,         \* bound: lines in the nonce file
  MaxFaults         \* bound: damaged packets, kills, failing writes

ASSUME BoundsAssumption ==
  /\ {MAX_PEERS, MAX_CLOCK_SKEW, MAX_SEEN_NONCES} \subseteq Nat
  /\ {Drift, MaxAlerts, MaxClock, MaxLines, MaxFaults} \subseteq Nat
ASSUME PeersAssumption == PeerLines \in Seq(Addresses)

\* load_peers: the table stops at MAX_PEERS.
Peers == {PeerLines[i] : i \in {j \in 1..Len(PeerLines) : j <= MAX_PEERS}}
peer_allowed(ip) == ip \in Peers

Nonces == 1..MaxAlerts
Forms == {"plain", "empty", "long"}
Reasons == {"INVALID", "UNAUTHORIZED_PEER", "TIMESTAMP_REJECTED",
            "REPLAY_REJECTED", "AUTHENTICATION_FAILED"}
\* A line that is not a nonce: a part of one, or two that run together.  (A line
\* of more than 127 characters, which four failing writes in a row can make and
\* fgets returns in pieces, counts as one.)
Torn == 0
Idle == [at |-> "recv", nonce |-> 0, form |-> "plain"]

VARIABLES
  clock,
  sent,      \* how many alerts were built
  net,       \* packets on the network
  seen,      \* the nonce file: each line's nonce, or Torn
  open,      \* the last line of the file has no newline
  listener,  \* Idle, or verifying ("verified") or raising ("remembered") one
  raised,    \* community_alerts.log: how often each alert was raised
  rejected,  \* community_alerts.log: the rejections, by nonce
  faults,
  spoiled,   \* history: nonces remembered for alerts that were not raised
  missed     \* history: nonces whose line cannot be found, or was not looked for

vars == <<clock, sent, net, seen, open, listener, raised, rejected, faults, spoiled, missed>>

Init ==
  /\ clock = 0 /\ sent = 0 /\ net = {}
  /\ seen = <<>> /\ open = FALSE /\ listener = Idle
  /\ raised = [n \in Nonces |-> 0] /\ rejected = {}
  /\ faults = 0 /\ spoiled = {} /\ missed = {}
-----------------------------------------------------------------------------
\* broadcast_alert, from any machine that has the key.
send(ip, ts, form) ==
  /\ sent < MaxAlerts
  /\ sent' = sent + 1
  /\ net' = net \cup {[nonce |-> sent + 1, ts |-> ts, from |-> ip, mac |-> TRUE,
                       form |-> form]}
  /\ UNCHANGED <<clock, seen, open, listener, raised, rejected, faults, spoiled, missed>>

\* The loop of nonce_seen: only the first MAX_SEEN_NONCES lines are read.
Found(n) == \E i \in 1..Len(seen) : i <= MAX_SEEN_NONCES /\ seen[i] = n

\* Fault: the nonce file is not read.
NonceNeverSeen(n, opened) == FALSE

\* nonce_seen: a file that fopen does not open has no nonce.
nonce_seen(n, opened) == opened /\ Found(n)

\* fopen fails for want of a descriptor, or because the file is not readable.
Opens(opened) ==
  /\ opened \/ faults < MaxFaults
  /\ faults' = IF opened THEN faults ELSE faults + 1

InWindow(p) == clock - MAX_CLOCK_SKEW <= p.ts /\ p.ts <= clock + MAX_CLOCK_SKEW

\* Fault: the fields are not counted.
RefusalUncounted(p, opened) ==
  CASE ~peer_allowed(p.from) -> "UNAUTHORIZED_PEER"
    [] peer_allowed(p.from) /\ ~InWindow(p) -> "TIMESTAMP_REJECTED"
    [] OTHER -> IF nonce_seen(p.nonce, opened) THEN "REPLAY_REJECTED"
                ELSE IF ~p.mac THEN "AUTHENTICATION_FAILED" ELSE ""

\* parse_and_verify_packet up to the HMAC, in the order of its tests; "" when
\* all of them pass.
Refusal(p, opened) ==
  CASE ~peer_allowed(p.from) -> "UNAUTHORIZED_PEER"
    [] peer_allowed(p.from) /\ p.form = "empty" -> "INVALID"
    [] peer_allowed(p.from) /\ p.form # "empty" /\ ~InWindow(p) -> "TIMESTAMP_REJECTED"
    [] OTHER -> IF nonce_seen(p.nonce, opened) THEN "REPLAY_REJECTED"
                ELSE IF ~p.mac THEN "AUTHENTICATION_FAILED" ELSE ""

\* log_alert, for an alert and for a refusal.
log_alert(n) == raised' = [raised EXCEPT ![n] = @ + 1]
log_rejected(n, reason) == rejected' = rejected \cup {<<n, reason>>}

\* recvfrom: the network may deliver the same packet again later.
Received(p) == net' = net \/ net' = net \ {p}

\* Fault: the nonce is remembered before the HMAC is compared.
RejectsAndRemembers(p, opened) ==
  /\ listener.at = "recv" /\ Refusal(p, opened) # ""
  /\ Len(seen) < MaxLines
  /\ Opens(opened) /\ Received(p)
  /\ log_rejected(p.nonce, Refusal(p, opened))
  /\ seen' = IF Refusal(p, opened) = "AUTHENTICATION_FAILED" THEN Append(seen, p.nonce)
             ELSE seen
  /\ UNCHANGED <<clock, sent, open, listener, raised, spoiled, missed>>

Rejects(p, opened) ==
  /\ listener.at = "recv" /\ Refusal(p, opened) # ""
  /\ Opens(opened) /\ Received(p)
  /\ log_rejected(p.nonce, Refusal(p, opened))
  /\ UNCHANGED <<clock, sent, seen, open, listener, raised, spoiled, missed>>

Verifies(p, opened) ==
  /\ listener.at = "recv" /\ Refusal(p, opened) = ""
  /\ Len(seen) < MaxLines
  /\ Opens(opened) /\ Received(p)
  /\ listener' = [at |-> "verified", nonce |-> p.nonce, form |-> p.form]
  /\ missed' = IF ~opened /\ Found(p.nonce) THEN missed \cup {p.nonce} ELSE missed
  /\ UNCHANGED <<clock, sent, seen, open, raised, rejected, spoiled>>

\* What fprintf, fflush and fclose leave of a line: "cut" is a part of the nonce,
\* "unended" all but the newline.  What is appended to a file that does not end
\* in a newline goes to its last line, which is then no nonce.
append_line(n, left) ==
  /\ seen' = IF open THEN [seen EXCEPT ![Len(seen)] = Torn]
             ELSE Append(seen, IF left = "cut" THEN Torn ELSE n)
  /\ open' = (left # "whole")

\* remember_nonce, with its fsync.
Remember ==
  /\ listener.at = "verified"
  /\ append_line(listener.nonce, "whole")
  /\ missed' = IF open THEN missed \cup {listener.nonce} ELSE missed
  /\ listener' = [listener EXCEPT !.at = "remembered"]
  /\ UNCHANGED <<clock, sent, net, raised, rejected, faults, spoiled>>

\* It fails, with nothing, a part or all of the line written: the alert is INVALID.
RememberFails(left) ==
  /\ listener.at = "verified" /\ faults < MaxFaults
  /\ faults' = faults + 1
  /\ \/ left = "none" /\ UNCHANGED <<seen, open, spoiled>>
     \/ /\ left # "none" /\ append_line(listener.nonce, left)
        /\ spoiled' = IF open \/ left = "cut" THEN spoiled
                      ELSE spoiled \cup {listener.nonce}
  /\ log_rejected(listener.nonce, "INVALID")
  /\ listener' = Idle
  /\ UNCHANGED <<clock, sent, net, raised, missed>>

\* The lengths are tested after the nonce was remembered.
RejectsLong ==
  /\ listener.at = "remembered" /\ listener.form = "long"
  /\ log_rejected(listener.nonce, "INVALID")
  /\ spoiled' = spoiled \cup {listener.nonce}
  /\ listener' = Idle
  /\ UNCHANGED <<clock, sent, net, seen, open, raised, faults, missed>>

\* listen_mode shows the alert, log_alert keeps it.
Raise ==
  /\ listener.at = "remembered" /\ listener.form # "long"
  /\ log_alert(listener.nonce)
  /\ listener' = Idle
  /\ UNCHANGED <<clock, sent, net, seen, open, rejected, faults, spoiled, missed>>

\* The listener is killed and started again; the files stay.
Restart ==
  /\ faults < MaxFaults /\ listener # Idle
  /\ faults' = faults + 1
  /\ spoiled' = IF listener.at = "remembered" THEN spoiled \cup {listener.nonce}
                ELSE spoiled
  /\ listener' = Idle
  /\ UNCHANGED <<clock, sent, net, seen, open, raised, rejected, missed>>
-----------------------------------------------------------------------------
\* The network and the time.
Lose(p) ==
  /\ net' = net \ {p}
  /\ UNCHANGED <<clock, sent, seen, open, listener, raised, rejected, faults, spoiled, missed>>

Damage(p) ==
  /\ faults < MaxFaults /\ p.mac
  /\ faults' = faults + 1
  /\ net' = net \cup {[p EXCEPT !.mac = FALSE]}
  /\ UNCHANGED <<clock, sent, seen, open, listener, raised, rejected, spoiled, missed>>

Tick ==
  /\ clock < MaxClock
  /\ clock' = clock + 1
  /\ UNCHANGED <<sent, net, seen, open, listener, raised, rejected, faults, spoiled, missed>>

Next ==
  \/ \E ip \in Addresses, ts \in (clock - Drift)..(clock + Drift), form \in Forms :
       send(ip, ts, form)
  \/ \E p \in net, opened \in BOOLEAN : Rejects(p, opened) \/ Verifies(p, opened)
  \/ \E p \in net : Lose(p) \/ Damage(p)
  \/ Remember \/ RejectsLong \/ Raise \/ Restart \/ Tick
  \/ \E left \in {"none", "cut", "unended", "whole"} : RememberFails(left)

Spec == Init /\ [][Next]_vars
-----------------------------------------------------------------------------
Packets == [nonce : Nonces, ts : (-Drift)..(MaxClock + Drift), from : Addresses,
            mac : BOOLEAN, form : Forms]

TypeOK ==
  /\ clock \in 0..MaxClock /\ sent \in 0..MaxAlerts
  /\ net \subseteq Packets
  /\ seen \in Seq(Nonces \cup {Torn}) /\ Len(seen) <= MaxLines
  /\ open \in BOOLEAN /\ (open => Len(seen) > 0)
  /\ listener \in [at : {"recv", "verified", "remembered"}, nonce : Nonces \cup {0},
                   form : Forms \ {"empty"}]
  /\ listener.at # "recv" => listener.nonce \in 1..sent
  /\ raised \in [Nonces -> Nat] /\ rejected \subseteq Nonces \X Reasons
  /\ faults \in 0..MaxFaults /\ spoiled \subseteq Nonces /\ missed \subseteq Nonces

\* "registro persistente de nonces utilizados": a datagram that is duplicated
\* or delayed raises its alert once, also across restarts of the listener and
\* failing writes, with three exceptions: its nonce is beyond the lines that
\* nonce_seen reads, was appended to a line that an earlier failing write left
\* without its end, or was looked for when the file could not be opened.
RaisedOnce ==
  \A n \in Nonces :
    raised[n] > 1 =>
      n \in missed \/ \A i \in 1..Len(seen) : seen[i] = n => i > MAX_SEEN_NONCES

\* A damaged copy, or the order in which copies arrive, never makes the real
\* alert pass for a replay: a nonce is refused as one only after its alert was
\* raised, or its texts were too long, or the listener died in between.
NotSuppressed ==
  \A n \in Nonces :
    <<n, "REPLAY_REJECTED">> \in rejected =>
      raised[n] > 0 \/ n \in spoiled
=============================================================================
