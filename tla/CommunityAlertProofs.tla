------------------------ MODULE CommunityAlertProofs ------------------------
(***************************************************************************)
(* An alert is raised at most once unless its nonce could not be found in  *)
(* the file, and a nonce is refused as a replay only if its alert was      *)
(* raised or given up, for every number of alerts, peers, faults and       *)
(* lines; the types of the files, the network and the programs.            *)
(***************************************************************************)
EXTENDS CommunityAlert, TLAPS

Lines == Nonces \cup {Torn}
InFile(n) == \E i \in 1..Len(seen) : seen[i] = n
Full == Len(seen) >= MAX_SEEN_NONCES

PacketType ==
  [nonce : Nonces, ts : Int, from : Addresses, mac : BOOLEAN, form : Forms]

FileType ==
  /\ seen \in Seq(Lines)
  /\ open \in BOOLEAN /\ (open => Len(seen) > 0)
  /\ raised \in [Nonces -> Nat]
  /\ listener \in [at : {"recv", "verified", "remembered"}, nonce : Nonces \cup {0},
                   form : Forms]
  /\ listener.at # "recv" => listener.nonce \in Nonces
  /\ net \subseteq PacketType
  /\ sent \in Nat

\* RaisedOnce is not inductive: it says nothing of an alert that is verified
\* or remembered but not raised yet, nor why a nonce that enters the readable
\* lines cannot have been raised before, nor why a line that is torn when the
\* next nonce is appended to it is not the one line of an alert that was raised.
Kept == \A n \in Nonces \ missed : raised[n] > 0 => Found(n) \/ Full
Once == \A n \in Nonces \ missed : Found(n) => raised[n] <= 1
OpenLine == open => \A n \in Nonces \ missed :
                  seen[Len(seen)] = n /\ Len(seen) <= MAX_SEEN_NONCES => raised[n] = 0
Handled ==
  /\ listener.at = "verified" /\ listener.nonce \notin missed => ~Found(listener.nonce)
  /\ listener.at = "remembered" => open = FALSE
  /\ listener.at = "remembered" /\ listener.nonce \notin missed =>
       /\ Found(listener.nonce) \/ Full
       /\ Found(listener.nonce) => raised[listener.nonce] = 0

OneInv == FileType /\ Kept /\ Once /\ OpenLine /\ Handled

\* A line that is added: what was found is found, what was not found is found
\* only if it is the new line, and there was room among the lines that are read.
LEMMA AddedLine ==
  ASSUME seen \in Seq(Lines), NEW v \in Lines, seen' = Append(seen, v), NEW n \in Nonces
  PROVE  /\ seen' \in Seq(Lines) /\ Len(seen') = Len(seen) + 1 /\ Len(seen) \in Nat
         /\ seen'[Len(seen')] = v
         /\ Full => Full'
         /\ InFile(n)' <=> (InFile(n) \/ n = v)
         /\ Found(n) => Found(n)'
         /\ Found(n)' => Found(n) \/ (n = v /\ ~Full)
         /\ Found(v)' \/ Full'
<1>1. MAX_SEEN_NONCES \in Nat
  BY BoundsAssumption
<1>2. seen' \in Seq(Lines) /\ Len(seen') = Len(seen) + 1 /\ Len(seen) \in Nat
  OBVIOUS
<1>3. \A i \in 1..Len(seen) : seen'[i] = seen[i]
  OBVIOUS
<1>4. seen'[Len(seen) + 1] = v
  OBVIOUS
<1>5. InFile(n)' <=> (InFile(n) \/ n = v)
  BY <1>2, <1>3, <1>4 DEF InFile
<1>6. Found(n) => Found(n)'
  BY <1>1, <1>2, <1>3 DEF Found
<1>7. Found(n)' => Found(n) \/ (n = v /\ ~Full)
  BY <1>1, <1>2, <1>3, <1>4 DEF Found, Full
<1>8. Found(v)' \/ Full'
  BY <1>1, <1>2, <1>4 DEF Found, Full
<1>9. Full => Full'
  BY <1>1, <1>2 DEF Full
<1> QED BY <1>2, <1>4, <1>5, <1>6, <1>7, <1>8, <1>9

\* A line that is torn: nothing is found that was not, and only the nonce of the
\* last line, if that one is read, is lost.
LEMMA TornLine ==
  ASSUME seen \in Seq(Lines), Len(seen) > 0, seen' = [seen EXCEPT ![Len(seen)] = Torn],
         NEW n \in Nonces
  PROVE  /\ seen' \in Seq(Lines) /\ Len(seen') = Len(seen) /\ Len(seen) \in Nat
         /\ seen'[Len(seen')] # n
         /\ Full' <=> Full
         /\ InFile(n)' => InFile(n)
         /\ Found(n)' => Found(n)
         /\ Found(n) => Found(n)' \/ (seen[Len(seen)] = n /\ Len(seen) <= MAX_SEEN_NONCES)
<1>1. MAX_SEEN_NONCES \in Nat /\ MaxAlerts \in Nat
  BY BoundsAssumption
<1>2. seen' \in Seq(Lines) /\ Len(seen') = Len(seen) /\ Len(seen) \in Nat
  BY DEF Lines
<1>3. \A i \in 1..Len(seen) : i # Len(seen) => seen'[i] = seen[i]
  OBVIOUS
<1>4. Len(seen) \in 1..Len(seen)
  BY <1>2
<1>5. seen'[Len(seen)] = Torn
  BY <1>4
<1>6. n # Torn
  BY <1>1 DEF Nonces, Torn
<1>7. InFile(n)' => InFile(n)
  BY <1>2, <1>3, <1>5, <1>6 DEF InFile
<1>8. Found(n)' => Found(n)
  BY <1>2, <1>3, <1>5, <1>6 DEF Found
<1>9. Found(n) => Found(n)' \/ (seen[Len(seen)] = n /\ Len(seen) <= MAX_SEEN_NONCES)
  BY <1>2, <1>3, <1>4 DEF Found
<1>10. Full' <=> Full
  BY <1>2 DEF Full
<1> QED BY <1>2, <1>5, <1>6, <1>7, <1>8, <1>9, <1>10

LEMMA OneInvInit == Init => OneInv
<1> SUFFICES ASSUME Init PROVE OneInv
  OBVIOUS
<1>0. open = FALSE /\ seen = <<>>
  BY DEF Init
<1>s. seen \in Seq(Lines)
  BY <1>0
<1>o. open \in BOOLEAN
  BY <1>0
<1>1. FileType
  BY <1>0, <1>s, <1>o DEF Init, FileType, Idle, Forms
<1>2. \A n \in Nonces : raised[n] = 0 /\ ~Found(n)
  BY DEF Init, Found
<1>3. listener.at = "recv" /\ open = FALSE
  BY DEF Init, Idle
<1> QED BY <1>1, <1>2, <1>3 DEF OneInv, Kept, Once, OpenLine, Handled

LEMMA OneInvNext == OneInv /\ [Next]_vars => OneInv'
<1> SUFFICES ASSUME OneInv, [Next]_vars PROVE OneInv'
  OBVIOUS
<1>t. /\ seen \in Seq(Lines) /\ open \in BOOLEAN /\ (open => Len(seen) > 0)
      /\ raised \in [Nonces -> Nat] /\ net \subseteq PacketType /\ sent \in Nat
      /\ listener.at # "recv" => listener.nonce \in Nonces
  BY DEF OneInv, FileType
<1>m. MaxAlerts \in Nat /\ MAX_SEEN_NONCES \in Nat
  BY BoundsAssumption
<1>r. Idle.at = "recv" /\ Idle \in [at : {"recv", "verified", "remembered"},
                                   nonce : Nonces \cup {0}, form : Forms]
  BY DEF Idle, Forms
\* A step that leaves the file and the alert log alone.
<1>q. ASSUME UNCHANGED <<seen, open, raised, missed>>,
             UNCHANGED listener \/ listener' = Idle,
             net' \subseteq PacketType, sent' \in Nat
      PROVE  OneInv'
  <2>1. FileType'
    BY <1>q, <1>r DEF OneInv, FileType
  <2>2. Kept' /\ Once' /\ OpenLine'
    BY <1>q DEF OneInv, Kept, Once, OpenLine, Found, Full
  <2>3. Handled'
    BY <1>q, <1>r DEF OneInv, Handled, Found, Full
  <2> QED BY <2>1, <2>2, <2>3 DEF OneInv
<1>1. ASSUME NEW ip \in Addresses, NEW ts \in (clock - Drift)..(clock + Drift),
             NEW form \in Forms, send(ip, ts, form)
      PROVE  OneInv'
  <2>1. UNCHANGED <<seen, open, raised, missed, listener>>
    BY <1>1 DEF send
  <2>2. sent + 1 \in Nonces /\ sent' \in Nat
    BY <1>1, <1>m, <1>t DEF send, Nonces
  <2>p. [nonce |-> sent + 1, ts |-> ts, from |-> ip, mac |-> TRUE, form |-> form]
          \in PacketType
    BY <2>2 DEF PacketType
  <2>3. net' \subseteq PacketType
    BY <1>1, <1>t, <2>p DEF send
  <2> QED BY <1>q, <2>1, <2>2, <2>3
<1>2. ASSUME NEW p \in net, NEW opened \in BOOLEAN, Rejects(p, opened) PROVE OneInv'
  <2>1. UNCHANGED <<seen, open, raised, missed, listener, sent>> /\ net' \subseteq net
    BY <1>2 DEF Rejects, Received
  <2> QED BY <1>q, <1>t, <2>1
<1>3. ASSUME NEW p \in net, NEW opened \in BOOLEAN, Verifies(p, opened) PROVE OneInv'
  <2>1. UNCHANGED <<seen, open, raised, sent>> /\ net' \subseteq net /\ missed \subseteq missed'
    BY <1>3 DEF Verifies, Received
  <2>2. p.nonce \in Nonces /\ p.form \in Forms
    BY <1>t DEF PacketType
  <2>3. listener' = [at |-> "verified", nonce |-> p.nonce, form |-> p.form]
    BY <1>3 DEF Verifies
  <2>4. p.nonce \in missed' \/ ~Found(p.nonce)
    BY <1>3 DEF Verifies, Refusal, nonce_seen
  <2>5. FileType'
    BY <1>t, <2>1, <2>2, <2>3 DEF FileType
  <2>6. Kept' /\ Once' /\ OpenLine'
    BY <2>1 DEF OneInv, Kept, Once, OpenLine, Found, Full
  <2>7. Handled'
    BY <2>1, <2>3, <2>4 DEF Handled, Found
  <2> QED BY <2>5, <2>6, <2>7 DEF OneInv
<1>4. CASE Remember
  <2>0. PICK m \in Nonces : m = listener.nonce
    BY <1>4, <1>t DEF Remember
  <2>1. /\ UNCHANGED <<raised, sent, net>> /\ open' = FALSE
        /\ listener.at = "verified" /\ missed \subseteq missed'
    BY <1>4 DEF Remember, append_line
  <2>2. listener'.at = "remembered" /\ listener'.nonce = m
        /\ listener' \in [at : {"recv", "verified", "remembered"}, nonce : Nonces \cup {0},
                          form : Forms]
    BY <1>4, <2>0 DEF Remember, OneInv, FileType
  <2>3. OpenLine'
    BY <2>1 DEF OpenLine
  <2>4. CASE open
    <3>1. seen' = [seen EXCEPT ![Len(seen)] = Torn] /\ Len(seen) > 0 /\ m \in missed'
      BY <1>4, <1>t, <2>0, <2>4 DEF Remember, append_line
    <3>2. FileType'
      BY <1>t, <2>0, <2>1, <2>2, <3>1, TornLine DEF FileType
    <3>3. Once'
      BY <1>t, <2>1, <3>1, TornLine DEF OneInv, Once
    <3>4. Kept'
      BY <1>t, <2>1, <2>4, <3>1, TornLine DEF OneInv, Kept, OpenLine
    <3>5. Handled'
      BY <2>1, <2>2, <3>1 DEF Handled
    <3> QED BY <2>3, <3>2, <3>3, <3>4, <3>5 DEF OneInv
  <2>5. CASE ~open
    <3>1. seen' = Append(seen, m) /\ m \in Lines
      BY <1>4, <2>0, <2>5 DEF Remember, append_line, Lines
    <3>2. FileType'
      BY <1>t, <2>0, <2>1, <2>2, <3>1, AddedLine DEF FileType
    <3>3. m \notin missed => ~Found(m)
      BY <2>0, <2>1 DEF OneInv, Handled
    <3>4. m \notin missed' /\ Found(m)' => raised[m] = 0
      <4>1. SUFFICES ASSUME m \notin missed, Found(m)' PROVE raised[m] = 0
        BY <2>1
      <4>2. ~Full
        BY <1>t, <3>1, <3>3, <4>1, AddedLine
      <4> QED BY <1>t, <3>3, <4>1, <4>2 DEF OneInv, Kept
    <3>5. \A n \in Nonces \ missed' : Found(n)' => raised'[n] <= 1
      BY <1>t, <2>1, <3>1, <3>4, AddedLine DEF OneInv, Once
    <3>6. Kept'
      BY <1>t, <2>1, <3>1, AddedLine DEF OneInv, Kept
    <3>7. Found(m)' \/ Full'
      BY <1>t, <3>1, AddedLine
    <3>8. Handled'
      BY <2>1, <2>2, <3>4, <3>7 DEF Handled, Found
    <3> QED BY <2>3, <3>2, <3>5, <3>6, <3>8 DEF OneInv, Once
  <2> QED BY <1>t, <2>4, <2>5
<1>5. ASSUME NEW left \in {"none", "cut", "unended", "whole"}, RememberFails(left)
      PROVE  OneInv'
  <2>0. PICK m \in Nonces : m = listener.nonce
    BY <1>5, <1>t DEF RememberFails
  <2>1. listener' = Idle /\ UNCHANGED <<raised, sent, net, missed>> /\ listener.at = "verified"
    BY <1>5 DEF RememberFails
  <2>2. CASE left = "none"
    BY <1>5, <1>q, <1>t, <2>1, <2>2 DEF RememberFails
  <2>3. CASE left # "none"
    <3>1. append_line(m, left)
      BY <1>5, <2>0, <2>3 DEF RememberFails
    <3>2. open' \in BOOLEAN
      BY <3>1 DEF append_line
    <3>3. Handled'
      BY <1>r, <2>1 DEF Handled
    <3>4. CASE open
      <4>1. seen' = [seen EXCEPT ![Len(seen)] = Torn] /\ Len(seen) > 0
        BY <1>t, <3>1, <3>4 DEF append_line
      <4>2. FileType'
        BY <1>r, <1>t, <2>0, <2>1, <3>2, <4>1, TornLine DEF FileType
      <4>3. Once'
        BY <1>t, <2>1, <4>1, TornLine DEF OneInv, Once
      <4>4. Kept'
        BY <1>t, <2>1, <3>4, <4>1, TornLine DEF OneInv, Kept, OpenLine
      <4>5. \A n \in Nonces : seen'[Len(seen')] # n
        BY <1>t, <4>1, TornLine
      <4>6. OpenLine'
        BY <4>5 DEF OpenLine
      <4> QED BY <3>3, <4>2, <4>3, <4>4, <4>6 DEF OneInv
    <3>5. CASE ~open
      <4>1. PICK v \in Lines : seen' = Append(seen, v) /\ v \in {m, Torn}
        BY <3>1, <3>5 DEF append_line, Lines
      <4>2. FileType'
        BY <1>r, <1>t, <2>0, <2>1, <3>2, <4>1, AddedLine DEF FileType
      <4>3. m \notin missed => ~Found(m)
        BY <2>0, <2>1 DEF OneInv, Handled
      <4>t. Torn \notin Nonces
        BY <1>m DEF Torn, Nonces
      <4>4. \A n \in Nonces \ missed : n = v /\ ~Full => raised[n] = 0
        BY <1>t, <4>1, <4>3, <4>t DEF OneInv, Kept
      <4>5. \A n \in Nonces \ missed' : Found(n)' => raised'[n] <= 1
        BY <1>t, <2>1, <4>1, <4>4, AddedLine DEF OneInv, Once
      <4>6. Kept'
        BY <1>t, <2>1, <4>1, AddedLine DEF OneInv, Kept
      <4>7. seen'[Len(seen')] = v /\ (Len(seen') <= MAX_SEEN_NONCES => ~Full)
        BY <1>m, <1>t, <2>0, <4>1, AddedLine DEF Full
      <4>8. OpenLine'
        BY <2>1, <4>4, <4>7 DEF OpenLine
      <4> QED BY <3>3, <4>2, <4>5, <4>6, <4>8 DEF OneInv, Once
    <3> QED BY <1>t, <3>4, <3>5
  <2> QED BY <2>2, <2>3
<1>6. CASE RejectsLong \/ Restart
  BY <1>6, <1>q, <1>t DEF RejectsLong, Restart
<1>7. CASE Raise
  <2> DEFINE m == listener.nonce
  <2>1. /\ m \in Nonces /\ open = FALSE
        /\ m \notin missed => (Found(m) \/ Full) /\ (Found(m) => raised[m] = 0)
    BY <1>7, <1>t DEF Raise, OneInv, Handled
  <2>2. listener' = Idle /\ UNCHANGED <<seen, open, sent, net, missed>>
    BY <1>7 DEF Raise
  <2>3. raised' = [raised EXCEPT ![m] = @ + 1]
    BY <1>7 DEF Raise, log_alert
  <2>4. FileType'
    BY <1>r, <1>t, <2>1, <2>2, <2>3 DEF FileType
  <2>5. \A n \in Nonces : n # m => raised'[n] = raised[n]
    BY <1>t, <2>3
  <2>6. raised'[m] = raised[m] + 1 /\ raised[m] \in Nat
    BY <1>t, <2>1, <2>3
  <2>7. (Full' <=> Full) /\ \A n \in Nonces : Found(n)' <=> Found(n)
    BY <2>2 DEF Found, Full
  <2> HIDE DEF m
  <2>8. Kept'
    BY <2>1, <2>2, <2>5, <2>7 DEF OneInv, Kept
  <2>9. \A n \in Nonces \ missed' : Found(n)' => raised'[n] <= 1
    BY <2>1, <2>2, <2>5, <2>6, <2>7 DEF OneInv, Once
  <2>10. OpenLine' /\ Handled'
    BY <1>r, <2>1, <2>2 DEF OpenLine, Handled
  <2> QED BY <2>4, <2>8, <2>9, <2>10 DEF OneInv, Once
<1>8. ASSUME NEW p \in net, Lose(p) \/ Damage(p) PROVE OneInv'
  <2>1. UNCHANGED <<seen, open, raised, missed, listener, sent>>
    BY <1>8 DEF Lose, Damage
  <2>2. p \in PacketType /\ [p EXCEPT !.mac = FALSE] \in PacketType
    BY <1>t DEF PacketType
  <2>3. net' \subseteq PacketType
    BY <1>8, <1>t, <2>2 DEF Lose, Damage
  <2> QED BY <1>q, <1>t, <2>1, <2>3
<1>9. CASE Tick \/ UNCHANGED vars
  BY <1>9, <1>q, <1>t DEF Tick, vars
<1> QED
  BY <1>1, <1>2, <1>3, <1>4, <1>5, <1>6, <1>7, <1>8, <1>9 DEF Next

\* An alert whose nonce the file has among the lines nonce_seen reads, on a line
\* of its own, and that nonce_seen could look for, is raised once, whatever the
\* network repeats and however often the listener is restarted or a write fails.
THEOREM NoRepetition == Spec => []RaisedOnce
<1>1. OneInv => RaisedOnce
  BY BoundsAssumption DEF OneInv, Once, RaisedOnce, Found, FileType
<1> QED BY <1>1, OneInvInit, OneInvNext, PTL DEF Spec
-----------------------------------------------------------------------------
\* NotSuppressed needs to know of every nonce in the file, refused or not,
\* what became of its alert; the one being raised is the exception.
Settled(n) == raised[n] > 0 \/ n \in spoiled

SuppInv ==
  /\ \A n \in Nonces :
       InFile(n) => Settled(n) \/ (listener.at = "remembered" /\ listener.nonce = n)
  /\ NotSuppressed

LEMMA SuppInvInit == Init => SuppInv
BY DEF Init, SuppInv, InFile, NotSuppressed, Settled

\* No step takes a raised alert or a spoiled nonce back.
LEMMA SettledStays ==
  ASSUME OneInv, Next, NEW n \in Nonces, Settled(n)
  PROVE  Settled(n)'
<1>1. raised \in [Nonces -> Nat]
  BY DEF OneInv, FileType
<1>2. raised'[n] = raised[n] \/ raised'[n] = raised[n] + 1
  BY <1>1 DEF Next, send, Rejects, Verifies, Lose, Damage, Remember, RejectsLong, Raise,
              Restart, Tick, RememberFails, log_alert
<1>3. spoiled \subseteq spoiled'
  BY DEF Next, send, Rejects, Verifies, Lose, Damage, Remember, RejectsLong, Raise,
         Restart, Tick, RememberFails
<1> QED BY <1>1, <1>2, <1>3 DEF Settled

LEMMA SuppInvNext == OneInv /\ SuppInv /\ [Next]_vars => SuppInv'
<1> SUFFICES ASSUME OneInv, SuppInv, [Next]_vars PROVE SuppInv'
  OBVIOUS
<1>u. CASE UNCHANGED vars
  BY <1>u DEF SuppInv, vars, InFile, Settled, NotSuppressed
<1> SUFFICES ASSUME Next PROVE SuppInv'
  BY <1>u
<1>t. /\ seen \in Seq(Lines) /\ open \in BOOLEAN /\ (open => Len(seen) > 0)
      /\ listener.at # "recv" => listener.nonce \in Nonces
      /\ raised \in [Nonces -> Nat]
  BY DEF OneInv, FileType
<1>f. \A n \in Nonces :
        InFile(n) => Settled(n) \/ (listener.at = "remembered" /\ listener.nonce = n)
  BY DEF SuppInv
<1>n. \A n \in Nonces : <<n, "REPLAY_REJECTED">> \in rejected => Settled(n)
  BY DEF SuppInv, NotSuppressed, Settled
\* A step that neither refuses a replay nor touches the file and the listener.
<1>q. ASSUME UNCHANGED seen,
             \A n \in Nonces : <<n, "REPLAY_REJECTED">> \in rejected' =>
                               <<n, "REPLAY_REJECTED">> \in rejected,
             UNCHANGED listener \/ listener.at # "remembered"
      PROVE  SuppInv'
  <2>1. \A n \in Nonces : InFile(n)' => InFile(n)
    BY <1>q DEF InFile
  <2>2. \A n \in Nonces :
          InFile(n)' => Settled(n)' \/ (listener'.at = "remembered" /\ listener'.nonce = n)
    BY <1>q, <1>f, <2>1, SettledStays DEF Settled
  <2>3. \A n \in Nonces : <<n, "REPLAY_REJECTED">> \in rejected' => Settled(n)'
    BY <1>q, <1>n, SettledStays
  <2> QED BY <2>2, <2>3 DEF SuppInv, NotSuppressed, Settled
<1>1. ASSUME NEW ip \in Addresses, NEW ts, NEW form \in Forms, send(ip, ts, form)
      PROVE  SuppInv'
  BY <1>1, <1>q DEF send
<1>2. ASSUME NEW p \in net, NEW opened \in BOOLEAN, Rejects(p, opened) PROVE SuppInv'
  <2>1. UNCHANGED <<seen, listener, raised, spoiled>> /\ listener.at = "recv"
    BY <1>2 DEF Rejects
  <2>2. rejected' = rejected \cup {<<p.nonce, Refusal(p, opened)>>}
    BY <1>2 DEF Rejects, log_rejected
  <2>3. Refusal(p, opened) = "REPLAY_REJECTED" => Found(p.nonce)
    BY DEF Refusal, nonce_seen
  <2>4. Found(p.nonce) => InFile(p.nonce)
    BY DEF Found, InFile
  <2>5. \A n \in Nonces : InFile(n) => Settled(n)
    BY <1>f, <2>1
  <2>6. \A n \in Nonces : <<n, "REPLAY_REJECTED">> \in rejected' => Settled(n)
    BY <1>n, <2>2, <2>3, <2>4, <2>5
  <2> QED BY <2>1, <2>5, <2>6 DEF SuppInv, NotSuppressed, Settled, InFile
<1>3. ASSUME NEW p \in net, NEW opened \in BOOLEAN, Verifies(p, opened) PROVE SuppInv'
  BY <1>3, <1>q DEF Verifies
<1>4. CASE Remember
  <2>0. PICK m \in Nonces : m = listener.nonce
    BY <1>4, <1>t DEF Remember
  <2>1. append_line(m, "whole") /\ UNCHANGED <<raised, rejected, spoiled>>
        /\ listener.at = "verified"
    BY <1>4, <2>0 DEF Remember
  <2>2. listener'.at = "remembered" /\ listener'.nonce = m
    BY <1>4, <2>0 DEF Remember, OneInv, FileType
  <2>3. \A n \in Nonces : InFile(n)' => (InFile(n) \/ n = m)
    <3>1. CASE open
      BY <1>t, <2>1, <3>1, TornLine DEF append_line
    <3>2. CASE ~open
      BY <1>t, <2>1, <3>2, AddedLine DEF append_line, Lines
    <3> QED BY <1>t, <3>1, <3>2
  <2>4. \A n \in Nonces : Settled(n)' <=> Settled(n)
    BY <2>1 DEF Settled
  <2>5. \A n \in Nonces :
          InFile(n)' => Settled(n)' \/ (listener'.at = "remembered" /\ listener'.nonce = n)
    BY <1>f, <2>1, <2>2, <2>3, <2>4
  <2> QED BY <1>n, <2>1, <2>4, <2>5 DEF SuppInv, NotSuppressed, Settled
<1>5. ASSUME NEW left \in {"none", "cut", "unended", "whole"}, RememberFails(left)
      PROVE  SuppInv'
  <2>0. PICK m \in Nonces : m = listener.nonce
    BY <1>5, <1>t DEF RememberFails
  <2>1. rejected' = rejected \cup {<<m, "INVALID">>} /\ listener.at = "verified"
    BY <1>5, <2>0 DEF RememberFails, log_rejected
  <2>2. CASE left = "none"
    BY <1>5, <1>q, <2>1, <2>2 DEF RememberFails
  <2>3. CASE left # "none"
    <3>1. append_line(m, left)
      BY <1>5, <2>0, <2>3 DEF RememberFails
    <3>2. \A n \in Nonces : InFile(n)' => InFile(n) \/ (n = m /\ ~open /\ left # "cut")
      <4>1. CASE open
        BY <1>t, <3>1, <4>1, TornLine DEF append_line
      <4>2. CASE ~open
        <5>1. Torn \notin Nonces /\ Torn \in Lines /\ m \in Lines
          BY BoundsAssumption DEF Torn, Nonces, Lines
        <5>2. CASE left = "cut"
          BY <1>t, <3>1, <4>2, <5>1, <5>2, AddedLine DEF append_line
        <5>3. CASE left # "cut"
          BY <1>t, <3>1, <4>2, <5>1, <5>3, AddedLine DEF append_line
        <5> QED BY <5>2, <5>3
      <4> QED BY <1>t, <4>1, <4>2
    <3>3. ~open /\ left # "cut" => m \in spoiled'
      BY <1>5, <2>0, <2>3 DEF RememberFails
    <3>4. \A n \in Nonces : InFile(n)' => Settled(n)'
      BY <1>f, <2>1, <3>2, <3>3, SettledStays DEF Settled
    <3>5. \A n \in Nonces : <<n, "REPLAY_REJECTED">> \in rejected' => Settled(n)'
      BY <1>n, <2>1, SettledStays
    <3> QED BY <3>4, <3>5 DEF SuppInv, NotSuppressed, Settled
  <2> QED BY <2>2, <2>3
<1>6. CASE RejectsLong
  <2>1. rejected' = rejected \cup {<<listener.nonce, "INVALID">>}
    BY <1>6 DEF RejectsLong, log_rejected
  <2>2. UNCHANGED seen /\ listener.nonce \in spoiled'
    BY <1>6 DEF RejectsLong
  <2>3. \A n \in Nonces : InFile(n)' => Settled(n)'
    BY <1>f, <2>2, SettledStays DEF Settled, InFile
  <2>4. \A n \in Nonces : <<n, "REPLAY_REJECTED">> \in rejected' => Settled(n)'
    BY <1>n, <2>1, SettledStays
  <2> QED BY <2>3, <2>4 DEF SuppInv, NotSuppressed, Settled
<1>7. CASE Restart
  <2>1. UNCHANGED <<seen, rejected>>
        /\ (listener.at = "remembered" => listener.nonce \in spoiled')
    BY <1>7 DEF Restart
  <2>2. \A n \in Nonces : InFile(n)' => Settled(n)'
    BY <1>f, <2>1, SettledStays DEF Settled, InFile
  <2>3. \A n \in Nonces : <<n, "REPLAY_REJECTED">> \in rejected' => Settled(n)'
    BY <1>n, <2>1, SettledStays
  <2> QED BY <2>2, <2>3 DEF SuppInv, NotSuppressed, Settled
<1>8. CASE Raise
  <2>0. PICK m \in Nonces : m = listener.nonce
    BY <1>8, <1>t DEF Raise
  <2>1. UNCHANGED <<seen, rejected>> /\ raised'[m] > 0
    BY <1>8, <1>t, <2>0 DEF Raise, log_alert
  <2>2. \A n \in Nonces : InFile(n)' => Settled(n)'
    BY <1>f, <2>0, <2>1, SettledStays DEF Settled, InFile
  <2>3. \A n \in Nonces : <<n, "REPLAY_REJECTED">> \in rejected' => Settled(n)'
    BY <1>n, <2>1, SettledStays
  <2> QED BY <2>2, <2>3 DEF SuppInv, NotSuppressed, Settled
<1>9. CASE Tick \/ \E p \in net : Lose(p) \/ Damage(p)
  BY <1>9, <1>q DEF Tick, Lose, Damage
<1> QED
  BY <1>1, <1>2, <1>3, <1>4, <1>5, <1>6, <1>7, <1>8, <1>9 DEF Next

\* A nonce is refused as a replay only after its alert was raised or was
\* dropped for a reason of its own: no damaged or reordered copy does it.
THEOREM NoSuppression == Spec => []NotSuppressed
<1>1. SuppInv => NotSuppressed
  BY DEF SuppInv
<1> QED BY <1>1, OneInvInit, OneInvNext, SuppInvInit, SuppInvNext, PTL DEF Spec
-----------------------------------------------------------------------------
\* TypeOK needs the packets under way to carry nonces that were drawn, and the
\* line that an accepted packet adds to fit the nonce file.
TypeInv ==
  /\ TypeOK
  /\ \A p \in net : p.nonce \in 1..sent
  /\ listener.at = "verified" => Len(seen) < MaxLines

LEMMA TypeInit == Init => TypeInv
<1> SUFFICES ASSUME Init PROVE TypeInv
  OBVIOUS
<1>1. Idle \in [at : {"recv", "verified", "remembered"}, nonce : Nonces \cup {0},
               form : Forms \ {"empty"}] /\ Idle.at = "recv"
  BY DEF Idle, Forms
<1>2. seen \in Seq(Lines) /\ Len(seen) = 0
  BY DEF Init
<1>3. raised \in [Nonces -> Nat]
  BY DEF Init
<1>4. open \in BOOLEAN /\ open = FALSE
  BY DEF Init
<1> QED BY <1>1, <1>2, <1>3, <1>4, BoundsAssumption DEF Init, TypeInv, TypeOK, Lines

LEMMA TypeNext == TypeInv /\ [Next]_vars => TypeInv'
<1> SUFFICES ASSUME TypeInv, [Next]_vars PROVE TypeInv'
  OBVIOUS
<1> DEFINE Listeners == [at : {"recv", "verified", "remembered"}, nonce : Nonces \cup {0},
                         form : Forms \ {"empty"}]
<1>b. {Drift, MaxAlerts, MaxClock, MaxLines, MaxFaults} \subseteq Nat
  BY BoundsAssumption
<1>c. clock \in 0..MaxClock /\ sent \in 0..MaxAlerts /\ faults \in 0..MaxFaults
  BY DEF TypeInv, TypeOK
<1>d. seen \in Seq(Lines) /\ Len(seen) <= MaxLines /\ Len(seen) \in Nat
  BY DEF TypeInv, TypeOK, Lines
<1>o. open \in BOOLEAN /\ (open => Len(seen) > 0)
  BY DEF TypeInv, TypeOK
<1>e. listener \in Listeners /\ (listener.at # "recv" => listener.nonce \in 1..sent)
  BY DEF TypeInv, TypeOK
<1>f. net \subseteq Packets /\ (\A p \in net : p.nonce \in 1..sent)
  BY DEF TypeInv, TypeOK
<1>g. raised \in [Nonces -> Nat] /\ rejected \subseteq Nonces \X Reasons /\ spoiled \subseteq Nonces
      /\ missed \subseteq Nonces
  BY DEF TypeInv, TypeOK
<1>h. listener.at = "verified" => Len(seen) < MaxLines
  BY DEF TypeInv
<1>i. Idle \in Listeners /\ Idle.at = "recv"
  BY DEF Idle, Forms
<1>n. listener.at # "recv" => listener.nonce \in Nonces
  BY <1>b, <1>c, <1>e DEF Nonces
<1> DEFINE Goal == /\ clock' \in 0..MaxClock /\ sent' \in 0..MaxAlerts /\ faults' \in 0..MaxFaults
                   /\ seen' \in Seq(Lines) /\ Len(seen') <= MaxLines
                   /\ open' \in BOOLEAN /\ (open' => Len(seen') > 0)
                   /\ listener' \in Listeners /\ (listener'.at # "recv" => listener'.nonce \in 1..sent')
                   /\ net' \subseteq Packets /\ (\A p \in net' : p.nonce \in 1..sent')
                   /\ raised' \in [Nonces -> Nat] /\ rejected' \subseteq Nonces \X Reasons
                   /\ spoiled' \subseteq Nonces /\ missed' \subseteq Nonces
                   /\ listener'.at = "verified" => Len(seen') < MaxLines
<1> SUFFICES Goal
  BY DEF TypeInv, TypeOK, Lines
<1> HIDE DEF Listeners
<1>1. ASSUME NEW ip \in Addresses, NEW ts \in (clock - Drift)..(clock + Drift),
             NEW form \in Forms, send(ip, ts, form)
      PROVE  Goal
  <2> DEFINE q == [nonce |-> sent + 1, ts |-> ts, from |-> ip, mac |-> TRUE, form |-> form]
  <2>1. /\ sent < MaxAlerts /\ sent' = sent + 1 /\ net' = net \cup {q}
        /\ UNCHANGED <<clock, seen, open, listener, raised, rejected, faults, spoiled, missed>>
    BY <1>1 DEF send
  <2>2. sent' \in 0..MaxAlerts /\ sent + 1 \in Nonces /\ (1..sent) \subseteq (1..sent')
        /\ sent + 1 \in 1..sent'
    BY <1>b, <1>c, <2>1 DEF Nonces
  <2>3. ts \in (-Drift)..(MaxClock + Drift)
    BY <1>b, <1>c
  <2>4. q \in Packets /\ q.nonce \in 1..sent'
    BY <2>2, <2>3 DEF Packets
  <2> HIDE DEF q
  <2> QED BY <1>c, <1>d, <1>o, <1>e, <1>f, <1>g, <1>h, <2>1, <2>2, <2>4
<1>O. ASSUME NEW opened \in BOOLEAN, Opens(opened) PROVE faults' \in 0..MaxFaults
  BY <1>b, <1>c, <1>O DEF Opens
<1>2. ASSUME NEW p \in net, NEW opened \in BOOLEAN, Rejects(p, opened) PROVE Goal
  <2>1. /\ UNCHANGED <<clock, sent, seen, open, listener, raised, spoiled, missed>>
        /\ net' \subseteq net /\ rejected' = rejected \cup {<<p.nonce, Refusal(p, opened)>>}
        /\ Refusal(p, opened) # "" /\ faults' \in 0..MaxFaults
    BY <1>2, <1>O DEF Rejects, Received, log_rejected
  <2>2. Refusal(p, opened) \in Reasons
    BY <2>1 DEF Refusal, Reasons
  <2>3. p.nonce \in Nonces
    BY <1>f DEF Packets
  <2>4. <<p.nonce, Refusal(p, opened)>> \in Nonces \X Reasons
    BY <2>2, <2>3
  <2> QED BY <1>c, <1>d, <1>o, <1>e, <1>f, <1>g, <1>h, <2>1, <2>4
<1>3. ASSUME NEW p \in net, NEW opened \in BOOLEAN, Verifies(p, opened) PROVE Goal
  <2>1. /\ UNCHANGED <<clock, sent, seen, open, raised, rejected, spoiled>>
        /\ net' \subseteq net /\ Len(seen) < MaxLines /\ faults' \in 0..MaxFaults
        /\ listener' = [at |-> "verified", nonce |-> p.nonce, form |-> p.form]
        /\ missed' \subseteq missed \cup {p.nonce}
    BY <1>3, <1>O DEF Verifies, Received
  <2>2. p.nonce \in Nonces /\ p.nonce \in 1..sent /\ p.form \in Forms
    BY <1>f DEF Packets
  <2>3. p.form # "empty"
    BY <1>3 DEF Verifies, Refusal
  <2>4. listener' \in Listeners /\ listener'.nonce \in 1..sent
    BY <2>1, <2>2, <2>3 DEF Listeners
  <2> QED BY <1>c, <1>d, <1>o, <1>f, <1>g, <2>1, <2>2, <2>4
\* A line that is appended, or torn, fits the file.
<1>w. ASSUME NEW m \in Nonces, NEW left, append_line(m, left), Len(seen) < MaxLines
      PROVE  /\ seen' \in Seq(Lines) /\ Len(seen') <= MaxLines /\ Len(seen') > 0
             /\ open' \in BOOLEAN
  <2>1. open' \in BOOLEAN
    BY <1>w DEF append_line
  <2>2. CASE open
    BY <1>w, <1>d, <1>o, <2>1, <2>2, TornLine DEF append_line
  <2>3. CASE ~open
    <3>1. PICK v \in Lines : seen' = Append(seen, v)
      BY <1>w, <2>3 DEF append_line, Lines
    <3>2. seen' \in Seq(Lines) /\ Len(seen') = Len(seen) + 1
      BY <1>d, <3>1
    <3> QED BY <1>b, <1>d, <1>w, <2>1, <3>2
  <2> QED BY <1>o, <2>2, <2>3
<1>4. CASE Remember
  <2>0. PICK m \in Nonces : m = listener.nonce
    BY <1>4, <1>n DEF Remember
  <2>1. /\ UNCHANGED <<clock, sent, net, raised, rejected, faults, spoiled>>
        /\ listener.at = "verified" /\ append_line(m, "whole")
        /\ listener' = [listener EXCEPT !.at = "remembered"]
        /\ missed' \subseteq missed \cup {m}
    BY <1>4, <2>0 DEF Remember
  <2>2. listener' \in Listeners /\ listener'.at = "remembered" /\ listener'.nonce = listener.nonce
    BY <1>e, <2>1 DEF Listeners
  <2>3. seen' \in Seq(Lines) /\ Len(seen') <= MaxLines /\ Len(seen') > 0 /\ open' \in BOOLEAN
    BY <1>h, <1>w, <2>1
  <2> QED BY <1>c, <1>e, <1>f, <1>g, <2>1, <2>2, <2>3
<1>5. ASSUME NEW left \in {"none", "cut", "unended", "whole"}, RememberFails(left) PROVE Goal
  <2>0. PICK m \in Nonces : m = listener.nonce
    BY <1>5, <1>n DEF RememberFails
  <2>1. /\ UNCHANGED <<clock, sent, net, raised, missed>> /\ listener' = Idle
        /\ listener.at = "verified" /\ faults < MaxFaults /\ faults' = faults + 1
        /\ UNCHANGED <<seen, open>> \/ append_line(m, left)
        /\ spoiled' \subseteq spoiled \cup {m}
        /\ rejected' = rejected \cup {<<m, "INVALID">>}
    BY <1>5, <2>0 DEF RememberFails, log_rejected
  <2>3. /\ seen' \in Seq(Lines) /\ Len(seen') <= MaxLines /\ open' \in BOOLEAN
        /\ open' => Len(seen') > 0
    BY <1>d, <1>h, <1>o, <1>w, <2>1
  <2>4. <<m, "INVALID">> \in Nonces \X Reasons
    BY DEF Reasons
  <2>5. faults' \in 0..MaxFaults
    BY <1>b, <1>c, <2>1
  <2> QED BY <1>c, <1>f, <1>g, <1>i, <2>1, <2>3, <2>4, <2>5
<1>6. CASE RejectsLong
  <2>0. PICK m \in Nonces : m = listener.nonce
    BY <1>6, <1>n DEF RejectsLong
  <2>1. /\ UNCHANGED <<clock, sent, net, seen, open, raised, faults, missed>> /\ listener' = Idle
        /\ spoiled' = spoiled \cup {m} /\ rejected' = rejected \cup {<<m, "INVALID">>}
    BY <1>6, <2>0 DEF RejectsLong, log_rejected
  <2>2. <<m, "INVALID">> \in Nonces \X Reasons
    BY DEF Reasons
  <2> QED BY <1>c, <1>d, <1>o, <1>f, <1>g, <1>i, <2>1, <2>2
<1>7. CASE Raise
  <2>1. /\ UNCHANGED <<clock, sent, net, seen, open, rejected, faults, spoiled, missed>> /\ listener' = Idle
        /\ listener.nonce \in Nonces /\ raised' = [raised EXCEPT ![listener.nonce] = @ + 1]
    BY <1>7, <1>n DEF Raise, log_alert
  <2>2. raised' \in [Nonces -> Nat]
    BY <1>g, <2>1
  <2> QED BY <1>c, <1>d, <1>o, <1>f, <1>g, <1>i, <2>1, <2>2
<1>8. CASE Restart
  <2>1. /\ UNCHANGED <<clock, sent, net, seen, open, raised, rejected, missed>> /\ listener' = Idle
        /\ faults < MaxFaults /\ faults' = faults + 1
        /\ (spoiled' = spoiled
             \/ (listener.at = "remembered" /\ spoiled' = spoiled \cup {listener.nonce}))
    BY <1>8 DEF Restart
  <2>2. spoiled' \subseteq Nonces
    BY <1>g, <1>n, <2>1
  <2>3. faults' \in 0..MaxFaults
    BY <1>b, <1>c, <2>1
  <2> QED BY <1>c, <1>d, <1>o, <1>f, <1>g, <1>i, <2>1, <2>2, <2>3
<1>9. ASSUME NEW p \in net, Lose(p) PROVE Goal
  <2>1. /\ UNCHANGED <<clock, sent, seen, open, listener, raised, rejected, faults, spoiled, missed>>
        /\ net' \subseteq net
    BY <1>9 DEF Lose
  <2> QED BY <1>c, <1>d, <1>o, <1>e, <1>f, <1>g, <1>h, <2>1
<1>10. ASSUME NEW p \in net, Damage(p) PROVE Goal
  <2> DEFINE q == [p EXCEPT !.mac = FALSE]
  <2>1. /\ UNCHANGED <<clock, sent, seen, open, listener, raised, rejected, spoiled, missed>>
        /\ net' = net \cup {q} /\ faults < MaxFaults /\ faults' = faults + 1
    BY <1>10 DEF Damage
  <2>2. q \in Packets /\ q.nonce = p.nonce
    BY <1>f DEF Packets
  <2>3. faults' \in 0..MaxFaults
    BY <1>b, <1>c, <2>1
  <2> HIDE DEF q
  <2> QED BY <1>c, <1>d, <1>o, <1>e, <1>f, <1>g, <1>h, <2>1, <2>2, <2>3
<1>11. CASE Tick
  <2>1. /\ UNCHANGED <<sent, net, seen, open, listener, raised, rejected, faults, spoiled, missed>>
        /\ clock < MaxClock /\ clock' = clock + 1
    BY <1>11 DEF Tick
  <2>2. clock' \in 0..MaxClock
    BY <1>b, <1>c, <2>1
  <2> QED BY <1>c, <1>d, <1>o, <1>e, <1>f, <1>g, <1>h, <2>1, <2>2
<1>12. CASE UNCHANGED vars
  <2>1. UNCHANGED <<clock, sent, net, seen, open, listener, raised, rejected, faults, spoiled, missed>>
    BY <1>12 DEF vars
  <2> QED BY <1>c, <1>d, <1>o, <1>e, <1>f, <1>g, <1>h, <2>1
<1> HIDE DEF Goal
<1> QED
  BY <1>1, <1>2, <1>3, <1>4, <1>5, <1>6, <1>7, <1>8, <1>9, <1>10, <1>11, <1>12 DEF Next

\* Types: in particular a nonce being handled was drawn by a sender, and no
\* refusal is logged under a reason that parse_and_verify_packet does not have.
THEOREM TypeCorrect == Spec => []TypeOK
<1>1. TypeInv => TypeOK
  BY DEF TypeInv
<1> QED BY <1>1, TypeInit, TypeNext, PTL DEF Spec
=============================================================================
