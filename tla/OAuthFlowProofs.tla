-------------------------- MODULE OAuthFlowProofs --------------------------
(***************************************************************************)
(* The safety properties of OAuthFlow, for any number of browsers, flows,  *)
(* codes, requests and clients and any lifetimes.                          *)
(*                                                                         *)
(* A session is right because each thing on the way to it still says what  *)
(* /authorize wrote: a cookie names a flow of its own browser, a callback  *)
(* works for the browser and in the time of its row, and so does a code.   *)
(* The same invariant gives the sign-ins of SignIns, each going forward.   *)
(***************************************************************************)
EXTENDS OAuthFlow, FiniteSetTheorems, TLAPS

Begun(f) == row[f] # NoFlow

\* A cookie is of a flow that its browser began.
JarInv ==
    \A b \in Browser, secure \in BOOLEAN :
        jar[b][secure] # NoFlow => /\ Begun(jar[b][secure])
                                   /\ row[jar[b][secure]].browser = b

\* A row was written by now, for a client that had been given its id.
RowInv ==
    \A f \in Flow : Begun(f) =>
        /\ row[f].createdAt <= now
        /\ row[f].client \in registered \cup Documented \cup Foreign

\* A callback works for the browser of its row, in time.
WorkInv ==
    \A q \in Request : work[q] # NoWork =>
        /\ Begun(work[q].flow)
        /\ work[q].user = row[work[q].flow].browser
        /\ work[q].since <= row[work[q].flow].createdAt + StateTTL
        /\ now <= work[q].since + CallBound

\* A code is for the browser of its row, and ends in time.
CodeInv ==
    \A k \in Code : codes[k] # NoCode =>
        /\ Begun(codes[k].flow)
        /\ codes[k].user = row[codes[k].flow].browser
        /\ codes[k].expiresAt
             <= row[codes[k].flow].createdAt + StateTTL + CallBound + CodeTTL

\* A session is for the browser and the verifier of its row, and began in time.
SessionInv ==
    \A s \in sessions :
        /\ Begun(s.flow)
        /\ s.user = row[s.flow].browser
        /\ s.verifier = row[s.flow].challenge
        /\ s.at < row[s.flow].createdAt + StateTTL + CallBound + CodeTTL

\* The places of a flow exclude each other and themselves.
PlaceInv ==
    /\ \A q \in Request : work[q] # NoWork => work[q].flow \notin states
    /\ \A k \in Code : codes[k] # NoCode => codes[k].flow \notin states
    /\ \A s \in sessions : s.flow \notin states
    /\ \A q1, q2 \in Request :
          work[q1] # NoWork /\ work[q2] # NoWork /\ work[q1].flow = work[q2].flow => q1 = q2
    /\ \A q \in Request, k \in Code :
          work[q] # NoWork /\ codes[k] # NoCode => work[q].flow # codes[k].flow
    /\ \A q \in Request, s \in sessions : work[q] # NoWork => work[q].flow # s.flow
    /\ \A k1, k2 \in Code :
          codes[k1] # NoCode /\ codes[k2] # NoCode /\ codes[k1].flow = codes[k2].flow => k1 = k2
    /\ \A k \in Code, s \in sessions : codes[k] # NoCode => codes[k].flow # s.flow
    /\ \A s1, s2 \in sessions : s1.flow = s2.flow => s1 = s2

\* A registration that is kept was made; the rows under way agree with it.
ClientInv ==
    /\ \A c \in Dynamic : clients[c] # NoClient => c \in registered
    /\ \A f \in Flow : Begun(f) /\ Known(row[f].client) =>
          RedirectAllowed(clients[row[f].client].redirects, row[f].redirect)

OInv == /\ TypeOK /\ JarInv /\ RowInv /\ WorkInv
        /\ CodeInv /\ SessionInv /\ PlaceInv /\ ClientInv

-----------------------------------------------------------------------------
LEMMA InitOInv == Init => OInv
<1> SUFFICES ASSUME Init PROVE OInv OBVIOUS
<1>1. TypeOK
    BY FlowAssumption DEF Init, TypeOK
<1>2. JarInv /\ RowInv /\ WorkInv /\ CodeInv /\ SessionInv /\ PlaceInv /\ ClientInv
    BY DEF Init, JarInv, RowInv, WorkInv, CodeInv, SessionInv, PlaceInv, ClientInv,
           Begun, Known
<1> QED BY <1>1, <1>2 DEF OInv

LEMMA StutterOInv == OInv /\ UNCHANGED vars => OInv'
BY DEF OInv, TypeOK, JarInv, RowInv, WorkInv, CodeInv, SessionInv, PlaceInv, ClientInv,
       Begun, Known, vars, flowVars, clientVars

-----------------------------------------------------------------------------
LEMMA RegisterOInv ==
    ASSUME OInv, NEW c \in Dynamic, NEW redirects \in SUBSET Redirect, Register(c, redirects)
    PROVE  OInv'
<1> USE DEF Register, flowVars, clientVars, OInv
<1>1. TypeOK' BY DEF TypeOK, Registration
<1>2. JarInv' /\ WorkInv' /\ CodeInv' /\ SessionInv' /\ PlaceInv'
    BY DEF JarInv, WorkInv, CodeInv, SessionInv, PlaceInv, Begun
<1>3. RowInv' BY DEF RowInv, Begun
<1>4. ClientInv'
  <2>1. ASSUME NEW d \in Dynamic, clients'[d] # NoClient PROVE d \in registered'
        BY <2>1 DEF ClientInv, TypeOK
  <2>2. ASSUME NEW f \in Flow, Begun(f)', Known(row[f].client)'
        PROVE  RedirectAllowed(clients[row[f].client].redirects, row[f].redirect)'
    <3>1. Begun(f) /\ row[f].client # c
          BY <2>2, FlowAssumption DEF RowInv, Begun
    <3>2. clients'[row[f].client] = clients[row[f].client] /\ Known(row[f].client)
          BY <2>2, <3>1 DEF TypeOK, Known
    <3> QED BY <3>1, <3>2 DEF ClientInv, RedirectAllowed
  <2> QED BY <2>1, <2>2 DEF ClientInv
<1> QED BY <1>1, <1>2, <1>3, <1>4

LEMMA AuthorizeOInv ==
    ASSUME OInv, NEW b \in Browser, NEW f \in Flow, NEW c \in Client, NEW u \in Redirect,
           NEW v \in Verifier, NEW issuerHTTPS \in BOOLEAN,
           Authorize(b, f, c, u, v, issuerHTTPS)
    PROVE  OInv'
<1> DEFINE secure == BaseIsHTTPS \/ issuerHTTPS
           r == [browser |-> b, client |-> c, redirect |-> u, challenge |-> v,
                 secure |-> secure, createdAt |-> now]
<1>0. secure \in BOOLEAN BY FlowAssumption
<1>1. r \in Row BY <1>0 DEF OInv, TypeOK, Row
<1>2. r # NoFlow BY <1>1, FlowAssumption
<1>3. row[f] = NoFlow /\ row' = [row EXCEPT ![f] = r] /\ jar' = [jar EXCEPT ![b][secure] = f]
      /\ states' = states \cup {f} /\ UNCHANGED <<codes, work, now, clients, registered, sessions>>
      BY DEF Authorize, clientVars
<1>4. \A g \in Flow : Begun(g)' <=> (g = f \/ Begun(g))
      BY <1>2, <1>3 DEF Begun, OInv, TypeOK
<1>5. \A g \in Flow : Begun(g) => g # f /\ row'[g] = row[g]
      BY <1>3 DEF Begun, OInv, TypeOK
<1>6. row'[f] = r BY <1>3 DEF OInv, TypeOK
<1> HIDE DEF secure, r
<1>7. TypeOK'
  <2>1. row' \in [Flow -> Row \cup {NoFlow}] BY <1>1, <1>3 DEF OInv, TypeOK
  <2>2. jar' \in [Browser -> [BOOLEAN -> Flow \cup {NoFlow}]] BY <1>0, <1>3 DEF OInv, TypeOK
  <2>3. states' \subseteq {g \in Flow : row'[g] # NoFlow} BY <1>3, <1>4 DEF OInv, TypeOK, Begun
  <2> QED BY <2>1, <2>2, <2>3, <1>3 DEF OInv, TypeOK
<1>8. JarInv'
  <2> SUFFICES ASSUME NEW a \in Browser, NEW s \in BOOLEAN, jar'[a][s] # NoFlow
               PROVE  Begun(jar[a][s])' /\ row'[jar'[a][s]].browser = a
      BY DEF JarInv
  <2>1. CASE a = b /\ s = secure
    <3>1. jar'[a][s] = f BY <2>1, <1>0, <1>3 DEF OInv, TypeOK
    <3> QED BY <3>1, <2>1, <1>4, <1>6 DEF r
  <2>2. CASE ~(a = b /\ s = secure)
    <3>1. jar'[a][s] = jar[a][s] /\ jar[a][s] \in Flow \cup {NoFlow}
          BY <2>2, <1>0, <1>3 DEF OInv, TypeOK
    <3> QED BY <3>1, <1>4, <1>5 DEF OInv, JarInv
  <2> QED BY <2>1, <2>2
<1>9. RowInv'
  <2> SUFFICES ASSUME NEW g \in Flow, Begun(g)'
               PROVE  /\ row'[g].createdAt <= now'
                      /\ row'[g].client \in registered' \cup Documented \cup Foreign
      BY DEF RowInv
  <2>1. CASE g = f
      <3>1. row'[g].createdAt = now /\ row'[g].client = c BY <2>1, <1>6 DEF r
      <3>2. c \in registered \cup Documented \cup Foreign BY DEF Authorize
      <3>3. now \in Nat BY DEF OInv, TypeOK
      <3> QED BY <3>1, <3>2, <3>3, <1>3
  <2>2. CASE g # f BY <2>2, <1>3, <1>4, <1>5 DEF OInv, RowInv
  <2> QED BY <2>1, <2>2
<1>10. \A q \in Request : work[q] # NoWork => work[q].flow \in Flow BY DEF OInv, TypeOK, Work
<1>11. \A k \in Code : codes[k] # NoCode => codes[k].flow \in Flow BY DEF OInv, TypeOK, CodeEntry
<1>12. \A s \in sessions : s.flow \in Flow BY DEF OInv, TypeOK, Session
<1>13. WorkInv' BY <1>3, <1>4, <1>5, <1>10 DEF OInv, WorkInv
<1>14. CodeInv' BY <1>3, <1>4, <1>5, <1>11 DEF OInv, CodeInv
<1>15. SessionInv' BY <1>3, <1>4, <1>5, <1>12 DEF OInv, SessionInv
<1>16. PlaceInv'
  <2>1. \A q \in Request : work[q] # NoWork => work[q].flow # f
        BY <1>5, <1>10 DEF OInv, WorkInv
  <2>2. \A k \in Code : codes[k] # NoCode => codes[k].flow # f
        BY <1>5, <1>11 DEF OInv, CodeInv
  <2>3. \A s \in sessions : s.flow # f BY <1>5, <1>12 DEF OInv, SessionInv
  <2> QED BY <2>1, <2>2, <2>3, <1>3 DEF OInv, PlaceInv
<1>17. ClientInv'
  <2>1. ASSUME NEW g \in Flow, Begun(g)', Known(row[g].client)'
        PROVE  RedirectAllowed(clients[row[g].client].redirects, row[g].redirect)'
    <3>1. CASE g = f
      <4>1. row'[g].client = c /\ row'[g].redirect = u BY <3>1, <1>6 DEF r
      <4>2. Known(c) BY <2>1, <4>1, <1>3 DEF Known
      <4>3. RedirectAllowed(clients[c].redirects, u) BY <4>2 DEF Authorize, ClientAccepts
      <4> QED BY <4>1, <4>3, <1>3 DEF RedirectAllowed
    <3>2. CASE g # f
      <4>1. Begun(g) /\ row'[g] = row[g] BY <2>1, <3>2, <1>4, <1>5
      <4>2. Known(row[g].client) BY <2>1, <4>1, <1>3 DEF Known
      <4> QED BY <4>1, <4>2, <1>3 DEF OInv, ClientInv, RedirectAllowed
    <3> QED BY <3>1, <3>2
  <2>2. \A d \in Dynamic : clients'[d] # NoClient => d \in registered'
        BY <1>3 DEF OInv, ClientInv
  <2> QED BY <2>1, <2>2 DEF ClientInv
<1> QED BY <1>7, <1>8, <1>9, <1>13, <1>14, <1>15, <1>16, <1>17 DEF OInv

LEMMA CookieGoneOInv ==
    ASSUME OInv, NEW b \in Browser, NEW secure \in BOOLEAN, CookieGone(b, secure)
    PROVE  OInv'
<1> USE DEF CookieGone, flowVars, clientVars, OInv
<1>1. TypeOK' BY DEF TypeOK
<1>2. JarInv'
  <2>1. \A a \in Browser, s \in BOOLEAN : jar'[a][s] \in {jar[a][s], NoFlow}
        BY DEF TypeOK
  <2> QED BY <2>1 DEF JarInv, Begun
<1>3. RowInv' /\ WorkInv' /\ CodeInv' /\ SessionInv' /\ PlaceInv'
    BY DEF RowInv, WorkInv, CodeInv, SessionInv, PlaceInv, Begun
<1>4. ClientInv' BY DEF ClientInv, Begun, Known, RedirectAllowed
<1> QED BY <1>1, <1>2, <1>3, <1>4

-----------------------------------------------------------------------------
LEMMA CallbackAcceptedOInv ==
    ASSUME OInv, NEW q \in Request, NEW b \in Browser, NEW f \in Flow,
           CallbackAccepted(q, b, f)
    PROVE  OInv'
<1> DEFINE w == [flow |-> f, user |-> b, since |-> now]
<1>1. f \in states /\ work[q] = NoWork /\ states' = states \ {f}
      /\ work' = [work EXCEPT ![q] = w]
      /\ UNCHANGED <<row, codes, jar, now, clients, registered, sessions>>
      BY DEF CallbackAccepted, clientVars
<1>2. w \in Work BY DEF OInv, TypeOK, Work
<1>3. Begun(f) BY <1>1 DEF OInv, TypeOK, Begun
<1>4. row[f].browser = b
  <2>1. row[f] \in Row BY <1>3 DEF OInv, TypeOK, Begun
  <2>2. row[f].secure \in BOOLEAN BY <2>1 DEF Row
  <2>3. jar[b][row[f].secure] = f BY DEF CallbackAccepted, BindingMatches
  <2>4. f # NoFlow BY FlowAssumption
  <2> QED BY <2>2, <2>3, <2>4 DEF OInv, JarInv
<1>5. now <= row[f].createdAt + StateTTL
  <2>1. ~(now - row[f].createdAt > StateTTL) BY DEF CallbackAccepted, StateLive
  <2>2. row[f].createdAt \in Nat /\ now \in Nat /\ StateTTL \in Nat
        BY <1>3, FlowAssumption DEF OInv, TypeOK, Begun, Row
  <2> QED BY <2>1, <2>2
<1>6. w.flow = f /\ w.user = b /\ w.since = now OBVIOUS
<1>7. \A p \in Request : work'[p] = IF p = q THEN w ELSE work[p] BY <1>1 DEF OInv, TypeOK
<1> HIDE DEF w
<1>8. TypeOK' BY <1>1, <1>2 DEF OInv, TypeOK
<1>9. JarInv' /\ RowInv' /\ CodeInv' /\ SessionInv'
    BY <1>1 DEF OInv, JarInv, RowInv, CodeInv, SessionInv, Begun
<1>10. ClientInv' BY <1>1 DEF OInv, ClientInv, Begun, Known, RedirectAllowed
<1>11. WorkInv'
  <2> SUFFICES ASSUME NEW p \in Request, work'[p] # NoWork
               PROVE  /\ Begun(work'[p].flow)
                      /\ work'[p].user = row[work'[p].flow].browser
                      /\ work'[p].since <= row[work'[p].flow].createdAt + StateTTL
                      /\ now <= work'[p].since + CallBound
      BY <1>1 DEF WorkInv, Begun
  <2>1. CASE p = q
    <3>1. now \in Nat /\ CallBound \in Nat BY FlowAssumption DEF OInv, TypeOK
    <3> QED BY <2>1, <3>1, <1>3, <1>4, <1>5, <1>6, <1>7
  <2>2. CASE p # q BY <2>2, <1>7 DEF OInv, WorkInv
  <2> QED BY <2>1, <2>2
<1>12. PlaceInv'
  <2>1. \A p \in Request : work[p] # NoWork => work[p].flow # f BY <1>1 DEF OInv, PlaceInv
  <2>2. \A k \in Code : codes[k] # NoCode => codes[k].flow # f BY <1>1 DEF OInv, PlaceInv
  <2>3. \A s \in sessions : s.flow # f BY <1>1 DEF OInv, PlaceInv
  <2> QED BY <2>1, <2>2, <2>3, <1>1, <1>6, <1>7 DEF OInv, PlaceInv
<1> QED BY <1>8, <1>9, <1>10, <1>11, <1>12 DEF OInv

\* Dropping rows, codes, calls and clients disturbs nothing.
LEMMA DroppedOInv ==
    ASSUME OInv, states' \subseteq states,
           codes' \in [Code -> CodeEntry \cup {NoCode}],
           \A k \in Code : codes'[k] \in {codes[k], NoCode},
           work' \in [Request -> Work \cup {NoWork}],
           \A q \in Request : work'[q] \in {work[q], NoWork},
           clients' \in [Dynamic -> Registration \cup {NoClient}],
           \A c \in Dynamic : clients'[c] \in {clients[c], NoClient},
           UNCHANGED <<row, jar, now, registered, sessions>>
    PROVE  OInv'
<1> USE DEF OInv
<1>1. TypeOK' BY DEF TypeOK
<1>2. JarInv' /\ RowInv' /\ SessionInv' BY DEF JarInv, RowInv, SessionInv, Begun
<1>3. WorkInv' BY DEF WorkInv, Begun
<1>4. CodeInv' BY DEF CodeInv, Begun
<1>5. PlaceInv' BY DEF PlaceInv
<1>6. ClientInv'
  <2>1. \A c \in Dynamic : clients'[c] # NoClient => clients'[c] = clients[c] OBVIOUS
  <2> QED BY <2>1 DEF ClientInv, Begun, Known, RedirectAllowed
<1> QED BY <1>1, <1>2, <1>3, <1>4, <1>5, <1>6

LEMMA CallbackRefusedOInv ==
    ASSUME OInv, NEW b \in Browser, NEW f \in Flow, CallbackRefused(b, f)
    PROVE  OInv'
<1>1. states' \subseteq states /\ codes' = codes /\ work' = work /\ clients' = clients
      /\ UNCHANGED <<row, jar, now, registered, sessions>>
      BY DEF CallbackRefused, clientVars
<1> QED BY <1>1, DroppedOInv DEF OInv, TypeOK

LEMMA ExchangeFailsOInv ==
    ASSUME OInv, NEW q \in Request, ExchangeFails(q)
    PROVE  OInv'
<1>1. states' = states /\ codes' = codes /\ clients' = clients
      /\ UNCHANGED <<row, jar, now, registered, sessions>>
      BY DEF ExchangeFails, clientVars
<1>2. work' \in [Request -> Work \cup {NoWork}]
      /\ \A p \in Request : work'[p] \in {work[p], NoWork}
      BY DEF ExchangeFails, OInv, TypeOK
<1> QED BY <1>1, <1>2, DroppedOInv DEF OInv, TypeOK

LEMMA CodeStoredOInv ==
    ASSUME OInv, NEW q \in Request, NEW k \in Code, CodeStored(q, k)
    PROVE  OInv'
<1> DEFINE w == work[q]
           e == [flow |-> w.flow, user |-> w.user, expiresAt |-> now + CodeTTL]
<1>1. w # NoWork /\ codes' = [codes EXCEPT ![k] = e] /\ work' = [work EXCEPT ![q] = NoWork]
      /\ UNCHANGED <<states, row, jar, now, clients, registered, sessions>>
      BY DEF CodeStored, clientVars
<1>2. w \in Work BY <1>1 DEF OInv, TypeOK
<1>3. e \in CodeEntry BY <1>2, FlowAssumption DEF OInv, TypeOK, Work, CodeEntry
<1>4. e.flow = w.flow /\ e.user = w.user /\ e.expiresAt = now + CodeTTL OBVIOUS
<1>5. \A j \in Code : codes'[j] = IF j = k THEN e ELSE codes[j] BY <1>1 DEF OInv, TypeOK
<1>6. \A p \in Request : work'[p] = IF p = q THEN NoWork ELSE work[p] BY <1>1 DEF OInv, TypeOK
<1> HIDE DEF e
<1>7. TypeOK' BY <1>1, <1>3 DEF OInv, TypeOK
<1>8. JarInv' /\ RowInv' /\ SessionInv' BY <1>1 DEF OInv, JarInv, RowInv, SessionInv, Begun
<1>9. ClientInv' BY <1>1 DEF OInv, ClientInv, Begun, Known, RedirectAllowed
<1>10. WorkInv' BY <1>1, <1>6 DEF OInv, WorkInv, Begun
<1>11. CodeInv'
  <2> SUFFICES ASSUME NEW j \in Code, codes'[j] # NoCode
               PROVE  /\ Begun(codes'[j].flow)
                      /\ codes'[j].user = row[codes'[j].flow].browser
                      /\ codes'[j].expiresAt
                           <= row[codes'[j].flow].createdAt + StateTTL + CallBound + CodeTTL
      BY <1>1 DEF CodeInv, Begun
  <2>1. CASE j = k
    <3>1. /\ Begun(w.flow) /\ w.user = row[w.flow].browser
          /\ w.since <= row[w.flow].createdAt + StateTTL
          /\ now <= w.since + CallBound
          BY <1>1 DEF OInv, WorkInv
    <3>2. w.since \in Nat /\ row[w.flow].createdAt \in Nat /\ now \in Nat
          BY <1>2, <3>1 DEF OInv, TypeOK, Work, Begun, Row
    <3>3. StateTTL \in Nat /\ CallBound \in Nat /\ CodeTTL \in Nat BY FlowAssumption
    <3> HIDE DEF w
    <3>4. now + CodeTTL <= row[w.flow].createdAt + StateTTL + CallBound + CodeTTL
          BY <3>1, <3>2, <3>3
    <3>5. codes'[j] = e BY <2>1, <1>5
    <3> QED BY <3>1, <3>4, <3>5, <1>4
  <2>2. CASE j # k BY <2>2, <1>5 DEF OInv, CodeInv
  <2> QED BY <2>1, <2>2
<1>12. PlaceInv'
  <2>1. w.flow \notin states /\ \A s \in sessions : s.flow # w.flow
        BY <1>1 DEF OInv, PlaceInv
  <2>2. \A p \in Request : p # q /\ work[p] # NoWork => work[p].flow # w.flow
        BY <1>1 DEF OInv, PlaceInv
  <2>3. \A j \in Code : codes[j] # NoCode => codes[j].flow # w.flow
        BY <1>1 DEF OInv, PlaceInv
  <2> HIDE DEF w
  <2> QED BY <2>1, <2>2, <2>3, <1>1, <1>4, <1>5, <1>6 DEF OInv, PlaceInv
<1> QED BY <1>7, <1>8, <1>9, <1>10, <1>11, <1>12 DEF OInv

-----------------------------------------------------------------------------
LEMMA CodeGrantedOInv ==
    ASSUME OInv, NEW k \in Code, NEW v \in Verifier, CodeGranted(k, v)
    PROVE  OInv'
<1> DEFINE e == codes[k]
           s == [code |-> k, flow |-> e.flow, user |-> e.user, verifier |-> v, at |-> now]
<1>1. e # NoCode /\ codes' = [codes EXCEPT ![k] = NoCode] /\ sessions' = sessions \cup {s}
      /\ v = row[e.flow].challenge /\ now < e.expiresAt
      /\ UNCHANGED <<states, row, jar, work, now, clients, registered>>
      BY DEF CodeGranted, CodeLive, clientVars
<1>2. e \in CodeEntry BY <1>1 DEF OInv, TypeOK
<1>3. s \in Session BY <1>2 DEF OInv, TypeOK, CodeEntry, Session
<1>4. s.flow = e.flow /\ s.user = e.user /\ s.verifier = v /\ s.at = now OBVIOUS
<1>5. \A j \in Code : codes'[j] = IF j = k THEN NoCode ELSE codes[j] BY <1>1 DEF OInv, TypeOK
<1> HIDE DEF s
<1>6. TypeOK' BY <1>1, <1>3 DEF OInv, TypeOK
<1>7. JarInv' /\ RowInv' /\ WorkInv' BY <1>1 DEF OInv, JarInv, RowInv, WorkInv, Begun
<1>8. ClientInv' BY <1>1 DEF OInv, ClientInv, Begun, Known, RedirectAllowed
<1>9. CodeInv' BY <1>1, <1>5 DEF OInv, CodeInv, Begun
<1>10. SessionInv'
  <2>1. /\ Begun(e.flow) /\ e.user = row[e.flow].browser
        /\ e.expiresAt <= row[e.flow].createdAt + StateTTL + CallBound + CodeTTL
        BY <1>1 DEF OInv, CodeInv
  <2>2. e.expiresAt \in Nat /\ row[e.flow].createdAt \in Nat /\ now \in Nat
        BY <1>2, <2>1 DEF OInv, TypeOK, CodeEntry, Begun, Row
  <2>3. StateTTL \in Nat /\ CallBound \in Nat /\ CodeTTL \in Nat BY FlowAssumption
  <2> HIDE DEF e
  <2>4. now < row[e.flow].createdAt + StateTTL + CallBound + CodeTTL
        BY <2>1, <2>2, <2>3, <1>1
  <2> QED BY <2>1, <2>4, <1>1, <1>4 DEF OInv, SessionInv, Begun
<1>11. PlaceInv'
  <2>1. e.flow \notin states /\ \A p \in Request : work[p] # NoWork => work[p].flow # e.flow
        BY <1>1 DEF OInv, PlaceInv
  <2>2. \A j \in Code : j # k /\ codes[j] # NoCode => codes[j].flow # e.flow
        BY <1>1 DEF OInv, PlaceInv
  <2>3. \A t \in sessions : t.flow # e.flow BY <1>1 DEF OInv, PlaceInv
  <2> HIDE DEF e
  <2> QED BY <2>1, <2>2, <2>3, <1>1, <1>4, <1>5 DEF OInv, PlaceInv
<1> QED BY <1>6, <1>7, <1>8, <1>9, <1>10, <1>11 DEF OInv

LEMMA CodeRefusedOInv ==
    ASSUME OInv, NEW k \in Code, CodeRefused(k)
    PROVE  OInv'
<1>1. states' = states /\ work' = work /\ clients' = clients
      /\ UNCHANGED <<row, jar, now, registered, sessions>>
      BY DEF CodeRefused, clientVars
<1>2. codes' \in [Code -> CodeEntry \cup {NoCode}]
      /\ \A j \in Code : codes'[j] \in {codes[j], NoCode}
      BY DEF CodeRefused, OInv, TypeOK
<1> QED BY <1>1, <1>2, DroppedOInv DEF OInv, TypeOK

LEMMA PurgeOInv ==
    ASSUME OInv, NEW stay \in SUBSET Dynamic, PurgeExpired(stay)
    PROVE  OInv'
<1>1. states' \subseteq states /\ work' = work /\ UNCHANGED <<row, jar, now, registered, sessions>>
      BY DEF PurgeExpired
<1>2. codes' \in [Code -> CodeEntry \cup {NoCode}]
      /\ \A j \in Code : codes'[j] \in {codes[j], NoCode}
      BY DEF PurgeExpired, OInv, TypeOK
<1>3. clients' \in [Dynamic -> Registration \cup {NoClient}]
      /\ \A c \in Dynamic : clients'[c] \in {clients[c], NoClient}
      BY DEF PurgeExpired, OInv, TypeOK
<1> QED BY <1>1, <1>2, <1>3, DroppedOInv DEF OInv, TypeOK

LEMMA RestartOInv == OInv /\ Restart => OInv'
<1> SUFFICES ASSUME OInv, Restart PROVE OInv' OBVIOUS
<1>1. states' \subseteq states /\ UNCHANGED <<row, jar, now, registered, sessions>>
      BY DEF Restart
<1>2. codes' \in [Code -> CodeEntry \cup {NoCode}] /\ \A k \in Code : codes'[k] = NoCode
      BY DEF Restart
<1>3. work' \in [Request -> Work \cup {NoWork}] /\ \A q \in Request : work'[q] = NoWork
      BY DEF Restart
<1>4. clients' \in [Dynamic -> Registration \cup {NoClient}]
      /\ \A c \in Dynamic : clients'[c] = NoClient
      BY DEF Restart
<1> QED BY <1>1, <1>2, <1>3, <1>4, DroppedOInv

LEMMA TimePassesOInv == OInv /\ TimePasses => OInv'
<1> SUFFICES ASSUME OInv, TimePasses PROVE OInv' OBVIOUS
<1> USE DEF TimePasses, flowVars, clientVars, OInv
<1>0. now \in Nat /\ now' = now + 1 BY DEF TypeOK
<1>1. TypeOK' BY <1>0 DEF TypeOK
<1>2. JarInv' /\ CodeInv' /\ SessionInv' /\ PlaceInv'
    BY DEF JarInv, CodeInv, SessionInv, PlaceInv, Begun
<1>3. RowInv'
  <2>1. \A f \in Flow : Begun(f) => row[f].createdAt \in Nat BY DEF TypeOK, Begun, Row
  <2> QED BY <1>0, <2>1 DEF RowInv, Begun
<1>4. WorkInv'
  <2>1. \A q \in Request : work[q] # NoWork => work[q].since \in Nat BY DEF TypeOK, Work
  <2> QED BY <1>0, <2>1, FlowAssumption DEF WorkInv, Begun
<1>5. ClientInv' BY DEF ClientInv, Begun, Known, RedirectAllowed
<1> QED BY <1>1, <1>2, <1>3, <1>4, <1>5

LEMMA StepOInv == OInv /\ [Next]_vars => OInv'
<1> SUFFICES ASSUME OInv, [Next]_vars PROVE OInv' OBVIOUS
<1>1. CASE \E c \in Dynamic, redirects \in SUBSET Redirect : Register(c, redirects)
      BY <1>1, RegisterOInv
<1>2. CASE \E b \in Browser, f \in Flow, c \in Client, u \in Redirect, v \in Verifier,
             issuerHTTPS \in BOOLEAN : Authorize(b, f, c, u, v, issuerHTTPS)
      BY <1>2, AuthorizeOInv
<1>3. CASE \E b \in Browser, secure \in BOOLEAN : CookieGone(b, secure)
      BY <1>3, CookieGoneOInv
<1>4. CASE \E b \in Browser, f \in Flow :
              CallbackRefused(b, f) \/ \E q \in Request : CallbackAccepted(q, b, f)
      BY <1>4, CallbackRefusedOInv, CallbackAcceptedOInv
<1>5. CASE \E q \in Request : CallbackReturns(q)
      BY <1>5, ExchangeFailsOInv, CodeStoredOInv DEF CallbackReturns
<1>6. CASE \E k \in Code : CodeRefused(k) \/ \E v \in Verifier : CodeGranted(k, v)
      BY <1>6, CodeRefusedOInv, CodeGrantedOInv
<1>7. CASE \E stay \in SUBSET Dynamic : PurgeExpired(stay) BY <1>7, PurgeOInv
<1>8. CASE Restart BY <1>8, RestartOInv
<1>9. CASE TimePasses BY <1>9, TimePassesOInv
<1>10. CASE UNCHANGED vars BY <1>10, StutterOInv
<1> QED BY <1>1, <1>2, <1>3, <1>4, <1>5, <1>6, <1>7, <1>8, <1>9, <1>10 DEF Next

LEMMA SpecOInv == Spec => []OInv
BY InitOInv, StepOInv, PTL DEF Spec

-----------------------------------------------------------------------------
\* A set of at most one element, and sets of which at most one is not empty.
LEMMA AtMostOne ==
    ASSUME NEW S, \A x, y \in S : x = y
    PROVE  Cardinality(S) = IF S = {} THEN 0 ELSE 1
<1>1. CASE S = {} BY <1>1, FS_EmptySet
<1>2. CASE S # {}
  <2>1. PICK x \in S : TRUE BY <1>2
  <2>2. S = {x} BY <2>1
  <2> QED BY <1>2, <2>2, FS_Singleton
<1> QED BY <1>1, <1>2

LEMMA PlacesExclude == OInv => FlowInOnePlace
<1> SUFFICES ASSUME OInv, NEW f \in Flow
             PROVE  Cardinality(Rows(f)) + Cardinality(Exchanges(f))
                    + Cardinality(Codes(f)) + Cardinality(Sessions(f)) <= 1
    BY DEF FlowInOnePlace
<1> USE DEF OInv, PlaceInv, Rows, Exchanges, Codes, Sessions
<1>1. Cardinality(Rows(f)) = IF Rows(f) = {} THEN 0 ELSE 1
      BY AtMostOne
<1>2. Cardinality(Exchanges(f)) = IF Exchanges(f) = {} THEN 0 ELSE 1
      BY AtMostOne
<1>3. Cardinality(Codes(f)) = IF Codes(f) = {} THEN 0 ELSE 1
      BY AtMostOne
<1>4. Cardinality(Sessions(f)) = IF Sessions(f) = {} THEN 0 ELSE 1
      BY AtMostOne
<1>5. Rows(f) # {} => Exchanges(f) = {} /\ Codes(f) = {} /\ Sessions(f) = {} OBVIOUS
<1>6. Exchanges(f) # {} => Codes(f) = {} /\ Sessions(f) = {} OBVIOUS
<1>7. Codes(f) # {} => Sessions(f) = {} OBVIOUS
<1> QED BY <1>1, <1>2, <1>3, <1>4, <1>5, <1>6, <1>7

-----------------------------------------------------------------------------
\* The maps of the flow and the history variables keep their types, and a row
\* under way has been written (handlers.go:62).
THEOREM FlowTypeCorrect == Spec => []TypeOK
BY SpecOInv, PTL DEF OInv

\* A session goes to the browser and the verifier that began its flow
\* (handlers.go:207, :371), for any interleaving of any number of flows.
THEOREM BelongsToStarter == Spec => []SessionBelongsToStarter
<1>1. OInv => SessionBelongsToStarter BY DEF OInv, SessionInv, SessionBelongsToStarter
<1> QED BY <1>1, SpecOInv, PTL

\* State and code are single-use (token_store.go:347, :165): one flow, one session.
THEOREM OnePlace == Spec => []FlowInOnePlace
BY SpecOInv, PlacesExclude, PTL

\* The lifetimes of state, exchange and code add up (token_store.go:173, :355).
THEOREM Prompt == Spec => []SessionIsPrompt
<1>1. OInv => SessionIsPrompt BY DEF OInv, SessionInv, SessionIsPrompt
<1> QED BY <1>1, SpecOInv, PTL

\* Eviction and restart leave no flow under way with a redirect URI that the
\* registration of its client does not allow (token_store.go:455).
THEOREM RedirectKept == Spec => []RedirectStaysRegistered
<1>1. OInv => RedirectStaysRegistered
  <2> SUFFICES ASSUME OInv, NEW f \in Flow, f \in states \/ Exchanges(f) # {},
                      Known(row[f].client)
               PROVE  RedirectAllowed(clients[row[f].client].redirects, row[f].redirect)
      BY DEF RedirectStaysRegistered
  <2>1. Begun(f) BY DEF OInv, TypeOK, WorkInv, Exchanges, Begun
  <2> QED BY <2>1 DEF OInv, ClientInv
<1> QED BY <1>1, SpecOInv, PTL

-----------------------------------------------------------------------------
(* The refinement of SignIns.  The stage of a flow is the place it is in.  *)

InExchange(f) == \E q \in Request : work[q] # NoWork /\ work[q].flow = f
InCode(f) == \E k \in Code : codes[k] # NoCode /\ codes[k].flow = f
InSession(f) == \E s \in sessions : s.flow = f
InNone(f) == f \notin states /\ ~InExchange(f) /\ ~InCode(f) /\ ~InSession(f)

Staged ==
    /\ Stage = [f \in Flow |-> Stage[f]]
    /\ \A f \in Flow :
          /\ InSession(f) => Stage[f] = "session"
          /\ InCode(f) /\ ~InSession(f) => Stage[f] = "coded"
          /\ InExchange(f) /\ ~InCode(f) /\ ~InSession(f) => Stage[f] = "returned"
          /\ f \in states /\ ~InExchange(f) /\ ~InCode(f) /\ ~InSession(f)
                => Stage[f] = "pending"
          /\ InNone(f) /\ row[f] = NoFlow => Stage[f] = "new"
          /\ InNone(f) /\ row[f] # NoFlow => Stage[f] = "over"

LEMMA AlwaysStaged == Staged
<1>1. Stage = [f \in Flow |-> Stage[f]] BY DEF Stage
<1>2. ASSUME NEW f \in Flow
      PROVE  /\ InSession(f) => Stage[f] = "session"
             /\ InCode(f) /\ ~InSession(f) => Stage[f] = "coded"
             /\ InExchange(f) /\ ~InCode(f) /\ ~InSession(f) => Stage[f] = "returned"
             /\ f \in states /\ ~InExchange(f) /\ ~InCode(f) /\ ~InSession(f)
                   => Stage[f] = "pending"
             /\ InNone(f) /\ row[f] = NoFlow => Stage[f] = "new"
             /\ InNone(f) /\ row[f] # NoFlow => Stage[f] = "over"
  <2>1. InSession(f) <=> Sessions(f) # {} BY DEF InSession, Sessions
  <2>2. InCode(f) <=> Codes(f) # {} BY DEF InCode, Codes
  <2>3. InExchange(f) <=> Exchanges(f) # {} BY DEF InExchange, Exchanges
  <2> QED BY <2>1, <2>2, <2>3 DEF Stage, InNone
<1> QED BY <1>1, <1>2 DEF Staged

LEMMA StagedNext == Staged'
BY AlwaysStaged, PTL

\* The places of a flow exclude each other, and one that is in any has a row.
Exclusive ==
    \A f \in Flow :
        /\ f \in states => ~InExchange(f) /\ ~InCode(f) /\ ~InSession(f)
        /\ InExchange(f) => ~InCode(f) /\ ~InSession(f)
        /\ InCode(f) => ~InSession(f)
        /\ ~InNone(f) => row[f] # NoFlow

LEMMA PlacesAreExclusive == OInv => Exclusive
<1> SUFFICES ASSUME OInv, NEW f \in Flow
             PROVE  /\ f \in states => ~InExchange(f) /\ ~InCode(f) /\ ~InSession(f)
                    /\ InExchange(f) => ~InCode(f) /\ ~InSession(f)
                    /\ InCode(f) => ~InSession(f)
                    /\ ~InNone(f) => row[f] # NoFlow
    BY DEF Exclusive
<1>1. /\ f \in states => ~InExchange(f) /\ ~InCode(f) /\ ~InSession(f)
      /\ InExchange(f) => ~InCode(f) /\ ~InSession(f)
      /\ InCode(f) => ~InSession(f)
    BY DEF OInv, PlaceInv, InExchange, InCode, InSession
<1>2. f \in states => row[f] # NoFlow BY DEF OInv, TypeOK
<1>3. InExchange(f) => row[f] # NoFlow BY DEF OInv, WorkInv, Begun, InExchange
<1>4. InCode(f) => row[f] # NoFlow BY DEF OInv, CodeInv, Begun, InCode
<1>5. InSession(f) => row[f] # NoFlow BY DEF OInv, SessionInv, Begun, InSession
<1> QED BY <1>1, <1>2, <1>3, <1>4, <1>5 DEF InNone

\* One flow moves on when the places of the others stay as they are.
LEMMA OneMoves ==
    ASSUME NEW f \in Flow, NEW to, Stage'[f] = to,
           \A g \in Flow \ {f} : /\ g \in states' <=> g \in states
                                 /\ InExchange(g)' <=> InExchange(g)
                                 /\ InCode(g)' <=> InCode(g)
                                 /\ InSession(g)' <=> InSession(g)
                                 /\ row'[g] = NoFlow <=> row[g] = NoFlow
    PROVE  Stage' = [Stage EXCEPT ![f] = to]
<1>1. \A g \in Flow \ {f} : Stage'[g] = Stage[g]
      BY AlwaysStaged, StagedNext DEF Staged, InNone
<1>2. Stage = [g \in Flow |-> Stage[g]] /\ Stage' = [g \in Flow |-> Stage'[g]]
      BY AlwaysStaged, StagedNext DEF Staged
<1> QED BY <1>1, <1>2

LEMMA OwnerOf ==
    ASSUME OInv, NEW f \in Flow, row[f] # NoFlow
    PROVE  /\ Owner[f].browser = row[f].browser
           /\ Owner[f].challenge = row[f].challenge
           /\ SignIn!Age(f) = now - row[f].createdAt
           /\ row[f].createdAt \in Nat
           /\ now \in Nat
BY DEF Owner, SignIn!Age, OInv, TypeOK, Row

-----------------------------------------------------------------------------
LEMMA AuthorizeMaps ==
    ASSUME OInv, NEW b \in Browser, NEW f \in Flow, NEW c \in Client, NEW u \in Redirect,
           NEW v \in Verifier, NEW issuerHTTPS \in BOOLEAN,
           Authorize(b, f, c, u, v, issuerHTTPS)
    PROVE  SignIn!Next
<1> DEFINE secure == BaseIsHTTPS \/ issuerHTTPS
           r == [browser |-> b, client |-> c, redirect |-> u, challenge |-> v,
                 secure |-> secure, createdAt |-> now]
<1>1. row[f] = NoFlow /\ states' = states \cup {f} /\ row' = [row EXCEPT ![f] = r]
      /\ UNCHANGED <<codes, work, now, sessions>>
    BY DEF Authorize
<1>2. r \in Row BY FlowAssumption DEF OInv, TypeOK, Row
<1>3. r # NoFlow BY <1>2, FlowAssumption
<1>4. r.browser = b /\ r.challenge = v /\ r.createdAt = now OBVIOUS
<1> HIDE DEF r
<1>5. row'[f] = r /\ \A g \in Flow \ {f} : row'[g] = row[g] BY <1>1 DEF OInv, TypeOK
<1>6. \A g \in Flow : /\ InExchange(g)' <=> InExchange(g)
                      /\ InCode(g)' <=> InCode(g)
                      /\ InSession(g)' <=> InSession(g)
    BY <1>1 DEF InExchange, InCode, InSession
<1>7. InNone(f) BY <1>1, PlacesAreExclusive DEF Exclusive
<1>8. Stage[f] = "new" BY <1>1, <1>7, AlwaysStaged DEF Staged
<1>9. Stage'[f] = "pending"
  <2>1. f \in states' BY <1>1
  <2>2. ~InExchange(f)' /\ ~InCode(f)' /\ ~InSession(f)' BY <1>6, <1>7 DEF InNone
  <2> QED BY <2>1, <2>2, StagedNext DEF Staged
<1>10. Stage' = [Stage EXCEPT ![f] = "pending"]
    BY <1>1, <1>5, <1>6, <1>9, OneMoves
<1>11. Owner' = [Owner EXCEPT ![f] = [browser |-> b, challenge |-> v, at |-> now]]
    BY <1>3, <1>4, <1>5 DEF Owner
<1>12. Started' = Started BY <1>1 DEF Started
<1>13. SignIn!Begin(f, b, v)
    BY <1>1, <1>8, <1>10, <1>11, <1>12 DEF SignIn!Begin, SignIn!Moves
<1> QED BY <1>13 DEF SignIn!Next

LEMMA CallbackAcceptedMaps ==
    ASSUME OInv, NEW q \in Request, NEW b \in Browser, NEW f \in Flow,
           CallbackAccepted(q, b, f)
    PROVE  SignIn!Next
<1> DEFINE w == [flow |-> f, user |-> b, since |-> now]
<1>1. f \in states /\ work[q] = NoWork /\ states' = states \ {f} /\ StateLive(f)
      /\ work' = [work EXCEPT ![q] = w]
      /\ UNCHANGED <<row, codes, now, sessions>>
    BY DEF CallbackAccepted
<1>2. w \in Work /\ w.flow = f BY DEF OInv, TypeOK, Work
<1> HIDE DEF w
<1>3. OInv' BY CallbackAcceptedOInv
<1>4. \A p \in Request : work'[p] = IF p = q THEN w ELSE work[p] BY <1>1 DEF OInv, TypeOK
<1>5. \A g \in Flow : /\ InExchange(g)' <=> InExchange(g) \/ (g = f /\ w # NoWork)
                      /\ InCode(g)' <=> InCode(g)
                      /\ InSession(g)' <=> InSession(g)
  <2>1. \A g \in Flow : /\ InCode(g)' <=> InCode(g)
                        /\ InSession(g)' <=> InSession(g)
      BY <1>1 DEF InCode, InSession
  <2>2. \A g \in Flow : InExchange(g)' <=> InExchange(g) \/ (g = f /\ w # NoWork)
      BY <1>1, <1>2, <1>4 DEF InExchange
  <2> QED BY <2>1, <2>2
<1>6. row[f] # NoFlow /\ ~InExchange(f) /\ ~InCode(f) /\ ~InSession(f)
    BY <1>1, PlacesAreExclusive DEF Exclusive, InNone
<1>7. Stage[f] = "pending" BY <1>1, <1>6, AlwaysStaged DEF Staged
<1>8. w # NoWork BY <1>2, FlowAssumption
<1>9. Stage'[f] = "returned" BY <1>5, <1>6, <1>8, StagedNext DEF Staged
<1>10. Stage' = [Stage EXCEPT ![f] = "returned"] BY <1>1, <1>5, <1>9, OneMoves
<1>11. Owner' = Owner /\ Started' = Started BY <1>1 DEF Owner, Started
<1>12. SignIn!Age(f) <= StateTTL
  <2>1. ~(now - row[f].createdAt > StateTTL) BY <1>1 DEF StateLive
  <2> QED BY <1>6, <2>1, OwnerOf, FlowAssumption
<1>13. SignIn!Return(f)
    BY <1>1, <1>7, <1>10, <1>11, <1>12 DEF SignIn!Return, SignIn!Moves
<1> QED BY <1>13 DEF SignIn!Next

LEMMA CodeStoredMaps ==
    ASSUME OInv, NEW q \in Request, NEW k \in Code, CodeStored(q, k)
    PROVE  SignIn!Next
<1> DEFINE w == work[q]
<1>1. w # NoWork /\ w \in Work BY DEF CodeStored, OInv, TypeOK
<1> PICK f \in Flow : w.flow = f BY <1>1 DEF Work
<1> DEFINE e == [flow |-> f, user |-> w.user, expiresAt |-> now + CodeTTL]
<1>2. w # NoWork /\ codes[k] = NoCode /\ codes' = [codes EXCEPT ![k] = e]
      /\ work' = [work EXCEPT ![q] = NoWork]
      /\ UNCHANGED <<states, row, now, sessions>>
    BY DEF CodeStored
<1>3. e \in CodeEntry /\ e.flow = f BY <1>1, FlowAssumption DEF OInv, TypeOK, Work, CodeEntry
<1>4. e # NoCode BY <1>3, FlowAssumption
<1>5. row[f] # NoFlow /\ w.since \in Nat
      /\ w.since <= row[f].createdAt + StateTTL /\ now <= w.since + CallBound
    BY <1>1 DEF OInv, WorkInv, Begun, Work
<1> HIDE DEF e
<1>6. \A j \in Code : codes'[j] = IF j = k THEN e ELSE codes[j] BY <1>2 DEF OInv, TypeOK
<1>7. \A p \in Request : work'[p] = IF p = q THEN NoWork ELSE work[p]
    BY <1>2 DEF OInv, TypeOK
<1>8. InExchange(f) BY <1>2 DEF InExchange
<1>9. ~InExchange(f)'
  <2>1. \A p \in Request \ {q} : work[p] # NoWork => work[p].flow # f
      BY <1>2 DEF OInv, PlaceInv
  <2> QED BY <1>7, <2>1 DEF InExchange
<1>10. \A g \in Flow \ {f} : InExchange(g)' <=> InExchange(g) BY <1>2, <1>7 DEF InExchange
<1>11. \A g \in Flow : InCode(g)' <=> InCode(g) \/ g = f
    BY <1>2, <1>3, <1>4, <1>6 DEF InCode
<1>12. \A g \in Flow : InSession(g)' <=> InSession(g) BY <1>2 DEF InSession
<1>13. ~InCode(f) /\ ~InSession(f) BY <1>8, PlacesAreExclusive DEF Exclusive
<1>14. Stage[f] = "returned" BY <1>8, <1>13, AlwaysStaged DEF Staged
<1>15. Stage'[f] = "coded" BY <1>11, <1>12, <1>13, StagedNext DEF Staged
<1>16. Stage' = [Stage EXCEPT ![f] = "coded"]
    BY <1>2, <1>10, <1>11, <1>12, <1>15, OneMoves
<1>17. Owner' = Owner /\ Started' = Started BY <1>2 DEF Owner, Started
<1>18. SignIn!Age(f) <= StateTTL + CallBound
  <2> HIDE DEF w
  <2> QED BY <1>5, OwnerOf, FlowAssumption
<1>19. SignIn!Answer(f)
    BY <1>2, <1>14, <1>16, <1>17, <1>18 DEF SignIn!Answer, SignIn!Moves
<1> QED BY <1>19 DEF SignIn!Next

LEMMA CodeGrantedMaps ==
    ASSUME OInv, NEW k \in Code, NEW v \in Verifier, CodeGranted(k, v)
    PROVE  SignIn!Next
<1> DEFINE e == codes[k]
<1>1. e # NoCode /\ e \in CodeEntry BY DEF CodeGranted, OInv, TypeOK
<1> PICK f \in Flow : e.flow = f BY <1>1 DEF CodeEntry
<1> DEFINE s == [code |-> k, flow |-> f, user |-> e.user, verifier |-> v, at |-> now]
<1>2. codes' = [codes EXCEPT ![k] = NoCode] /\ sessions' = sessions \cup {s}
      /\ v = row[f].challenge /\ now < e.expiresAt
      /\ UNCHANGED <<states, row, work, now>>
    BY DEF CodeGranted, CodeLive
<1>3. e.expiresAt \in Nat BY <1>1 DEF CodeEntry
<1>4. row[f] # NoFlow /\ e.user = row[f].browser
      /\ e.expiresAt <= row[f].createdAt + StateTTL + CallBound + CodeTTL
    BY <1>1 DEF OInv, CodeInv, Begun
<1>5. s.flow = f /\ s.user = e.user /\ s.verifier = v /\ s.at = now OBVIOUS
<1>6. \A j \in Code : codes'[j] = IF j = k THEN NoCode ELSE codes[j]
    BY <1>2 DEF OInv, TypeOK
<1>7. InCode(f) BY <1>1 DEF InCode
<1>8. ~InCode(f)'
  <2>1. \A j \in Code \ {k} : codes[j] # NoCode => codes[j].flow # f
      BY <1>1 DEF OInv, PlaceInv
  <2> QED BY <1>6, <2>1 DEF InCode
<1>9. \A g \in Flow \ {f} : InCode(g)' <=> InCode(g) BY <1>2, <1>6 DEF InCode
<1> HIDE DEF s
<1>10. Started' = Started \cup {[flow |-> f, user |-> e.user, verifier |-> v, at |-> now]}
    BY <1>2, <1>5 DEF Started
<1>11. \A g \in Flow : InSession(g)' <=> InSession(g) \/ g = f
    BY <1>2, <1>5 DEF InSession
<1>12. \A g \in Flow : InExchange(g)' <=> InExchange(g) BY <1>2 DEF InExchange
<1>13. ~InSession(f) BY <1>7, PlacesAreExclusive DEF Exclusive
<1>14. Stage[f] = "coded" BY <1>7, <1>13, AlwaysStaged DEF Staged
<1>15. Stage'[f] = "session" BY <1>11, StagedNext DEF Staged
<1>16. Stage' = [Stage EXCEPT ![f] = "session"]
    BY <1>2, <1>9, <1>11, <1>12, <1>15, OneMoves
<1>17. Owner' = Owner BY <1>2 DEF Owner
<1>18. Owner[f].browser = e.user /\ Owner[f].challenge = v
    BY <1>2, <1>4, OwnerOf
<1>19. SignIn!Age(f) < StateTTL + CallBound + CodeTTL
  <2> HIDE DEF e
  <2> QED BY <1>2, <1>3, <1>4, OwnerOf, FlowAssumption
<1>20. SignIn!Grant(f)
    BY <1>2, <1>10, <1>14, <1>16, <1>17, <1>18, <1>19 DEF SignIn!Grant, SignIn!Moves
<1> QED BY <1>20 DEF SignIn!Next

-----------------------------------------------------------------------------
\* Flows end when rows, calls and codes are dropped, and no session is.
LEMMA DroppedMaps ==
    ASSUME OInv, states' \subseteq states,
           \A k \in Code : codes'[k] \in {codes[k], NoCode},
           \A q \in Request : work'[q] \in {work[q], NoWork},
           UNCHANGED <<row, now, sessions>>
    PROVE  SignIn!Next
<1> DEFINE gone == {f \in Flow : Stage'[f] # Stage[f]}
<1>1. \A f \in Flow : /\ InExchange(f)' => InExchange(f)
                      /\ InCode(f)' => InCode(f)
                      /\ InSession(f)' <=> InSession(f)
    BY DEF InExchange, InCode, InSession
<1>2. ASSUME NEW f \in Flow, Stage'[f] # Stage[f]
      PROVE  Stage[f] \in {"pending", "returned", "coded"} /\ Stage'[f] = "over"
  <2> USE <1>1, PlacesAreExclusive, AlwaysStaged, StagedNext DEF Staged, Exclusive, InNone
  <2>1. CASE InSession(f) BY <1>2, <2>1
  <2>2. CASE InCode(f) BY <1>2, <2>2
  <2>3. CASE InExchange(f) BY <1>2, <2>3
  <2>4. CASE f \in states BY <1>2, <2>4
  <2>5. CASE InNone(f) BY <1>2, <2>5
  <2> QED BY <2>1, <2>2, <2>3, <2>4, <2>5
<1>3. Stage' = [f \in Flow |-> IF f \in gone THEN "over" ELSE Stage[f]]
  <2>1. \A f \in Flow : Stage'[f] = IF f \in gone THEN "over" ELSE Stage[f] BY <1>2
  <2>2. Stage' = [f \in Flow |-> Stage'[f]] BY StagedNext DEF Staged
  <2> QED BY <2>1, <2>2
<1>4. Owner' = Owner /\ Started' = Started BY DEF Owner, Started
<1>5. SignIn!Ends(gone) BY <1>2, <1>3, <1>4 DEF SignIn!Ends
<1> QED BY <1>5 DEF SignIn!Next

LEMMA NextMaps == OInv /\ [Next]_vars => [SignIn!Next]_(SignIn!vars)
<1> SUFFICES ASSUME OInv, [Next]_vars PROVE SignIn!Next \/ UNCHANGED SignIn!vars OBVIOUS
<1>1. ASSUME UNCHANGED <<flowVars, now>> PROVE UNCHANGED SignIn!vars
  <2>1. Stage' = Stage
      BY <1>1 DEF flowVars, Stage, Sessions, Codes, Exchanges
  <2>2. Owner' = Owner /\ Started' = Started BY <1>1 DEF flowVars, Owner, Started
  <2> QED BY <1>1, <2>1, <2>2 DEF SignIn!vars
<1>2. CASE \E c \in Dynamic, redirects \in SUBSET Redirect : Register(c, redirects)
    BY <1>1, <1>2 DEF Register
<1>3. CASE \E b \in Browser, f \in Flow, c \in Client, u \in Redirect, v \in Verifier,
             issuerHTTPS \in BOOLEAN : Authorize(b, f, c, u, v, issuerHTTPS)
    BY <1>3, AuthorizeMaps
<1>4. CASE \E b \in Browser, secure \in BOOLEAN : CookieGone(b, secure)
    BY <1>1, <1>4 DEF CookieGone
<1>5. ASSUME NEW b \in Browser, NEW f \in Flow, CallbackRefused(b, f) PROVE SignIn!Next
    BY <1>5, DroppedMaps DEF CallbackRefused
<1>6. ASSUME NEW q \in Request, ExchangeFails(q) PROVE SignIn!Next
  <2>1. \A p \in Request : work'[p] \in {work[p], NoWork}
      BY <1>6 DEF ExchangeFails, OInv, TypeOK
  <2> QED BY <1>6, <2>1, DroppedMaps DEF ExchangeFails
<1>7. ASSUME NEW k \in Code, CodeRefused(k) PROVE SignIn!Next
  <2>1. \A j \in Code : codes'[j] \in {codes[j], NoCode}
      BY <1>7 DEF CodeRefused, OInv, TypeOK
  <2> QED BY <1>7, <2>1, DroppedMaps DEF CodeRefused
<1>8. ASSUME NEW stay \in SUBSET Dynamic, PurgeExpired(stay) PROVE SignIn!Next
    BY <1>8, DroppedMaps DEF PurgeExpired
<1>9. CASE Restart BY <1>9, DroppedMaps DEF Restart
<1>10. CASE TimePasses
  <2>1. Stage' = Stage /\ Owner' = Owner /\ Started' = Started
      BY <1>10 DEF TimePasses, flowVars, Stage, Sessions, Codes, Exchanges, Owner, Started
  <2> QED BY <1>10, <2>1 DEF TimePasses, SignIn!TimePasses, SignIn!Next
<1>11. CASE UNCHANGED vars BY <1>1, <1>11 DEF vars
<1> QED BY <1>2, <1>3, <1>4, <1>5, <1>6, <1>7, <1>8, <1>9, <1>10, <1>11, CallbackAcceptedMaps,
           CodeStoredMaps, CodeGrantedMaps
        DEF Next, CallbackReturns

LEMMA InitSignIn == Init => SignIn!Init
<1> SUFFICES ASSUME Init PROVE SignIn!Init OBVIOUS
<1>1. Owner = [f \in Flow |-> NoFlow] BY DEF Init, Owner
<1>2. Started = {} BY DEF Init, Started
<1>3. \A f \in Flow : Stage[f] = "new"
    BY AlwaysStaged DEF Init, Staged, InNone, InExchange, InCode, InSession
<1>4. Stage = [f \in Flow |-> "new"] BY <1>3, AlwaysStaged DEF Staged
<1> QED BY <1>1, <1>2, <1>4 DEF Init, SignIn!Init

\* Whatever is repeated, crossed, lost or restarted, each authorization goes forward
\* through its stages once, in time, and ends in one session of the browser and the
\* verifier that began it, or in none (token_store.go:165, :347; handlers.go:207, :371).
THEOREM ImplementsSignIns == Spec => FlowsGoForward
BY InitSignIn, NextMaps, SpecOInv, PTL DEF Spec, FlowsGoForward, SignIn!Spec
=============================================================================
