-------------------------- MODULE QfSession_proofs --------------------------
(***************************************************************************)
(* Proofs about QfSession: whatever the requests and their order, sessions *)
(* and pages are of one parent and portals stay apart.                     *)
(***************************************************************************)
EXTENDS QfSession, TLAPS

(* Each portal's values in a session were passed by that portal. *)
OwnValue(c, x) == x # None => x.from = c

OwnPortals(session) ==
  \A c \in Collectivities :
    /\ OwnValue(c, session.portals[c].external_id)
    /\ OwnValue(c, session.portals[c].redirect_uri)

Sound(session) == OneParent(session) /\ OwnPortals(session)

(* After a logout that met no other request, every record that the browser *)
(* or a request can still reach is nobody's, and no callback is under way. *)
Clean(s) == s # None /\ store[s] # None => Nobodys(store[s])

LoggedOut ==
  visitor = None /\ ~ crossed =>
    /\ Clean(cookie)
    /\ \A r \in Requests : req[r] # None =>
         /\ Nobodys(req[r].session)
         /\ Clean(req[r].sid)
         /\ req[r].asked.action # "callback"

(* Inductive strengthening: what a request has loaded is as sound as what  *)
(* is stored, for it will be written back.                                 *)
Inv ==
  /\ TypeOK
  /\ \A s \in Sids : store[s] # None => Sound(store[s])
  /\ \A r \in Requests : req[r] # None => Sound(req[r].session)
  /\ PagesAreOfOneParentAndPortal
  /\ LoggedOut

(* What a request saves. *)
LEMMA PassedType ==
  ASSUME NEW asked \in Asked, asked.action = "show"
  PROVE  /\ Passed(asked) \in Portal
         /\ DOMAIN Passed(asked) = {"external_id", "redirect_uri"}
         /\ OwnValue(asked.collectivity, Passed(asked).external_id)
         /\ OwnValue(asked.collectivity, Passed(asked).redirect_uri)
         /\ asked.collectivity \in Collectivities
<1> DEFINE x == Passed(asked)
<1>1. /\ asked.collectivity \in Collectivities
      /\ asked.params \in [external_id : Values \cup {None}, redirect_uri : Values \cup {None}]
  BY ArrivalsAssumption DEF Asked
<1>2. DOMAIN asked.params = {"external_id", "redirect_uri"}
  BY <1>1
<1>3. x = [p \in {"external_id", "redirect_uri"} |->
             IF asked.params[p] = None THEN None
             ELSE [from |-> asked.collectivity, value |-> asked.params[p]]]
  BY <1>2 DEF Passed
<1>4. \A p \in {"external_id", "redirect_uri"} :
        /\ x[p] \in PortalValue \cup {None}
        /\ OwnValue(asked.collectivity, x[p])
  BY <1>1, <1>3 DEF PortalValue, OwnValue
<1>5. x = [external_id |-> x["external_id"], redirect_uri |-> x["redirect_uri"]]
  BY <1>3
<1> QED
  BY <1>1, <1>3, <1>4, <1>5 DEF Portal

(* A blank value gives way to the one the session has, of the same portal. *)
LEMMA MergeSound ==
  ASSUME NEW session \in Session, Sound(session), NEW asked \in Asked, asked.action = "show"
  PROVE  LET c == asked.collectivity
             next == [session EXCEPT !.siret = c,
                                     !.portals = MergePortal(session, c, Passed(asked))]
         IN next \in Session /\ Sound(next)
<1> DEFINE c == asked.collectivity
           passed == Passed(asked)
           merged == MergePortal(session, c, passed)
           next == [session EXCEPT !.siret = c, !.portals = merged]
           portal == [p \in {"external_id", "redirect_uri"} |->
                        IF passed[p] = None THEN session.portals[c][p] ELSE passed[p]]
<1>1. /\ c \in Collectivities
      /\ passed \in Portal
      /\ DOMAIN passed = {"external_id", "redirect_uri"}
      /\ OwnValue(c, passed.external_id) /\ OwnValue(c, passed.redirect_uri)
  BY PassedType
<1>2. session.portals \in [Collectivities -> Portal]
  BY DEF Session
<1>3. merged = [session.portals EXCEPT ![c] = portal]
  BY <1>1 DEF MergePortal
<1>4. /\ session.portals[c] \in Portal
      /\ OwnValue(c, session.portals[c].external_id)
      /\ OwnValue(c, session.portals[c].redirect_uri)
  BY <1>1, <1>2 DEF Sound, OwnPortals
<1>5. \A p \in {"external_id", "redirect_uri"} :
        portal[p] \in PortalValue \cup {None} /\ OwnValue(c, portal[p])
  BY <1>1, <1>4 DEF Portal
<1>6. portal = [external_id |-> portal["external_id"], redirect_uri |-> portal["redirect_uri"]]
  OBVIOUS
<1>7. portal \in Portal
  BY <1>5, <1>6 DEF Portal
<1>8. merged \in [Collectivities -> Portal]
  BY <1>2, <1>3, <1>7
<1>9. next \in Session
  BY <1>1, <1>8 DEF Session
<1>10. \A d \in Collectivities :
         OwnValue(d, merged[d].external_id) /\ OwnValue(d, merged[d].redirect_uri)
  <2> TAKE d \in Collectivities
  <2>1. CASE d = c
    BY <2>1, <1>1, <1>2, <1>3, <1>5
  <2>2. CASE d # c
    BY <2>2, <1>2, <1>3 DEF Sound, OwnPortals
  <2> QED
    BY <2>1, <2>2
<1>11. Sound(next)
  BY <1>9, <1>10 DEF Sound, OwnPortals, OneParent, Session
<1> QED
  BY <1>9, <1>11

LEMMA EmptySound == EmptySession \in Session /\ Sound(EmptySession)
<1>1. EmptySession \in Session
  BY DEF EmptySession, Session, NoPortal, Portal
<1>2. Sound(EmptySession)
  BY DEF EmptySession, Sound, OwnPortals, OwnValue, OneParent, NoPortal
<1> QED
  BY <1>1, <1>2

LEMMA LogInSound ==
  ASSUME NEW session \in Session, Sound(session), NEW person \in Persons, NEW kind \in Kinds
  PROVE  LET next == LogIn(session, person)
             quotient == [of |-> person, kind |-> kind] IN
         /\ next \in Session
         /\ Sound(next)
         /\ [next EXCEPT !.quotient_familial = quotient] \in Session
         /\ Sound([next EXCEPT !.quotient_familial = quotient])
  BY DEF LogIn, Session, Quotient, Sound, OwnPortals, OneParent

LEMMA LogInAloneSound ==
  ASSUME NEW session \in Session, Sound(session), NEW person \in Persons
  PROVE  LogIn(session, person) \in Session /\ Sound(LogIn(session, person))
  BY DEF LogIn, Session, Sound, OwnPortals, OneParent

(* The part of the invariant that saving a sound session maintains. *)
Stored ==
  /\ store \in [Sids -> Session \cup {None}]
  /\ retired \subseteq Sids
  /\ cookie \in Sids \cup {None}
  /\ req \in [Requests -> Request \cup {None}]
  /\ \A s \in Sids : store[s] # None => Sound(store[s])
  /\ \A r \in Requests : req[r] # None => Sound(req[r].session)

(* Whichever record it goes to, a sound session leaves the store sound.    *)
LEMMA SaveStored ==
  ASSUME Stored, NEW r \in Requests, req[r] # None,
         NEW session \in Session, Sound(session), Save(r, session)
  PROVE  Stored'
<1>1. req[r] \in Request /\ req[r].sid \in Sids \cup {None}
  BY DEF Stored, Request
<1>2. req' = [req EXCEPT ![r] = None] /\ UNCHANGED retired
  BY DEF Save
<1>3. /\ req' \in [Requests -> Request \cup {None}]
      /\ \A q \in Requests : req'[q] # None => Sound(req'[q].session)
  BY <1>2 DEF Stored
<1>4. \/ \E s \in Sids : Write(s, session)
      \/ cookie' \in Sids /\ UNCHANGED store
  BY <1>1 DEF Save, Stored
<1>5. CASE \E s \in Sids : Write(s, session)
  <2> PICK s \in Sids : Write(s, session)
    BY <1>5
  <2>1. cookie' \in Sids /\ store' \in [Sids -> Session \cup {None}]
    BY DEF Write, Stored
  <2>2. \A t \in Sids : store'[t] # None => Sound(store'[t])
    BY DEF Write, Stored
  <2> QED
    BY <1>2, <1>3, <2>1, <2>2 DEF Stored
<1>6. CASE cookie' \in Sids /\ UNCHANGED store
  BY <1>2, <1>3, <1>6 DEF Stored
<1> QED
  BY <1>4, <1>5, <1>6

(* Nobody's session saved leaves every reachable record nobody's.          *)
LEMMA SaveLoggedOut ==
  ASSUME Stored, LoggedOut, NEW r \in Requests, req[r] # None, NEW session, Save(r, session),
         Nobodys(req[r].session) => Nobodys(session), UNCHANGED <<visitor, crossed>>
  PROVE  LoggedOut'
<1> SUFFICES ASSUME visitor = None, ~ crossed
             PROVE  /\ Clean(cookie)'
                    /\ \A q \in Requests : req'[q] # None =>
                         /\ Nobodys(req'[q].session)
                         /\ Clean(req[q].sid)'
                         /\ req'[q].asked.action # "callback"
                         /\ req'[q] = req[q]
  BY DEF LoggedOut, Clean
<1>1. /\ Nobodys(session)
      /\ Clean(cookie)
      /\ \A q \in Requests : req[q] # None =>
           Nobodys(req[q].session) /\ Clean(req[q].sid) /\ req[q].asked.action # "callback"
  BY DEF LoggedOut
<1>2. \A q \in Requests : req'[q] # None => req'[q] = req[q]
  BY DEF Save, Stored
<1>3. \A s \in Sids : Clean(s) => Clean(s)'
  BY <1>1 DEF Save, Write, Clean, Stored
<1>4. \A q \in Requests : req[q] # None => req[q].sid \in Sids \cup {None}
  BY DEF Stored, Request
<1>5. Clean(cookie)'
  BY <1>1, <1>3, <1>4 DEF Save, Write, Clean, Stored
<1> QED
  BY <1>1, <1>2, <1>3, <1>4, <1>5 DEF Clean

(* Dropping records keeps the others. *)
LEMMA DropStored ==
  ASSUME Stored, NEW r \in Requests, Raise(r)
  PROVE  Stored'
  BY DEF Raise, StoreUnlessHeld, Stored

LEMMA DropLoggedOut ==
  ASSUME Stored, LoggedOut, NEW r \in Requests, Raise(r)
  PROVE  LoggedOut'
<1>1. UNCHANGED <<visitor, crossed, cookie>> /\ \A s \in Sids : store'[s] \in {None, store[s]}
  BY DEF Raise, StoreUnlessHeld, Stored, history
<1>2. \A q \in Requests : req'[q] # None => req'[q] = req[q]
  BY DEF Raise, Stored
<1>3. cookie \in Sids \cup {None}
      /\ \A q \in Requests : req[q] # None => req[q].sid \in Sids \cup {None}
  BY DEF Stored, Request
<1> QED
  BY <1>1, <1>2, <1>3 DEF LoggedOut, Clean

-----------------------------------------------------------------------------
LEMMA InitInv == Init => Inv
<1> SUFFICES ASSUME Init PROVE Inv
  OBVIOUS
<1>1. TypeOK
  BY DEF Init, TypeOK, Plain, Page, NoPortal, Portal
<1>2. (\A s \in Sids : store[s] = None) /\ (\A r \in Requests : req[r] = None)
  BY DEF Init
<1>3. PagesAreOfOneParentAndPortal
  BY DEF Init, PagesAreOfOneParentAndPortal, Plain
<1>4. LoggedOut
  BY DEF Init, LoggedOut, Clean
<1> QED
  BY <1>1, <1>2, <1>3, <1>4 DEF Inv

LEMMA StoredInInv == Inv <=> TypeOK /\ Stored /\ PagesAreOfOneParentAndPortal /\ LoggedOut
  BY DEF Inv, Stored, TypeOK

(* What a request has loaded. *)
LEMMA LoadedSound ==
  ASSUME Stored, NEW r \in Requests, req[r] # None
  PROVE  /\ req[r].asked \in Asked
         /\ req[r].session \in Session
         /\ Sound(req[r].session)
  BY DEF Stored, Request

(* What a step that saves, or does not, leaves to show of the invariant. *)
LEMMA Assemble ==
  ASSUME Stored', page' \in Page, visitor' \in Persons \cup {None},
         arrived' \in [Collectivities -> Portal], crossed' \in BOOLEAN,
         PagesAreOfOneParentAndPortal', LoggedOut'
  PROVE  Inv'
  BY DEF Inv, Stored, TypeOK, PagesAreOfOneParentAndPortal

LEMMA PlainPage ==
  ASSUME page' = Plain
  PROVE  page' \in Page /\ PagesAreOfOneParentAndPortal'
  BY DEF Plain, Page, PagesAreOfOneParentAndPortal

LEMMA BeginInv ==
  ASSUME Inv, NEW r \in Requests, NEW asked \in Asked, Begin(r, asked)
  PROVE  Inv'
<1> DEFINE known == cookie # None /\ store[cookie] # None
           request == [asked |-> asked,
                       sid |-> IF known THEN cookie ELSE None,
                       session |-> IF known THEN store[cookie] ELSE EmptySession]
<1>1. TypeOK /\ Stored /\ PagesAreOfOneParentAndPortal /\ LoggedOut
  BY StoredInInv
<1>2. /\ req' = [req EXCEPT ![r] = request]
      /\ UNCHANGED <<store, retired, cookie, page>>
  BY DEF Begin, browser
<1>3. request.session \in Session /\ Sound(request.session)
  <2>1. CASE known
    BY <1>1, <2>1 DEF Stored
  <2>2. CASE ~ known
    BY <2>2, EmptySound
  <2> QED
    BY <2>1, <2>2
<1>4. request \in Request
  BY <1>1, <1>3 DEF Request, Stored
<1>5. Stored'
  BY <1>1, <1>2, <1>3, <1>4 DEF Stored
<1>6. visitor' \in Persons \cup {None}
  BY <1>1 DEF Begin, TypeOK, Asked
<1>7. arrived' \in [Collectivities -> Portal]
  BY <1>1 DEF Begin, TypeOK, NoPortal, Portal
<1>8. page' \in Page /\ PagesAreOfOneParentAndPortal'
  BY <1>1, <1>2 DEF TypeOK, PagesAreOfOneParentAndPortal
<1>9. crossed' \in BOOLEAN
  BY <1>1 DEF Begin, TypeOK
<1>10. LoggedOut'
  <2> SUFFICES ASSUME visitor' = None, ~ crossed' PROVE LoggedOut'
    BY DEF LoggedOut
  <2>1. asked.action # "callback" /\ visitor = None /\ ~ crossed
    BY <1>1, NoneAssumption DEF Begin, Asked, TypeOK
  <2>2. /\ Clean(cookie)
        /\ \A q \in Requests : req[q] # None =>
             Nobodys(req[q].session) /\ Clean(req[q].sid) /\ req[q].asked.action # "callback"
    BY <1>1, <2>1 DEF LoggedOut
  <2>3. Nobodys(request.session) /\ Clean(request.sid)
    BY <2>2 DEF Clean, Nobodys, EmptySession
  <2>4. \A q \in Requests : req'[q] = IF q = r THEN request ELSE req[q]
    BY <1>1, <1>2 DEF Stored
  <2> QED
    BY <1>2, <2>1, <2>2, <2>3, <2>4 DEF LoggedOut, Clean
<1> QED
  BY <1>5, <1>6, <1>7, <1>8, <1>9, <1>10, Assemble

LEMMA ShowCollectivityInv ==
  ASSUME Inv, NEW r \in Requests, ShowCollectivity(r)
  PROVE  Inv'
<1> DEFINE asked == req[r].asked
           c == asked.collectivity
           session == req[r].session
           passed == Passed(asked)
           next == [session EXCEPT !.siret = c, !.portals = MergePortal(session, c, passed)]
<1>1. TypeOK /\ Stored /\ LoggedOut
  BY StoredInInv
<1>2. req[r] # None /\ asked.action = "show"
  BY DEF ShowCollectivity, Loaded
<1>3. asked \in Asked /\ session \in Session /\ Sound(session)
  BY <1>1, <1>2, LoadedSound
<1>4. next \in Session /\ Sound(next)
  BY <1>2, <1>3, MergeSound
<1>5. Save(r, next) \/ Save(r, session)
  BY DEF ShowCollectivity
<1>6. Stored'
  BY <1>1, <1>2, <1>3, <1>4, <1>5, SaveStored
<1>7. arrived' \in [Collectivities -> Portal]
  <2> DEFINE portal == [p \in {"external_id", "redirect_uri"} |->
                          IF passed[p] = None THEN arrived[c][p] ELSE passed[p]]
  <2>1. /\ c \in Collectivities
        /\ passed \in Portal
        /\ DOMAIN passed = {"external_id", "redirect_uri"}
    BY <1>2, <1>3, PassedType
  <2>2. arrived \in [Collectivities -> Portal]
    BY <1>1 DEF TypeOK
  <2>3. \A p \in {"external_id", "redirect_uri"} : portal[p] \in PortalValue \cup {None}
    BY <2>1, <2>2 DEF Portal
  <2>4. portal = [external_id |-> portal["external_id"], redirect_uri |-> portal["redirect_uri"]]
    OBVIOUS
  <2>5. portal \in Portal
    BY <2>3, <2>4 DEF Portal
  <2>6. arrived' = [arrived EXCEPT ![c] = portal] \/ UNCHANGED arrived
    BY <2>1 DEF ShowCollectivity
  <2> QED
    BY <2>1, <2>2, <2>5, <2>6
<1>8. page' = Plain /\ visitor' = visitor /\ crossed' = crossed
  BY DEF ShowCollectivity
<1>9. LoggedOut'
  <2>1. Nobodys(session) => Nobodys(next)
    BY <1>3 DEF Nobodys, Session
  <2> QED
    BY <1>1, <1>2, <1>5, <1>8, <2>1, SaveLoggedOut
<1> QED
  BY <1>1, <1>6, <1>7, <1>8, <1>9, PlainPage, Assemble DEF TypeOK

LEMMA CreateSessionInv ==
  ASSUME Inv, NEW r \in Requests, CreateSession(r)
  PROVE  Inv'
<1> DEFINE person == req[r].asked.person
           session == LogIn(req[r].session, person)
<1>1. TypeOK /\ Stored /\ LoggedOut
  BY StoredInInv
<1>2. req[r] # None /\ req[r].asked.action = "callback"
  BY DEF CreateSession, Loaded
<1>3. req[r].asked \in Asked /\ req[r].session \in Session /\ Sound(req[r].session)
  BY <1>1, <1>2, LoadedSound
<1>4. person \in Persons
  BY <1>2, <1>3 DEF Asked
<1>5. PICK next \in Session : Sound(next) /\ Save(r, next)
  <2>1. CASE Save(r, session)
    BY <1>3, <1>4, <2>1, LogInAloneSound
  <2>2. ASSUME NEW kind \in Kinds,
               Save(r, [session EXCEPT !.quotient_familial = [of |-> person, kind |-> kind]])
        PROVE  \E next \in Session : Sound(next) /\ Save(r, next)
    BY <1>3, <1>4, <2>2, LogInSound
  <2> QED
    BY <2>1, <2>2 DEF CreateSession
<1>6. Stored'
  BY <1>1, <1>2, <1>5, SaveStored
<1>7. page' = Plain /\ UNCHANGED history
  BY DEF CreateSession
<1>8. LoggedOut'
  BY <1>1, <1>2, <1>7 DEF LoggedOut, history
<1> QED
  BY <1>1, <1>6, <1>7, <1>8, PlainPage, Assemble DEF TypeOK, history

LEMMA RaiseInv ==
  ASSUME Inv, NEW r \in Requests, Raise(r)
  PROVE  Inv'
<1>1. TypeOK /\ Stored /\ LoggedOut
  BY StoredInInv
<1>2. Stored' /\ LoggedOut'
  BY <1>1, DropStored, DropLoggedOut
<1> QED
  BY <1>1, <1>2, PlainPage, Assemble DEF Raise, TypeOK, history

LEMMA DestroySessionInv ==
  ASSUME Inv, NEW r \in Requests, DestroySession(r)
  PROVE  Inv'
<1>1. TypeOK /\ Stored
  BY StoredInInv
<1>2. req[r] \in Request /\ req[r].sid \in Sids \cup {None}
  BY <1>1 DEF DestroySession, Loaded, Stored, Request
<1>3. Stored'
  BY <1>1, <1>2 DEF DestroySession, Stored
<1>4. LoggedOut'
  <2>1. crossed' \/ \A q \in Requests : req'[q] = None
    BY <1>1 DEF DestroySession, Leave, Stored
  <2> QED
    BY <2>1 DEF DestroySession, LoggedOut, Clean
<1> QED
  BY <1>1, <1>3, <1>4, PlainPage, Assemble DEF DestroySession, Leave, TypeOK

(* The three actions of ShipmentsController, which differ in the value of  *)
(* the portal they use: it must be the collectivity's own.                 *)
LEMMA AnswersInv ==
  ASSUME Inv, NEW r \in Requests, req[r] # None,
         req[r].asked.action \in {"new", "create", "confirmation"},
         NEW kind \in {"new", "sent", "confirmation"},
         NEW value \in PortalValue \cup {None},
         OwnValue(req[r].asked.collectivity, value),
         Answers(r, kind, value)
  PROVE  Inv'
<1> DEFINE session == req[r].session
           c == req[r].asked.collectivity
<1>1. TypeOK /\ Stored /\ LoggedOut
  BY StoredInInv
<1>2. req[r].asked \in Asked /\ session \in Session /\ Sound(session)
  BY <1>1, LoadedSound
<1>3. c \in Collectivities
  BY <1>2 DEF Asked
<1>4. Stored'
  BY <1>1, <1>2, SaveStored DEF Answers
<1>5. page' \in Page /\ PagesAreOfOneParentAndPortal'
  <2>1. CASE page' = Plain
    BY <2>1, PlainPage
  <2>2. CASE /\ kind = "confirmation" \/ (session.quotient_familial # None /\ ~ Unusable(session))
             /\ page' = [kind |-> kind,
                         identity |-> session.identity,
                         quotient_familial |-> session.quotient_familial,
                         collectivity |-> c,
                         portal_value |-> value]
    <3>1. page' \in Page
      BY <1>2, <1>3, <2>2 DEF Page, Session
    <3>2. session.quotient_familial # None /\ ~ Unusable(session) =>
            session.quotient_familial.kind = "quotient"
      BY <1>2, KindsAssumption DEF Unusable, Session, Quotient
    <3>3. PagesAreOfOneParentAndPortal'
      BY <1>2, <2>2, <3>2 DEF PagesAreOfOneParentAndPortal, Sound, OneParent, OwnValue
    <3> QED
      BY <3>1, <3>3
  <2> QED
    BY <2>1, <2>2 DEF Answers
<1>6. LoggedOut'
  BY <1>1, SaveLoggedOut DEF Answers, history
<1> QED
  BY <1>1, <1>4, <1>5, <1>6, Assemble DEF Answers, TypeOK, history

LEMMA ShipmentsInv ==
  ASSUME Inv, NEW r \in Requests,
         NewShipment(r) \/ CreateShipment(r) \/ ShowShipment(r)
  PROVE  Inv'
<1> DEFINE c == req[r].asked.collectivity
           portal == req[r].session.portals[c]
<1>1. Stored
  BY StoredInInv
<1>2. req[r] # None /\ req[r].asked.action \in {"new", "create", "confirmation"}
  BY DEF NewShipment, CreateShipment, ShowShipment, Loaded
<1>3. req[r].asked \in Asked /\ req[r].session \in Session /\ Sound(req[r].session)
  BY <1>1, <1>2, LoadedSound
<1>4. c \in Collectivities
  BY <1>2, <1>3 DEF Asked
<1>5. /\ portal \in Portal
      /\ OwnValue(c, portal.external_id)
      /\ OwnValue(c, portal.redirect_uri)
  BY <1>3, <1>4 DEF Session, Sound, OwnPortals
<1>6. CASE NewShipment(r)
  BY <1>2, <1>6, AnswersInv DEF NewShipment, OwnValue
<1>7. CASE CreateShipment(r)
  <2>1. portal.external_id \in PortalValue \cup {None}
    BY <1>5 DEF Portal
  <2> QED
    BY <1>2, <1>5, <1>7, <2>1, AnswersInv DEF CreateShipment, CurrentPortal
<1>8. CASE ShowShipment(r)
  <2>1. /\ RedirectUri(portal) \in PortalValue \cup {None}
        /\ OwnValue(c, RedirectUri(portal))
    BY <1>5 DEF Portal, RedirectUri, OwnValue
  <2> QED
    BY <1>2, <1>8, <2>1, AnswersInv DEF ShowShipment, CurrentPortal
<1> QED
  BY <1>6, <1>7, <1>8

LEMMA CookieExpiresInv ==
  ASSUME Inv, CookieExpires
  PROVE  Inv'
<1>1. TypeOK /\ Stored /\ PagesAreOfOneParentAndPortal /\ LoggedOut
  BY StoredInInv
<1>2. Stored'
  BY <1>1 DEF CookieExpires, StoreUnlessHeld, Stored
<1>3. LoggedOut'
  <2>1. UNCHANGED <<visitor, crossed, req>> /\ cookie' = None
        /\ \A s \in Sids : store'[s] \in {None, store[s]}
    BY <1>1 DEF CookieExpires, StoreUnlessHeld, Stored, history
  <2>2. \A q \in Requests : req[q] # None => req[q].sid \in Sids \cup {None}
    BY <1>1 DEF Stored, Request
  <2> QED
    BY <1>1, <2>1, <2>2 DEF LoggedOut, Clean
<1> QED
  BY <1>1, <1>2, <1>3, Assemble DEF CookieExpires, TypeOK, history, PagesAreOfOneParentAndPortal

LEMMA StepInv == Inv /\ [Next]_vars => Inv'
<1> SUFFICES ASSUME Inv, [Next]_vars PROVE Inv'
  OBVIOUS
<1>1. ASSUME NEW r \in Requests, NEW asked \in Asked, Begin(r, asked) PROVE Inv'
  BY <1>1, BeginInv
<1>2. ASSUME NEW r \in Requests, End(r) PROVE Inv'
  BY <1>2, ShowCollectivityInv, CreateSessionInv, RaiseInv, DestroySessionInv, ShipmentsInv
  DEF End, CreateSessionRaises, ShipmentsRaise
<1>3. CASE CookieExpires
  BY <1>3, CookieExpiresInv
<1>4. CASE UNCHANGED vars
  BY <1>4 DEF vars, browser, history, Inv, TypeOK, PagesAreOfOneParentAndPortal, LoggedOut, Clean
<1> QED
  BY <1>1, <1>2, <1>3, <1>4 DEF Next

(* The inductive invariant holds throughout. *)
THEOREM SessionInvariance == Spec => []Inv
  BY InitInv, StepInv, PTL DEF Spec

(* Sessions and the requests' copies of them are always well formed. *)
THEOREM SessionTypes == Spec => []TypeOK
<1>1. Inv => TypeOK
  BY DEF Inv
<1> QED
  BY <1>1, SessionInvariance, PTL

(* For any number of parents, tabs and sessions: no session record mixes   *)
(* the identity of one parent with the quotient familial of another, even  *)
(* though overlapping requests overwrite each other's records.             *)
THEOREM SessionOfOneParent == Spec => []SessionsAreOfOneParent
<1>1. Inv => SessionsAreOfOneParent
  BY DEF Inv, SessionsAreOfOneParent, Sound
<1> QED
  BY <1>1, SessionInvariance, PTL

(* For any number of tabs and requests: once a parent has logged out while *)
(* no other request was under way, no later request brings the session     *)
(* back.                                                                   *)
THEOREM LogoutLasts == Spec => []LogoutIsKept
<1>1. Inv => LogoutIsKept
  BY DEF Inv, LoggedOut, LogoutIsKept, Clean
<1> QED
  BY <1>1, SessionInvariance, PTL

(* For any number of parents and collectivities: every page shown and      *)
(* every folder sent is of one parent, with the values that this very      *)
(* collectivity's portal passed.                                           *)
THEOREM PagesOfOneParentAndPortal == Spec => []PagesAreOfOneParentAndPortal
<1>1. Inv => PagesAreOfOneParentAndPortal
  BY DEF Inv
<1> QED
  BY <1>1, SessionInvariance, PTL

-----------------------------------------------------------------------------
(* A browser used for one thing at a time.                                 *)
OneRequest == \A q, r \in Requests : q = r

(* The browser has a session, store[cookie]. *)
Present == cookie # None /\ store[cookie] # None

(* Nobody writes the record of a request under way; a record that was      *)
(* destroyed does not come back.                                           *)
AloneInv ==
  /\ \A r \in Requests : req[r] # None =>
       IF req[r].sid = None
       THEN req[r].session = EmptySession /\ (cookie = None \/ store[cookie] = None)
       ELSE /\ store[req[r].sid] # None /\ store[req[r].sid] = req[r].session
            /\ cookie \in {req[r].sid, None}
  /\ \A s \in retired : store[s] = None

(* The portals' values in the session are those that arrived.              *)
ArrivedInv ==
  /\ Present => store[cookie].portals = arrived
  /\ \A r \in Requests : req[r] # None => req[r].session.portals = arrived

(* A session with a quotient familial knows where to send the parent, so   *)
(* that a login does not raise before the quotient is replaced.            *)
Routed(session) == session.quotient_familial # None => session.siret # None

(* The quotient familial is the last visitor's, or is about to be          *)
(* replaced by the callback that let him in.                               *)
OfVisitor(session) ==
  session.quotient_familial # None => session.quotient_familial.of = visitor

VisitorInv ==
  /\ \A s \in Sids : store[s] # None => Routed(store[s])
  /\ \A r \in Requests : req[r] # None =>
       IF req[r].asked.action = "callback"
       THEN req[r].asked.person = visitor
       ELSE OfVisitor(req[r].session)
  /\ (\A r \in Requests : req[r] = None \/ req[r].asked.action # "callback") /\ Present
     => OfVisitor(store[cookie])

(* A saved session is the browser's, and no other request is under way.    *)
LEMMA SaveAlone ==
  ASSUME OneRequest, Stored, AloneInv, NEW r \in Requests, req[r] # None,
         NEW session, Save(r, session)
  PROVE  /\ \A q \in Requests : req'[q] = None
         /\ cookie' \in Sids
         /\ store'[cookie'] = session
         /\ \A s \in Sids : s # cookie' => store'[s] = store[s]
         /\ AloneInv'
<1> DEFINE s == req[r].sid
<1>1. s \in Sids \cup {None} /\ None \notin Sids /\ retired \subseteq Sids
  BY NoneAssumption DEF Stored, Request
<1>2. /\ s # None => store[s] # None /\ store[s] = req[r].session
      /\ \A t \in retired : store[t] = None
  BY DEF AloneInv
<1>3. s \notin retired
  BY <1>1, <1>2
<1>4. \A q \in Requests : req'[q] = None
  BY DEF Save, OneRequest, Stored
<1>5. \/ \E t \in Sids \ retired : Write(t, session)
      \/ s # None /\ session = store[s] /\ cookie' = s /\ UNCHANGED store
  BY <1>1, <1>2, <1>3 DEF Save
<1> DEFINE Saved == /\ cookie' \in Sids /\ cookie' \notin retired
                    /\ store'[cookie'] = session
                    /\ \A t \in Sids : t # cookie' => store'[t] = store[t]
<1>6. Saved
  <2>1. ASSUME NEW t \in Sids \ retired, Write(t, session)  PROVE Saved
    BY <2>1 DEF Write, Stored
  <2>2. CASE s # None /\ session = store[s] /\ cookie' = s /\ UNCHANGED store
    BY <1>1, <1>3, <2>2
  <2> QED  BY <1>5, <2>1, <2>2
<1>7. retired' = retired
  BY DEF Save
<1>8. AloneInv'
  BY <1>1, <1>2, <1>4, <1>6, <1>7 DEF AloneInv
<1> QED  BY <1>4, <1>6, <1>8

(* The steps that end a request by saving what it has loaded, changed or   *)
(* not.                                                                    *)
Saves(r, session) ==
  /\ Save(r, session)
  /\ \/ ShowCollectivity(r)
     \/ CreateSession(r)
     \/ NewShipment(r) \/ CreateShipment(r) \/ ShowShipment(r)

LEMMA EndCases ==
  ASSUME NEW r \in Requests, End(r)
  PROVE  /\ req[r] # None
         /\ \/ \E session : Saves(r, session)
            \/ CreateSessionRaises(r) \/ ShipmentsRaise(r)
            \/ DestroySession(r)
<1>1. req[r] # None
  BY DEF End, ShowCollectivity, CreateSession, CreateSessionRaises, DestroySession,
         NewShipment, CreateShipment, ShowShipment, ShipmentsRaise, Loaded
<1>2. ASSUME ShowCollectivity(r)  PROVE \E session : Saves(r, session)
  <2>1. (\E session : Save(r, session))
    BY <1>2 DEF ShowCollectivity
  <2> QED  BY <1>2, <2>1 DEF Saves
<1>3. ASSUME CreateSession(r)  PROVE \E session : Saves(r, session)
  <2>1. (\E session : Save(r, session))
    BY <1>3 DEF CreateSession
  <2> QED  BY <1>3, <2>1 DEF Saves
<1>4. ASSUME NewShipment(r) \/ CreateShipment(r) \/ ShowShipment(r)
      PROVE  \E session : Saves(r, session)
  <2>1. (\E session : Save(r, session))
    BY <1>4 DEF NewShipment, CreateShipment, ShowShipment, Answers
  <2> QED  BY <1>4, <2>1 DEF Saves
<1> QED  BY <1>1, <1>2, <1>3, <1>4 DEF End

(* A request that raises leaves the browser's session as it was.           *)
LEMMA RaiseAlone ==
  ASSUME OneRequest, Stored, AloneInv, NEW r \in Requests, req[r] # None, Raise(r)
  PROVE  /\ \A q \in Requests : req'[q] = None
         /\ Present' => Present /\ store'[cookie] = store[cookie]
         /\ cookie' = cookie
         /\ \A s \in Sids : store'[s] \in {None, store[s]}
         /\ AloneInv'
<1>1. /\ \A q \in Requests : req'[q] = None
      /\ cookie' = cookie /\ retired' = retired
      /\ \A s \in Sids : store'[s] \in {None, store[s]}
  BY DEF Raise, StoreUnlessHeld, OneRequest, Stored
<1>2. cookie \in Sids \cup {None} /\ retired \subseteq Sids
  BY DEF Stored
<1> QED  BY <1>1, <1>2 DEF Present, AloneInv

LEMMA InitAlone == Init => AloneInv
BY DEF Init, AloneInv

LEMMA NextAlone ==
  ASSUME OneRequest
  PROVE  Stored /\ AloneInv /\ [Next]_vars => AloneInv'
<1> SUFFICES ASSUME Stored, AloneInv, [Next]_vars PROVE AloneInv'
  OBVIOUS
<1>1. ASSUME NEW r \in Requests, NEW asked \in Asked, Begin(r, asked)  PROVE AloneInv'
  <2>1. \A q \in Requests : q = r
    BY DEF OneRequest
  <2>2. /\ req'[r].sid = IF Present THEN cookie ELSE None
        /\ req'[r].session = IF Present THEN store[cookie] ELSE EmptySession
        /\ UNCHANGED <<store, retired, cookie>>
    BY <1>1 DEF Begin, Stored, Present, browser
  <2> QED  BY <2>1, <2>2 DEF AloneInv, Present
<1>2. ASSUME NEW r \in Requests, End(r)  PROVE AloneInv'
  <2>1. CASE \E session : Saves(r, session)
    BY <1>2, <2>1, EndCases, SaveAlone DEF Saves
  <2>2. CASE CreateSessionRaises(r) \/ ShipmentsRaise(r)
    BY <1>2, <2>2, EndCases, RaiseAlone DEF CreateSessionRaises, ShipmentsRaise
  <2>3. CASE DestroySession(r)
    <3>1. \A q \in Requests : req'[q] = None
      BY <2>3 DEF DestroySession, OneRequest, Stored
    <3>2. req[r].sid \in Sids \cup {None} /\ retired \subseteq Sids
      BY <1>2, EndCases DEF Stored, Request
    <3>3. \A s \in retired' : store'[s] = None
      BY <2>3, <3>2 DEF DestroySession, AloneInv
    <3> QED  BY <3>1, <3>3 DEF AloneInv
  <2> QED  BY <1>2, <2>1, <2>2, <2>3, EndCases
<1>3. CASE CookieExpires
  <2>1. /\ cookie' = None /\ retired' = retired /\ req' = req
        /\ \A s \in Sids : store'[s] \in {None, store[s]}
        /\ \A r \in Requests : \A s \in Sids :
             req[r] # None /\ req[r].sid = s => store'[s] = store[s]
    BY <1>3 DEF CookieExpires, StoreUnlessHeld
  <2>2. \A r \in Requests : req[r] # None => req[r].sid \in Sids \cup {None}
    BY DEF Stored, Request
  <2> QED  BY <2>1, <2>2 DEF AloneInv, Stored
<1>4. CASE UNCHANGED vars
  BY <1>4 DEF vars, browser, AloneInv
<1> QED  BY <1>1, <1>2, <1>3, <1>4 DEF Next

-----------------------------------------------------------------------------
(* The portals' values.                                                    *)

LEMMA MergeArrived ==
  ASSUME Stored, NEW r \in Requests, req[r] # None, req[r].session.portals = arrived,
         ShowCollectivity(r), NEW session, Save(r, session)
  PROVE  \E next : Save(r, next) /\ next.portals = arrived'
<1> DEFINE asked == req[r].asked
           c == asked.collectivity
           passed == Passed(asked)
           merged == MergePortal(req[r].session, c, passed)
           next == [req[r].session EXCEPT !.siret = c, !.portals = merged]
<1>1. req[r].session \in Session
  BY LoadedSound
<1>2. CASE c \in Active
  <2>1. Save(r, next)
    BY <1>2 DEF ShowCollectivity
  <2>2. next.portals = merged
    BY <1>1 DEF Session
  <2>3. merged = arrived'
    BY <1>2 DEF ShowCollectivity, MergePortal
  <2> QED  BY <2>1, <2>2, <2>3
<1>3. CASE c \notin Active
  BY <1>3 DEF ShowCollectivity
<1> QED  BY <1>2, <1>3

(* The session that is saved has the values that arrived until then. *)
LEMMA SavedPortals ==
  ASSUME Stored, ArrivedInv, NEW r \in Requests, req[r] # None, NEW session, Saves(r, session)
  PROVE  \E next : Save(r, next) /\ next.portals = arrived'
<1>1. req[r].session \in Session /\ req[r].session.portals = arrived
  BY LoadedSound DEF ArrivedInv
<1>2. CASE ShowCollectivity(r)
  BY <1>1, <1>2, MergeArrived DEF Saves
<1>3. CASE CreateSession(r)
  <2> DEFINE person == req[r].asked.person
             login == LogIn(req[r].session, person)
  <2>1. arrived' = arrived
    BY <1>3 DEF CreateSession, history
  <2>2. /\ login.portals = arrived
        /\ \A q : [login EXCEPT !.quotient_familial = q].portals = arrived
    BY <1>1 DEF LogIn, Session
  <2> QED  BY <1>3, <2>1, <2>2 DEF CreateSession
<1>4. CASE NewShipment(r) \/ CreateShipment(r) \/ ShowShipment(r)
  BY <1>1, <1>4 DEF NewShipment, CreateShipment, ShowShipment, Answers, history
<1> QED  BY <1>2, <1>3, <1>4 DEF Saves

LEMMA InitArrived == Init => ArrivedInv
BY DEF Init, ArrivedInv, Present

LEMMA NextArrived ==
  ASSUME OneRequest
  PROVE  Stored /\ AloneInv /\ ArrivedInv /\ [Next]_vars => ArrivedInv'
<1> SUFFICES ASSUME Stored, AloneInv, ArrivedInv, [Next]_vars PROVE ArrivedInv'
  OBVIOUS
<1>1. ASSUME NEW r \in Requests, NEW asked \in Asked, Begin(r, asked)  PROVE ArrivedInv'
  <2>1. \A q \in Requests : q = r
    BY DEF OneRequest
  <2>2. /\ req'[r].session = IF Present THEN store[cookie] ELSE EmptySession
        /\ arrived' = IF Present THEN arrived ELSE [c \in Collectivities |-> NoPortal]
        /\ UNCHANGED <<store, cookie>>
    BY <1>1 DEF Begin, Stored, Present, browser
  <2> QED  BY <2>1, <2>2 DEF ArrivedInv, Present, EmptySession
<1>2. ASSUME NEW r \in Requests, End(r)  PROVE ArrivedInv'
  <2>1. ASSUME NEW session, Saves(r, session)  PROVE ArrivedInv'
    <3>1. PICK next : Save(r, next) /\ next.portals = arrived'
      BY <1>2, <2>1, EndCases, SavedPortals
    <3> QED  BY <1>2, <3>1, EndCases, SaveAlone DEF ArrivedInv
  <2>2. CASE CreateSessionRaises(r) \/ ShipmentsRaise(r)
    BY <1>2, <2>2, EndCases, RaiseAlone
    DEF CreateSessionRaises, ShipmentsRaise, ArrivedInv, Raise, history
  <2>3. CASE DestroySession(r)
    BY <2>3 DEF DestroySession, OneRequest, Stored, ArrivedInv, Present
  <2> QED  BY <1>2, <2>1, <2>2, <2>3, EndCases
<1>3. CASE CookieExpires
  BY <1>3 DEF CookieExpires, ArrivedInv, Present, history
<1>4. CASE UNCHANGED vars
  BY <1>4 DEF vars, browser, history, ArrivedInv, Present
<1> QED  BY <1>1, <1>2, <1>3, <1>4 DEF Next

-----------------------------------------------------------------------------
(* The quotient familial.                                                  *)

(* The session that is saved has no quotient but the visitor's.            *)
LEMMA SavedQuotient ==
  ASSUME Stored, VisitorInv, NEW r \in Requests, req[r] # None, Routed(req[r].session),
         NEW session, Saves(r, session)
  PROVE  visitor' = visitor /\ \E next : Save(r, next) /\ OfVisitor(next) /\ Routed(next)
<1>1. req[r].session \in Session /\ req[r].asked \in Asked
  BY LoadedSound
<1>2. CASE ShowCollectivity(r)
  <2>1. req[r].asked.action = "show" /\ req[r].asked.collectivity # None /\ visitor' = visitor
    BY <1>1, <1>2, NoneAssumption DEF ShowCollectivity, Loaded, Asked
  <2>2. OfVisitor(req[r].session)
    BY <2>1 DEF VisitorInv
  <2> DEFINE c == req[r].asked.collectivity
             merged == MergePortal(req[r].session, c, Passed(req[r].asked))
             next == [req[r].session EXCEPT !.siret = c, !.portals = merged]
  <2>3. Save(r, next) \/ Save(r, req[r].session)
    BY <1>2 DEF ShowCollectivity
  <2>4. OfVisitor(next) /\ Routed(next)
    BY <1>1, <2>1, <2>2 DEF Session, OfVisitor, Routed
  <2> QED  BY <2>1, <2>2, <2>3, <2>4
<1>3. CASE CreateSession(r)
  <2> DEFINE person == req[r].asked.person
             login == LogIn(req[r].session, person)
  <2>1. person = visitor /\ visitor' = visitor /\ login.siret # None
    BY <1>3 DEF CreateSession, Loaded, VisitorInv, history
  <2>2. OfVisitor(login) /\ Routed(login)
    BY <1>1 DEF LogIn, Session, OfVisitor, Routed
  <2>3. ASSUME NEW kind
        PROVE  /\ OfVisitor([login EXCEPT !.quotient_familial = [of |-> person, kind |-> kind]])
               /\ Routed([login EXCEPT !.quotient_familial = [of |-> person, kind |-> kind]])
    BY <1>1, <2>1 DEF LogIn, Session, OfVisitor, Routed
  <2> QED  BY <1>3, <2>1, <2>2, <2>3 DEF CreateSession
<1>4. CASE NewShipment(r) \/ CreateShipment(r) \/ ShowShipment(r)
  <2>1. visitor' = visitor /\ Save(r, req[r].session) /\ req[r].asked.action # "callback"
    BY <1>4 DEF NewShipment, CreateShipment, ShowShipment, Answers, Loaded, history
  <2> QED  BY <2>1 DEF VisitorInv
<1> QED  BY <1>2, <1>3, <1>4 DEF Saves

LEMMA LoadedRouted ==
  ASSUME Stored, AloneInv, VisitorInv, NEW r \in Requests, req[r] # None
  PROVE  Routed(req[r].session)
<1>1. req[r].sid \in Sids \cup {None}
  BY DEF Stored, Request
<1>2. Routed(EmptySession)
  BY DEF Routed, EmptySession
<1> QED  BY <1>1, <1>2 DEF AloneInv, VisitorInv

LEMMA InitVisitor == Init => VisitorInv
BY DEF Init, VisitorInv, Present

LEMMA NextVisitor ==
  ASSUME OneRequest, ~ MayRaise
  PROVE  Stored /\ AloneInv /\ VisitorInv /\ [Next]_vars => VisitorInv'
<1> SUFFICES ASSUME Stored, AloneInv, VisitorInv, [Next]_vars PROVE VisitorInv'
  OBVIOUS
<1>0. cookie \in Sids \cup {None}
  BY DEF Stored
<1>1. ASSUME NEW r \in Requests, NEW asked \in Asked, Begin(r, asked)  PROVE VisitorInv'
  <2>1. \A q \in Requests : q = r
    BY DEF OneRequest
  <2> DEFINE request == [asked |-> asked,
                         sid |-> IF Present THEN cookie ELSE None,
                         session |-> IF Present THEN store[cookie] ELSE EmptySession]
  <2>2. /\ req[r] = None /\ req'[r] = request
        /\ visitor' = IF asked.action = "callback" THEN asked.person ELSE visitor
        /\ UNCHANGED <<store, cookie>>
    BY <1>1 DEF Begin, Stored, Present, browser
  <2>3. request # None
    <3>1. request.session \in Session
      BY <1>0, EmptySound DEF Stored, Present
    <3> QED  BY <1>0, <3>1, NoRequestAssumption DEF Request
  <2> DEFINE Theirs(session) ==
               session.quotient_familial # None => session.quotient_familial.of = visitor'
  <2>4. Present /\ asked.action # "callback" => Theirs(store[cookie])
    BY <2>1, <2>2 DEF VisitorInv, OfVisitor
  <2>5. asked.action # "callback" => Theirs(request.session)
    BY <2>4 DEF EmptySession
  <2>6. IF asked.action = "callback" THEN asked.person = visitor' ELSE Theirs(request.session)
    BY <2>2, <2>5
  <2>7. \A q \in Requests : req'[q] = request
    BY <2>1, <2>2
  <2>8. Present' <=> Present
    BY <2>2 DEF Present
  <2>9. request.asked = asked
    OBVIOUS
  <2> HIDE DEF request
  <2>10. \A s \in Sids : store'[s] # None => Routed(store'[s])
    BY <2>2 DEF VisitorInv
  <2>11. \A q \in Requests : req'[q] # None =>
           IF req'[q].asked.action = "callback"
           THEN req'[q].asked.person = visitor'
           ELSE Theirs(req'[q].session)
    BY <2>6, <2>7, <2>9
  <2>12. /\ \A q \in Requests : req'[q] = None \/ req'[q].asked.action # "callback"
         /\ Present'
         => Theirs(store'[cookie'])
    BY <2>2, <2>3, <2>4, <2>7, <2>8, <2>9
  <2> QED  BY <2>10, <2>11, <2>12 DEF VisitorInv, OfVisitor
<1>2. ASSUME NEW r \in Requests, End(r)  PROVE VisitorInv'
  <2>1. ASSUME NEW session, Saves(r, session)  PROVE VisitorInv'
    <3>1. PICK next : Save(r, next) /\ OfVisitor(next) /\ Routed(next)
      BY <1>2, <2>1, EndCases, LoadedRouted, SavedQuotient
    <3>2. visitor' = visitor
      BY <1>2, <2>1, EndCases, LoadedRouted, SavedQuotient
    <3>3. /\ \A q \in Requests : req'[q] = None
          /\ store'[cookie'] = next
          /\ \A s \in Sids : s # cookie' => store'[s] = store[s]
      BY <1>2, <3>1, EndCases, SaveAlone
    <3> QED  BY <3>1, <3>2, <3>3 DEF VisitorInv, OfVisitor
  <2>2. CASE CreateSessionRaises(r) \/ ShipmentsRaise(r)
    <3>1. /\ \A q \in Requests : req'[q] = None
          /\ Present' => Present /\ store'[cookie] = store[cookie]
          /\ cookie' = cookie /\ visitor' = visitor
          /\ \A s \in Sids : store'[s] \in {None, store[s]}
      BY <1>2, <2>2, EndCases, RaiseAlone
      DEF CreateSessionRaises, ShipmentsRaise, Raise, history
    <3>2. Present => OfVisitor(store[cookie])
      <4>1. CASE req[r].asked.action = "callback"
        <5>1. req[r].session.siret = None
          BY <2>2, <4>1 DEF CreateSessionRaises, ShipmentsRaise, Loaded
        <5>2. req[r].session.quotient_familial = None
          BY <1>2, <5>1, EndCases, LoadedRouted DEF Routed
        <5>3. Present => store[cookie] = req[r].session
          BY <1>2, EndCases DEF AloneInv, Present
        <5> QED  BY <5>2, <5>3 DEF OfVisitor
      <4>2. CASE req[r].asked.action # "callback"
        BY <4>2 DEF VisitorInv, OneRequest
      <4> QED  BY <4>1, <4>2
    <3> QED  BY <3>1, <3>2 DEF VisitorInv, OfVisitor
  <2>3. CASE DestroySession(r)
    <3>1. /\ \A q \in Requests : req'[q] = None
          /\ cookie' = None
          /\ \A s \in Sids : store'[s] \in {None, store[s]}
      BY <2>3 DEF DestroySession, OneRequest, Stored
    <3> QED  BY <3>1 DEF VisitorInv, Present
  <2> QED  BY <1>2, <2>1, <2>2, <2>3, EndCases
<1>3. CASE CookieExpires
  <2>1. /\ cookie' = None /\ req' = req /\ visitor' = visitor
        /\ \A s \in Sids : store'[s] \in {None, store[s]}
    BY <1>3 DEF CookieExpires, StoreUnlessHeld, history
  <2> QED  BY <2>1 DEF VisitorInv, Present, OfVisitor
<1>4. CASE UNCHANGED vars
  BY <1>4 DEF vars, browser, history, VisitorInv, Present, OfVisitor
<1> QED  BY <1>1, <1>2, <1>3, <1>4 DEF Next

-----------------------------------------------------------------------------
(* The pages of a browser used for one thing at a time.                    *)

(* Only the actions of ShipmentsController answer with data. *)
LEMMA PageStep ==
  ASSUME [Next]_vars, page' # page, page'.kind # "plain"
  PROVE  \E r \in Requests : NewShipment(r) \/ CreateShipment(r) \/ ShowShipment(r)
<1>1. page' # Plain
  BY DEF Plain
<1>2. PICK r \in Requests : End(r)
  BY DEF Next, vars, browser, Begin, CookieExpires
<1> QED
  BY <1>1, <1>2
  DEF End, ShowCollectivity, CreateSession, CreateSessionRaises, DestroySession, Leave,
      ShipmentsRaise, Raise

(* What such an action answers with. *)
LEMMA AnswerStep ==
  ASSUME NEW r \in Requests, NEW kind, NEW value, Answers(r, kind, value), page'.kind # "plain"
  PROVE  /\ page'.kind = kind /\ page'.portal_value = value
         /\ page'.collectivity = req[r].asked.collectivity
         /\ page'.quotient_familial = req[r].session.quotient_familial
         /\ kind # "confirmation" => req[r].session.quotient_familial # None
BY DEF Answers, Plain

LEMMA AloneTogether ==
  ASSUME OneRequest
  PROVE  Spec => [](Inv /\ AloneInv /\ ArrivedInv)
<1>1. Init => Inv /\ AloneInv /\ ArrivedInv
  BY InitInv, InitAlone, InitArrived
<1>2. Inv /\ AloneInv /\ ArrivedInv /\ [Next]_vars => (Inv /\ AloneInv /\ ArrivedInv)'
  BY StepInv, StoredInInv, NextAlone, NextArrived
<1> QED  BY <1>1, <1>2, PTL DEF Spec

(* A browser used for one thing at a time, whatever API Particulier does:  *)
(* the file number sent and the return link offered are the last non-blank *)
(* ones that the collectivity's portal passed to this session.             *)
THEOREM PortalValuesLast ==
  ASSUME OneRequest
  PROVE  Spec => PortalValuesAreKept
<1> DEFINE Kept ==
      /\ page' # page
      => /\ page'.kind = "sent" =>
              page'.portal_value = arrived[page'.collectivity].external_id
         /\ page'.kind = "confirmation" =>
              page'.portal_value = RedirectUri(arrived[page'.collectivity])
<1>1. ArrivedInv /\ [Next]_vars => [Kept]_vars
  <2> SUFFICES ASSUME ArrivedInv, [Next]_vars, page' # page, page'.kind # "plain"
               PROVE  Kept
    OBVIOUS
  <2>1. PICK r \in Requests : NewShipment(r) \/ CreateShipment(r) \/ ShowShipment(r)
    BY PageStep
  <2>2. req[r].session.portals = arrived
    BY <2>1 DEF ArrivedInv, NewShipment, CreateShipment, ShowShipment, Loaded
  <2>3. CASE NewShipment(r)
    BY <2>3, AnswerStep DEF NewShipment
  <2>4. CASE CreateShipment(r)
    BY <2>2, <2>4, AnswerStep DEF CreateShipment, CurrentPortal
  <2>5. CASE ShowShipment(r)
    BY <2>2, <2>5, AnswerStep DEF ShowShipment, CurrentPortal
  <2> QED  BY <2>1, <2>3, <2>4, <2>5
<1> QED  BY <1>1, AloneTogether, PTL DEF Spec, PortalValuesAreKept

(* A browser used for one thing at a time, while API Particulier answers:  *)
(* a quotient familial is only shown and sent while the person it belongs  *)
(* to is the last one that FranceConnect let in.                           *)
THEOREM OwnQuotientOnly ==
  ASSUME OneRequest, ~ MayRaise
  PROVE  Spec => OnlyOwnQuotientIsUsed
<1> DEFINE Own ==
      page' # page /\ page'.kind \in {"new", "sent"} => page'.quotient_familial.of = visitor
<1>1. VisitorInv /\ [Next]_vars => [Own]_vars
  <2> SUFFICES ASSUME VisitorInv, [Next]_vars, page' # page, page'.kind \in {"new", "sent"}
               PROVE  page'.quotient_familial.of = visitor
    OBVIOUS
  <2>1. PICK r \in Requests : NewShipment(r) \/ CreateShipment(r) \/ ShowShipment(r)
    BY PageStep
  <2>2. OfVisitor(req[r].session)
    BY <2>1 DEF VisitorInv, NewShipment, CreateShipment, ShowShipment, Loaded
  <2>3. /\ page'.quotient_familial = req[r].session.quotient_familial
        /\ page'.quotient_familial # None
    BY <2>1, AnswerStep DEF NewShipment, CreateShipment, ShowShipment
  <2> QED  BY <2>2, <2>3 DEF OfVisitor
<1>2. Inv /\ AloneInv /\ VisitorInv /\ [Next]_vars => VisitorInv'
  BY StoredInInv, NextVisitor
<1> QED
  BY <1>1, <1>2, InitVisitor, AloneTogether, PTL DEF Spec, OnlyOwnQuotientIsUsed
=============================================================================
