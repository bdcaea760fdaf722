----------------------------- MODULE QfSession ------------------------------
(***************************************************************************)
(* The session of a parent's browser.                                      *)
(*                                                                         *)
(* The parent arrives at a collectivity's page (perhaps from its portal,   *)
(* with a file number and a return link), logs in with FranceConnect,      *)
(* reads the quotient familial fetched with that identity, sends it to a   *)
(* collectivity and logs out.  All of it is kept in a session record of    *)
(* the database, found through a cookie.  A request loads the record when  *)
(* it starts and writes it back, whole, when it ends; a request that       *)
(* raises writes nothing.  Requests of one browser (tabs, reloads, double  *)
(* clicks) overlap, and FranceConnect and API Particulier are slow.        *)
(***************************************************************************)
EXTENDS Integers

CONSTANTS
  Requests,       (* the requests that may overlap                         *)
  Persons,        (* the parents who use the browser                       *)
  Collectivities, (* the known collectivities ...                          *)
  Active,         (* ... and those whose status is active                  *)
  Values,         (* what a portal passes as file number or return link    *)
  Links,          (* the values that are http or https links               *)
  Arrivals,       (* the parameters with which parents arrive              *)
  Sids,           (* the session ids: a bound on the sessions opened       *)
  Kinds,          (* what API Particulier answers that the code stores     *)
  MayRaise,       (* may API Particulier time out or answer anything?      *)
  None

ASSUME SubsetsAssumption == Active \subseteq Collectivities /\ Links \subseteq Values
ASSUME ArrivalsAssumption ==
  Arrivals \subseteq [external_id : Values \cup {None}, redirect_uri : Values \cup {None}]
ASSUME KindsAssumption == Kinds \subseteq {"quotient", "error"}
ASSUME RaiseAssumption == MayRaise \in BOOLEAN
ASSUME NoneAssumption == None \notin Persons \cup Collectivities \cup Values \cup Sids

VARIABLES
  store,    (* the session records: the data of each sid, None without one *)
  retired,  (* the sids whose record was destroyed                         *)
  cookie,   (* the sid the browser sends                                   *)
  req,      (* the requests under way: what was asked, what was loaded     *)
  page,     (* the last answer of the site                                 *)
  visitor,  (* history: the last person FranceConnect let in, until logout *)
  arrived,  (* history: the last values each portal passed to this session *)
  crossed   (* history: did the last logout meet another request under way *)

browser == <<cookie, page>>
history == <<visitor, arrived, crossed>>
vars == <<store, retired, browser, req, history>>

(* A value remembers the portal it came from (ghost). *)
PortalValue == [from : Collectivities, value : Values]

Portal == [external_id : PortalValue \cup {None}, redirect_uri : PortalValue \cup {None}]

NoPortal == [external_id |-> None, redirect_uri |-> None]

(* session[:raw_info] with its tokens is a person; a quotient familial is  *)
(* of the person it was fetched for. An error of API Particulier that has  *)
(* no detail is stored as if it were one.                                  *)
Quotient == [of : Persons, kind : Kinds]

Session ==
  [identity : Persons \cup {None}, quotient_familial : Quotient \cup {None},
   siret : Collectivities \cup {None}, portals : [Collectivities -> Portal]]

EmptySession ==
  [identity |-> None, quotient_familial |-> None, siret |-> None,
   portals |-> [c \in Collectivities |-> NoPortal]]

(* What each action of the controllers is asked for, None where it has no  *)
(* such parameter.                                                         *)
NoParams == [external_id |-> None, redirect_uri |-> None]

Asked ==
  [action : {"show"}, person : {None}, collectivity : Collectivities, params : Arrivals]
  \cup [action : {"callback"}, person : Persons, collectivity : {None}, params : {NoParams}]
  \cup [action : {"logout"}, person : {None}, collectivity : {None}, params : {NoParams}]
  \cup [action : {"new", "create", "confirmation"}, person : {None},
        collectivity : Collectivities, params : {NoParams}]

Request == [asked : Asked, sid : Sids \cup {None}, session : Session]

ASSUME NoRequestAssumption == None \notin Request

(* The page after the last request: of "new", "sent" and "confirmation",   *)
(* the data it shows or has sent; any other page is "plain".               *)
Page ==
  [kind : {"plain", "new", "sent", "confirmation"},
   identity : Persons \cup {None}, quotient_familial : Quotient \cup {None},
   collectivity : Collectivities \cup {None}, portal_value : PortalValue \cup {None}]

Plain == [kind |-> "plain", identity |-> None, quotient_familial |-> None,
          collectivity |-> None, portal_value |-> None]

-----------------------------------------------------------------------------
Init ==
  /\ store = [s \in Sids |-> None]
  /\ retired = {}
  /\ cookie = None
  /\ req = [r \in Requests |-> None]
  /\ page = Plain
  /\ visitor = None
  /\ arrived = [c \in Collectivities |-> NoPortal]
  /\ crossed = FALSE

(* A request starts: the session is loaded, or is a new one when its       *)
(* record is gone.  FranceConnect has let the person of a callback in.     *)
Begin(r, asked) ==
  LET known == cookie # None /\ store[cookie] # None IN
  /\ req[r] = None
  /\ req' = [req EXCEPT ![r] =
               [asked |-> asked,
                sid |-> IF known THEN cookie ELSE None,
                session |-> IF known THEN store[cookie] ELSE EmptySession]]
  /\ visitor' = IF asked.action = "callback" THEN asked.person ELSE visitor
  /\ arrived' = IF known THEN arrived ELSE [c \in Collectivities |-> NoPortal]
  /\ crossed' = (crossed /\ asked.action # "callback")
  /\ UNCHANGED <<store, retired, browser>>

(* The end of a request: the whole session is written under its sid and    *)
(* the cookie is sent again.  A session without changes may not be written *)
(* (the flash alone can change it).  When the record was destroyed         *)
(* meanwhile the write is lost, or makes a new record.                     *)
Write(s, session) ==
  /\ store' = [store EXCEPT ![s] = session]
  /\ cookie' = s

Save(r, session) ==
  LET s == req[r].sid
      fresh == {f \in Sids \ retired : store[f] = None} IN
  /\ req' = [req EXCEPT ![r] = None]
  /\ \/ s = None /\ \E f \in fresh : Write(f, session)
     \/ s # None /\ store[s] # None /\ Write(s, session)
     \/ s # None /\ session = req[r].session /\ cookie' = s /\ UNCHANGED store
     \/ s \in retired /\ cookie' = s /\ UNCHANGED store
     \/ s \in retired /\ \E f \in fresh : Write(f, session)
  /\ UNCHANGED retired

(* The store when the cookie has another sid than s: unless some of the    *)
(* requests hold s, its record can never be read again and is dropped.     *)
StoreUnlessHeld(requests, s) ==
  [t \in Sids |-> IF t = s /\ \A q \in requests : req[q] # None => req[q].sid # s
                  THEN None ELSE store[t]]

Loaded(r, action) == req[r] # None /\ req[r].asked.action = action

-----------------------------------------------------------------------------
(* CollectivitiesController#show, for an active collectivity.              *)

(* Mutant: the arrival replaces what the other portals passed. *)
ForgetPortals(session, c, passed) ==
  [d \in Collectivities |-> IF d = c THEN passed ELSE NoPortal]

(* Mutant: one value is kept where the portal's two are. *)
MergeFlat(session, c, passed) == [session.portals EXCEPT ![c] = passed.external_id]

(* compact_blank, then deep_merge: a blank parameter erases nothing, and   *)
(* the other portals keep theirs.                                          *)
MergePortal(session, c, passed) ==
  [session.portals EXCEPT ![c] =
     [p \in DOMAIN passed |-> IF passed[p] = None THEN @[p] ELSE passed[p]]]

Passed(asked) ==
  [p \in DOMAIN asked.params |->
     IF asked.params[p] = None THEN None
     ELSE [from |-> asked.collectivity, value |-> asked.params[p]]]

ShowCollectivity(r) ==
  LET asked == req[r].asked
      c == asked.collectivity
      session == req[r].session
      passed == Passed(asked) IN
  /\ Loaded(r, "show")
  /\ IF c \in Active
     THEN /\ Save(r, [session EXCEPT !.siret = c, !.portals = MergePortal(session, c, passed)])
          /\ arrived' = [arrived EXCEPT ![c] =
                           [p \in DOMAIN passed |-> IF passed[p] = None THEN @[p] ELSE passed[p]]]
     ELSE Save(r, session) /\ UNCHANGED arrived
  /\ page' = Plain
  /\ UNCHANGED <<visitor, crossed>>

-----------------------------------------------------------------------------
(* SessionsController.                                                     *)

(* Mutant: the quotient familial of the session is not deleted first. *)
KeepQuotient(session, person) == [session EXCEPT !.identity = person]

(* The identity and its tokens, without the quotient of the one before.    *)
LogIn(session, person) ==
  [session EXCEPT !.identity = person, !.quotient_familial = None]

(* create: API Particulier answers, with a quotient familial or with an    *)
(* error, and the parent is sent to a page of session[:siret]. Only the    *)
(* error's detail tells it from a quotient.                                *)
CreateSession(r) ==
  LET person == req[r].asked.person
      session == LogIn(req[r].session, person) IN
  /\ Loaded(r, "callback")
  /\ session.siret # None
  /\ \/ \E kind \in Kinds :
          Save(r, [session EXCEPT !.quotient_familial = [of |-> person, kind |-> kind]])
     \/ Save(r, session)
  /\ page' = Plain
  /\ UNCHANGED history

(* A request that raises ends with a 500 and writes nothing. *)
Raise(r) ==
  /\ req' = [req EXCEPT ![r] = None]
  /\ page' = Plain
  /\ store' = IF req[r].sid = cookie THEN store ELSE StoreUnlessHeld(Requests \ {r}, req[r].sid)
  /\ UNCHANGED <<retired, cookie, history>>

(* Without a siret the redirection raises; so does an API Particulier that *)
(* cannot be reached or whose answer is not what it should be, and an      *)
(* identity whose birth date is not a date.                                *)
CreateSessionRaises(r) ==
  /\ Loaded(r, "callback")
  /\ req[r].session.siret = None \/ MayRaise
  /\ Raise(r)

(* The parent is logged out, whatever the site has kept. *)
Leave(r) ==
  /\ page' = Plain
  /\ visitor' = None
  /\ crossed' = (\E q \in Requests \ {r} : req[q] # None)
  /\ UNCHANGED arrived

(* Mutant: the session is kept. *)
LogOutOfFranceConnect(r) ==
  /\ Loaded(r, "logout")
  /\ Save(r, req[r].session)
  /\ Leave(r)

(* destroy: reset_session. The browser is left with an empty session.      *)
DestroySession(r) ==
  LET s == req[r].sid IN
  /\ Loaded(r, "logout")
  /\ store' = [t \in Sids |-> IF t = s THEN None ELSE store[t]]
  /\ retired' = IF s = None THEN retired ELSE retired \cup {s}
  /\ cookie' = None
  /\ req' = [req EXCEPT ![r] = None]
  /\ Leave(r)

-----------------------------------------------------------------------------
(* ShipmentsController, for the collectivity of the URL, active or not.    *)

(* Mutant: the portal of the last collectivity visited. *)
PortalOfSiret(session, c) ==
  IF session.siret = None THEN NoPortal ELSE session.portals[session.siret]

(* SetupCurrentData: the portal's values for the current collectivity; the *)
(* return link is only kept if it is a link.                               *)
CurrentPortal(session, c) == session.portals[c]

RedirectUri(portal) ==
  IF portal.redirect_uri # None /\ portal.redirect_uri.value \in Links
  THEN portal.redirect_uri ELSE None

(* Mutant: the pages read an error as a quotient without a value. *)
NothingIsUnusable(session) == FALSE

(* The pages and ShipmentData look up in the quotient familial what an     *)
(* error does not have.                                                    *)
Unusable(session) ==
  session.quotient_familial # None /\ session.quotient_familial.kind = "error"

(* new and create send the parent back without a quotient familial.        *)
Answers(r, kind, portal_value) ==
  LET session == req[r].session IN
  /\ kind # "confirmation" => ~ Unusable(session)
  /\ Save(r, session)
  /\ page' = IF kind # "confirmation" /\ session.quotient_familial = None
             THEN Plain
             ELSE [kind |-> kind,
                   identity |-> session.identity,
                   quotient_familial |-> session.quotient_familial,
                   collectivity |-> req[r].asked.collectivity,
                   portal_value |-> portal_value]
  /\ UNCHANGED history

NewShipment(r) ==
  /\ Loaded(r, "new")
  /\ Answers(r, "new", None)

(* StoreQuotientFamilial is HubEESending; its data are the session's as it *)
(* was loaded.                                                             *)
CreateShipment(r) ==
  /\ Loaded(r, "create")
  /\ Answers(r, "sent", CurrentPortal(req[r].session, req[r].asked.collectivity).external_id)

(* show: the link back to the portal.                                      *)
ShowShipment(r) ==
  /\ Loaded(r, "confirmation")
  /\ Answers(r, "confirmation",
             RedirectUri(CurrentPortal(req[r].session, req[r].asked.collectivity)))

(* new and create with an error, show with an unknown reference.           *)
ShipmentsRaise(r) ==
  /\ \/ Loaded(r, "confirmation")
     \/ (Loaded(r, "new") \/ Loaded(r, "create")) /\ Unusable(req[r].session)
  /\ Raise(r)

-----------------------------------------------------------------------------
(* The cookie expires, or the browser is closed. *)
CookieExpires ==
  /\ cookie # None
  /\ cookie' = None
  /\ store' = StoreUnlessHeld(Requests, cookie)
  /\ UNCHANGED <<retired, req, page, history>>

End(r) ==
  \/ ShowCollectivity(r)
  \/ CreateSession(r)
  \/ CreateSessionRaises(r)
  \/ DestroySession(r)
  \/ NewShipment(r)
  \/ CreateShipment(r)
  \/ ShowShipment(r)
  \/ ShipmentsRaise(r)

Next ==
  \/ \E r \in Requests : End(r) \/ \E asked \in Asked : Begin(r, asked)
  \/ CookieExpires

Spec == Init /\ [][Next]_vars

(* A request that was started ends. *)
FairSpec == Spec /\ \A r \in Requests : WF_vars(End(r))

-----------------------------------------------------------------------------
(* Properties.                                                             *)

(* Type invariant of the session records and of the requests' copies.      *)
TypeOK ==
  /\ store \in [Sids -> Session \cup {None}]
  /\ retired \subseteq Sids
  /\ cookie \in Sids \cup {None}
  /\ req \in [Requests -> Request \cup {None}]
  /\ page \in Page
  /\ visitor \in Persons \cup {None}
  /\ arrived \in [Collectivities -> Portal]
  /\ crossed \in BOOLEAN

(* However requests overlap and overwrite each other's sessions, a session *)
(* never holds the quotient familial of one person with the identity of    *)
(* another, nor a quotient without an identity.                            *)
OneParent(x) == x.quotient_familial # None => x.quotient_familial.of = x.identity

SessionsAreOfOneParent == \A s \in Sids : store[s] # None => OneParent(store[s])

(* What a folder carries to a collectivity is of one parent, is never an   *)
(* error that the session holds in place of a quotient, and the file       *)
(* number and the return link were passed by that collectivity's own       *)
(* portal: they do not follow the parent to another one.                   *)
PagesAreOfOneParentAndPortal ==
  /\ page.kind \in {"new", "sent"} =>
       page.quotient_familial # None /\ page.quotient_familial.kind = "quotient" /\ OneParent(page)
  /\ page.portal_value # None => page.portal_value.from = page.collectivity

(* A logout that met no other request lasts, in every tab and whatever     *)
(* requests follow: until FranceConnect lets somebody in again, neither    *)
(* the browser's session nor what a request has loaded is anybody's. (A    *)
(* request under way at the logout writes its session back.)               *)
Nobodys(session) == session.identity = None /\ session.quotient_familial = None

LogoutIsKept ==
  visitor = None /\ ~ crossed =>
    /\ cookie # None /\ store[cookie] # None => Nobodys(store[cookie])
    /\ \A r \in Requests : req[r] # None => Nobodys(req[r].session)

(* On a browser used for one thing at a time, a quotient familial is shown *)
(* and sent only while the person it belongs to is the last one that       *)
(* FranceConnect let in: not after a logout, not to the next parent.       *)
OnlyOwnQuotientIsUsed ==
  [][page' # page /\ page'.kind \in {"new", "sent"} =>
       page'.quotient_familial.of = visitor]_vars

(* On a browser used for one thing at a time, the file number sent and the *)
(* return link offered are the last non-blank ones the collectivity's      *)
(* portal passed, whatever pages and portals came between.                 *)
PortalValuesAreKept ==
  [][/\ page' # page
     => /\ page'.kind = "sent" =>
             page'.portal_value = arrived[page'.collectivity].external_id
        /\ page'.kind = "confirmation" =>
             page'.portal_value = RedirectUri(arrived[page'.collectivity])]_vars
=============================================================================
