------------------------------ MODULE Accounts ------------------------------
(***************************************************************************)
(* A person's account: the row of users, the sessions of its browsers      *)
(* (sessions.py), its API keys, and its subscription, which Stripe keeps   *)
(* and tells the server about by webhooks (auth.py) in any order, again    *)
(* and again until they are answered with success, and once more at times. *)
(*                                                                         *)
(* Handlers run on the event loop without giving way: each is one step.    *)
(* Only a registration waits, for Keycloak, between its two.  Keycloak and *)
(* Stripe are what the code makes of them; profile data are left out.      *)
(***************************************************************************)
EXTENDS Naturals, FiniteSets

CONSTANTS
    Browsers,
    Customers,   \* the ids Stripe gives: a new one at every checkout
    Keys,        \* ids of API keys
    MaxEvent,    \* events Stripe ever sends (a bound of the model)
    None

ASSUME BoundAssumption == MaxEvent \in Nat

VARIABLES
    known,        \* Keycloak has an account for the person
    registering,  \* a registration waits for Keycloak
    row,          \* of the table users
    keys,         \* the table api_keys: whether a key is active
    sessions,     \* SESSIONS: what the tokens of a browser are worth
    subs,         \* Stripe: the subscription of each customer
    events,       \* Stripe: what it still has to deliver
    sent,         \* Stripe: how many events it has made
    latest,       \* history: the newest event of a subscription delivered
    regular       \* history: see TierFollows

vars == <<known, registering, row, keys, sessions, subs, events, sent, latest, regular>>
person == <<known, registering>>
stripe == <<subs, events, sent>>
history == <<latest, regular>>

\* "other" is a price the server was not told of.
Prices == {"basic", "founder", "other"}
TierOf == [basic |-> 1, founder |-> 9, other |-> 0]
CreditsOf == [basic |-> 500, founder |-> 5000]
Priced(p) == p \in DOMAIN CreditsOf      \* PRICE_ID_TO_TIER

Users == [tier : {0, 1, 9}, customer : Customers \cup {None}, credits : {50, 500, 5000}]
NewUser == [tier |-> 0, customer |-> None, credits |-> 50]
\* The access token is good, or expired, or the refresh token is no good either.
Tokens == {"fresh", "expired", "spent"}
\* Stripe's subscription, with every price it ever had, paid for or not.
Subscriptions == [price : Prices, status : {"active", "past_due", "canceled"},
                  had : SUBSET Prices]

ASSUME NoneAssumption ==
    None \notin Customers /\ None \notin Users /\ None \notin Subscriptions /\ None \notin BOOLEAN

Events == [no : 1..MaxEvent, type : {"checkout", "updated", "deleted", "invoice"},
           customer : Customers, price : Prices]

TypeOK ==
    /\ known \in BOOLEAN /\ registering \in BOOLEAN
    /\ row \in Users \cup {None}
    /\ keys \in [Keys -> BOOLEAN \cup {None}]
    /\ sessions \in [Browsers -> Tokens \cup {None}]
    /\ subs \in [Customers -> Subscriptions \cup {None}]
    /\ events \subseteq Events
    /\ sent \in 0..MaxEvent /\ latest \in 0..MaxEvent
    /\ regular \in BOOLEAN

Init ==
    /\ known = FALSE /\ registering = FALSE
    /\ row = None
    /\ keys = [k \in Keys |-> None]
    /\ sessions = [b \in Browsers |-> None]
    /\ subs = [c \in Customers |-> None]
    /\ events = {} /\ sent = 0
    /\ latest = 0 /\ regular = TRUE

-----------------------------------------------------------------------------
\* Registration and login.

Register ==
    /\ ~known /\ ~registering
    /\ known' = TRUE /\ registering' = TRUE
    /\ UNCHANGED <<row, keys, sessions, stripe, history>>

\* (whoever is there already starts anew)
RegisteredAnew ==
    /\ registering
    /\ registering' = FALSE
    /\ row' = NewUser
    /\ UNCHANGED <<known, keys, sessions, stripe, history>>

\* The mail was sent.  If the person has logged in meanwhile, the INSERT fails
\* on the primary key.
Registered ==
    /\ registering
    /\ registering' = FALSE
    /\ row' = IF row = None THEN NewUser ELSE row
    /\ UNCHANGED <<known, keys, sessions, stripe, history>>

UserRow == IF row = None THEN NewUser ELSE row

Active(c) == subs[c] # None /\ subs[c].status = "active"

\* _sync_user_subscription_status: by the active subscription of the row's
\* customer; a price that is not known leaves the tier as it is.
Synced(user) ==
    IF user.customer # None /\ Active(user.customer)
      THEN IF Priced(subs[user.customer].price)
             THEN [user EXCEPT !.tier = TierOf[subs[user.customer].price]]
             ELSE user
      ELSE [user EXCEPT !.tier = 0]

\* A browser that has a session gets another one.  If Stripe cannot be reached
\* the tier stays.
Login(b) ==
    /\ known
    /\ row' \in {UserRow, Synced(UserRow)}
    /\ sessions' = [sessions EXCEPT ![b] = "fresh"]
    /\ UNCHANGED <<person, keys, stripe, history>>

\* google_callback: Keycloak makes the account; the subscription is not looked at.
LoginWithGoogle(b) ==
    /\ known' = TRUE
    /\ row' = UserRow
    /\ sessions' = [sessions EXCEPT ![b] = "fresh"]
    /\ UNCHANGED <<registering, keys, stripe, history>>

Logout(b) ==
    /\ sessions' = [sessions EXCEPT ![b] = None]
    /\ UNCHANGED <<person, row, keys, stripe, history>>

-----------------------------------------------------------------------------
\* Requests of a browser that is logged in.

\* get_user_and_tokens: an expired token is refreshed, a missing row made.
Authenticated(b) ==
    /\ sessions[b] \in {"fresh", "expired"}
    /\ sessions' = [sessions EXCEPT ![b] = "fresh"]

Request(b) ==
    /\ Authenticated(b)
    /\ row' = UserRow
    /\ UNCHANGED <<person, keys, stripe, history>>

\* The refresh token is no good, or Keycloak does not answer.
RequestRefused(b) ==
    /\ sessions[b] # None
    /\ sessions' = [sessions EXCEPT ![b] = None]
    /\ UNCHANGED <<person, row, keys, stripe, history>>

TokenExpires(b, worth) ==
    /\ sessions[b] \in {"fresh", "expired"} /\ worth \in Tokens \ {"fresh"}
    /\ sessions' = [sessions EXCEPT ![b] = worth]
    /\ UNCHANGED <<person, row, keys, stripe, history>>

CreateKey(b, k) ==
    /\ Authenticated(b)
    /\ keys[k] = None
    /\ row' = UserRow
    /\ keys' = [keys EXCEPT ![k] = TRUE]
    /\ UNCHANGED <<person, stripe, history>>

\* (by a database that does not mind)
GenerateOrphan(k) ==
    /\ keys[k] = None
    /\ keys' = [keys EXCEPT ![k] = TRUE]
    /\ UNCHANGED <<person, row, sessions, stripe, history>>

\* The button of an account page of any age, which asks for no session; a user
\* that is not there fails on the foreign key.
GenerateKey(k) ==
    /\ row # None
    /\ keys[k] = None
    /\ keys' = [keys EXCEPT ![k] = TRUE]
    /\ UNCHANGED <<person, row, sessions, stripe, history>>

ToggleKey(b, k) ==
    /\ Authenticated(b)
    /\ row' = UserRow
    /\ keys' = [keys EXCEPT ![k] = IF @ = None THEN None ELSE ~@]
    /\ UNCHANGED <<person, stripe, history>>

DeleteKey(b, k) ==
    /\ Authenticated(b)
    /\ row' = UserRow
    /\ keys' = [keys EXCEPT ![k] = None]
    /\ UNCHANGED <<person, stripe, history>>

-----------------------------------------------------------------------------
\* Stripe.

Send(type, c, price) ==
    /\ sent < MaxEvent
    /\ sent' = sent + 1
    /\ events' = events \cup {[no |-> sent + 1, type |-> type, customer |-> c, price |-> price]}

\* The person pays, by a link with the user's id in it.  A second checkout makes
\* a second customer, with a subscription of its own.
Checkout(c, price) ==
    /\ row # None
    /\ subs[c] = None
    /\ subs' = [subs EXCEPT ![c] = [price |-> price, status |-> "active", had |-> {price}]]
    /\ Send("checkout", c, price)
    /\ regular' = (regular /\ \A d \in Customers : subs[d] = None)
    /\ UNCHANGED <<person, row, keys, sessions, latest>>

\* Another price, a payment that fails or is made up for.
Changes(c, price, status) ==
    /\ subs[c] # None /\ subs[c].status # "canceled"
    /\ status # "canceled" /\ <<price, status>> # <<subs[c].price, subs[c].status>>
    /\ subs' = [subs EXCEPT ![c].price = price, ![c].status = status, ![c].had = @ \cup {price}]
    /\ Send("updated", c, price)
    /\ UNCHANGED <<person, row, keys, sessions, history>>

Ended(c) ==
    /\ subs' = [subs EXCEPT ![c].status = "canceled"]
    /\ Send("deleted", c, subs[c].price)

\* The period is over and was not to be renewed.
PeriodEnds(c) ==
    /\ subs[c] # None /\ subs[c].status # "canceled"
    /\ Ended(c)
    /\ UNCHANGED <<person, row, keys, sessions, history>>

Invoice(c) ==
    /\ Active(c)
    /\ Send("invoice", c, subs[c].price)
    /\ UNCHANGED <<person, row, keys, sessions, subs, history>>

\* cancel_subscription: Stripe is told not to renew; what it sends of that has
\* the price it had.
CancelSubscription(b) ==
    /\ Authenticated(b)
    /\ row' = UserRow
    /\ row'.customer # None /\ Active(row'.customer)
    /\ Send("updated", row'.customer, subs[row'.customer].price)
    /\ UNCHANGED <<person, keys, subs, history>>

\* delete_account: ends the subscription if Stripe can be reached, and the row,
\* its keys and this browser's session with it.
DeleteAccount(b) ==
    /\ sessions[b] \in {"fresh", "expired"}
    /\ LET c == UserRow.customer
       IN  \/ c # None /\ Active(c) /\ Ended(c)
           \/ UNCHANGED stripe
    /\ row' = None
    /\ keys' = [k \in Keys |-> None]
    /\ sessions' = [sessions EXCEPT ![b] = None]
    /\ regular' = FALSE
    /\ UNCHANGED <<person, latest>>

-----------------------------------------------------------------------------
\* stripe_webhook: by the type of the event.

\* (the tier is taken for the credits)
CheckedOutBlind(e) ==
    IF row = None THEN row
    ELSE [tier |-> TierOf[e.price], customer |-> e.customer, credits |-> TierOf[e.price]]

CheckedOut(e) ==
    IF row = None THEN row
    ELSE [tier |-> TierOf[e.price], customer |-> e.customer, credits |-> CreditsOf[e.price]]

\* (for the user, whoever the customer is)
UpdatedAnyone(e) ==
    IF row = None THEN row
    ELSE [row EXCEPT !.tier = IF e.type = "deleted" THEN 0 ELSE TierOf[e.price]]

Updated(e) ==
    IF row = None \/ row.customer # e.customer THEN row
    ELSE [row EXCEPT !.tier = IF e.type = "deleted" THEN 0 ELSE TierOf[e.price]]

Paid(e) ==
    IF row = None \/ row.customer # e.customer \/ ~Priced(e.price) THEN row
    ELSE [row EXCEPT !.credits = CreditsOf[e.price]]

Apply(e) ==
    CASE e.type = "checkout" -> CheckedOut(e)
      [] e.type \in {"updated", "deleted"} -> Updated(e)
      [] e.type = "invoice" -> Paid(e)

\* The answer is success, and Stripe has done with the event, unless it sends it
\* once more all the same.  A checkout of a price that is not known is refused,
\* and so sent for ever.
Webhook(e) ==
    /\ e \in events
    /\ e.type = "checkout" => Priced(e.price)
    /\ row' = Apply(e)
    /\ events' \in {events, events \ {e}}
    /\ IF e.type = "invoice" THEN UNCHANGED history
         ELSE /\ latest' = IF e.no > latest THEN e.no ELSE latest
              /\ regular' = (regular /\ row # None /\ e.no >= latest)
    /\ UNCHANGED <<person, keys, sessions, subs, sent>>

-----------------------------------------------------------------------------
\* The server.

\* The sessions file is written whole after every change; a crash meanwhile
\* leaves one that cannot be read.
Crash ==
    /\ registering' = FALSE
    /\ sessions' \in {sessions, [b \in Browsers |-> None]}
    /\ UNCHANGED <<known, row, keys, stripe, history>>

-----------------------------------------------------------------------------
\* The specification.

Browser(b) ==
    \/ Login(b) \/ LoginWithGoogle(b) \/ Logout(b) \/ Request(b) \/ RequestRefused(b)
    \/ CancelSubscription(b) \/ DeleteAccount(b)
    \/ \E worth \in Tokens : TokenExpires(b, worth)
    \/ \E k \in Keys : CreateKey(b, k) \/ ToggleKey(b, k) \/ DeleteKey(b, k)

Stripe(c) ==
    \/ PeriodEnds(c) \/ Invoice(c)
    \/ \E price \in Prices :
          \/ Checkout(c, price)
          \/ \E status \in {"active", "past_due"} : Changes(c, price, status)

Next ==
    \/ Register \/ Registered \/ Crash
    \/ \E k \in Keys : GenerateKey(k)
    \/ \E b \in Browsers : Browser(b)
    \/ \E c \in Customers : Stripe(c)
    \/ \E e \in events : Webhook(e)

Spec == Init /\ [][Next]_vars

-----------------------------------------------------------------------------
\* Properties.

\* Whatever Stripe sends late, twice or of a customer that was replaced: the tier
\* is of a price that the subscription of the row's own customer had at some time,
\* never of another's subscription or of none.  That it was paid for is not said:
\* the webhook of an update looks at the status only for "canceled", so that a new
\* price counts at once, and also when its payment has failed.
TierIsOwn ==
    row # None /\ row.tier > 0 =>
        /\ row.customer # None /\ subs[row.customer] # None
        /\ \E p \in subs[row.customer].had : Priced(p) /\ TierOf[p] = row.tier

\* If the person paid by one checkout, has an account that stays, and Stripe's
\* events of it came in their order: once all have come the tier is that of the
\* subscription, whatever logins did to it on the way.
TierFollows ==
    regular /\ row # None /\ (\A e \in events : e.type = "invoice") =>
        \A c \in Customers : subs[c] # None =>
            \/ subs[c].status = "active" /\ row.tier = TierOf[subs[c].price]
            \/ subs[c].status = "canceled" /\ row.tier = 0
            \/ subs[c].status = "past_due"

\* No key is left of an account that is gone, for the next of that id to find.
KeysHaveUser == (\E k \in Keys : keys[k] # None) => row # None
=============================================================================
