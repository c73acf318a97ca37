--------------------------- MODULE AccountsProofs ---------------------------
(***************************************************************************)
(* Proofs about Accounts, for every number of browsers, customers, keys    *)
(* and events.                                                             *)
(***************************************************************************)
EXTENDS Accounts, TLAPS

USE NoneAssumption, BoundAssumption
USE DEF person, stripe, history

LEMMA PriceFacts ==
    /\ \A p \in Prices : TierOf[p] \in {0, 1, 9} /\ (TierOf[p] > 0 => Priced(p))
    /\ \A p \in Prices : Priced(p) => CreditsOf[p] \in {500, 5000}
BY DEF Prices, TierOf, CreditsOf, Priced

-----------------------------------------------------------------------------
\* What users become.

\* The subscription of u's customer had a price of u's tier at some time.
TierHad(u) ==
    u.tier > 0 =>
        /\ u.customer # None /\ subs[u.customer] # None
        /\ \E p \in subs[u.customer].had : Priced(p) /\ TierOf[p] = u.tier

\* Every price Stripe has, or has told, is one that the subscription had.
Chosen ==
    /\ \A c \in Customers : subs[c] # None => subs[c].price \in subs[c].had
    /\ \A e \in events : subs[e.customer] # None /\ e.price \in subs[e.customer].had

LEMMA UserRowKeeps ==
    ASSUME TypeOK, TierIsOwn
    PROVE  /\ UserRow \in Users /\ TierHad(UserRow)
           /\ row # None => UserRow = row
<1>1. CASE row = None
  BY <1>1 DEF UserRow, NewUser, Users, TierHad
<1>2. CASE row # None
  BY <1>2 DEF UserRow, TierIsOwn, TierHad, TypeOK
<1> QED BY <1>1, <1>2

LEMMA SyncKeeps ==
    ASSUME TypeOK, Chosen, NEW u \in Users, TierHad(u)
    PROVE  /\ Synced(u) \in Users /\ TierHad(Synced(u))
           /\ Synced(u).customer = u.customer
<1>1. CASE u.customer # None /\ Active(u.customer) /\ Priced(subs[u.customer].price)
  <2> DEFINE c == u.customer
             p == subs[c].price
  <2>1. c \in Customers /\ subs[c] # None
    BY <1>1 DEF Users, Active
  <2>2. p \in Prices /\ p \in subs[c].had
    BY <2>1 DEF TypeOK, Subscriptions, Chosen
  <2>3. Synced(u) = [u EXCEPT !.tier = TierOf[p]]
    BY <1>1 DEF Synced
  <2>4. TierOf[p] \in {0, 1, 9}
    BY <2>2, PriceFacts
  <2>5. Synced(u) \in Users
    BY <2>3, <2>4 DEF Users
  <2>6. Synced(u).tier = TierOf[p] /\ Synced(u).customer = c
    BY <2>3 DEF Users
  <2> HIDE DEF c, p
  <2>7. TierHad(Synced(u))
    BY <1>1, <2>1, <2>2, <2>6 DEF TierHad, c, p
  <2> QED BY <2>5, <2>6, <2>7 DEF c
<1>2. CASE u.customer # None /\ Active(u.customer) /\ ~Priced(subs[u.customer].price)
  BY <1>2 DEF Synced
<1>3. CASE ~(u.customer # None /\ Active(u.customer))
  BY <1>3 DEF Synced, Users, TierHad
<1> QED BY <1>1, <1>2, <1>3

\* What a webhook makes of the row.
LEMMA ApplyKeeps ==
    ASSUME TypeOK, Chosen, TierIsOwn,
           NEW e \in events, e.type = "checkout" => Priced(e.price)
    PROVE  /\ row = None => Apply(e) = None
           /\ row # None => Apply(e) \in Users /\ TierHad(Apply(e))
<1>1. e \in Events /\ subs[e.customer] # None /\ e.price \in subs[e.customer].had
  BY DEF TypeOK, Chosen
<1>2. /\ e.type \in {"checkout", "updated", "deleted", "invoice"}
      /\ e.customer \in Customers /\ e.price \in Prices
  BY <1>1 DEF Events
<1>3. TierOf[e.price] \in {0, 1, 9} /\ (TierOf[e.price] > 0 => Priced(e.price))
  BY <1>2, PriceFacts
<1>4. Priced(e.price) => CreditsOf[e.price] \in {500, 5000}
  BY <1>2, PriceFacts
<1>5. row # None => row \in Users /\ TierHad(row)
  BY DEF TypeOK, TierIsOwn, TierHad
<1>6. CASE row = None
  BY <1>2, <1>6 DEF Apply, CheckedOut, Updated, Paid
<1>7. CASE row # None /\ e.type = "checkout"
  <2>1. Apply(e) = [tier |-> TierOf[e.price], customer |-> e.customer,
                    credits |-> CreditsOf[e.price]]
    BY <1>7 DEF Apply, CheckedOut
  <2>2. Apply(e) \in Users
    BY <1>2, <1>3, <1>4, <1>7, <2>1 DEF Users
  <2>3. TierHad(Apply(e))
    BY <1>1, <1>2, <1>3, <2>1 DEF TierHad
  <2> QED BY <1>7, <2>2, <2>3
<1>8. CASE row # None /\ e.type \in {"updated", "deleted"}
  <2>1. Apply(e) = IF row.customer # e.customer THEN row
                   ELSE [row EXCEPT !.tier = IF e.type = "deleted" THEN 0 ELSE TierOf[e.price]]
    BY <1>8 DEF Apply, Updated
  <2>2. CASE row.customer # e.customer
    BY <1>5, <1>8, <2>1, <2>2
  <2>3. CASE row.customer = e.customer
    <3>1. Apply(e) \in Users /\ Apply(e).customer = e.customer
          /\ Apply(e).tier \in {0, TierOf[e.price]}
      BY <1>3, <1>5, <1>8, <2>1, <2>3 DEF Users
    <3>2. TierHad(Apply(e))
      BY <1>1, <1>2, <1>3, <3>1 DEF TierHad
    <3> QED BY <1>8, <3>1, <3>2
  <2> QED BY <2>2, <2>3
<1>9. CASE row # None /\ e.type = "invoice"
  <2>1. Apply(e) = IF row.customer # e.customer \/ ~Priced(e.price) THEN row
                   ELSE [row EXCEPT !.credits = CreditsOf[e.price]]
    BY <1>9 DEF Apply, Paid
  <2>2. /\ Apply(e) \in Users
        /\ Apply(e).tier = row.tier /\ Apply(e).customer = row.customer
    BY <1>4, <1>5, <1>9, <2>1 DEF Users
  <2>3. TierHad(Apply(e))
    BY <1>5, <1>9, <2>2 DEF TierHad
  <2> QED BY <1>9, <2>2, <2>3
<1> QED BY <1>2, <1>6, <1>7, <1>8, <1>9

-----------------------------------------------------------------------------
\* What a user may have, and what keys there are.

IInv == TypeOK /\ TierIsOwn /\ KeysHaveUser /\ Chosen

LEMMA InitHolds == Init => IInv
<1> SUFFICES ASSUME Init PROVE IInv
  OBVIOUS
<1>1. /\ keys \in [Keys -> BOOLEAN \cup {None}]
      /\ sessions \in [Browsers -> Tokens \cup {None}]
      /\ subs \in [Customers -> Subscriptions \cup {None}]
      /\ sent \in 0..MaxEvent /\ latest \in 0..MaxEvent
  BY DEF Init
<1>2. TypeOK
  BY <1>1 DEF Init, TypeOK
<1>3. TierIsOwn /\ KeysHaveUser /\ Chosen
  BY DEF Init, TierIsOwn, KeysHaveUser, Chosen
<1> QED BY <1>2, <1>3 DEF IInv

\* A step that sends nothing and leaves Stripe's subscriptions alone.
LEMMA QuietKeeps ==
    ASSUME IInv, UNCHANGED stripe, TypeOK',
           row' # None => TierHad(row'),
           (\E k \in Keys : keys'[k] # None) => row' # None
    PROVE  IInv'
<1>1. TierIsOwn'
  BY DEF TierIsOwn, TierHad
<1>2. KeysHaveUser' /\ Chosen'
  BY DEF IInv, KeysHaveUser, Chosen
<1> QED BY <1>1, <1>2 DEF IInv

\* One that sends an event about a subscription and what it has become: nothing
\* of what was bought is forgotten.
LEMMA SendKeeps ==
    ASSUME IInv, NEW type \in {"checkout", "updated", "deleted", "invoice"},
           NEW c \in Customers, NEW price \in Prices,
           Send(type, c, price),
           subs' \in [Customers -> Subscriptions \cup {None}],
           \A d \in Customers : subs[d] # None =>
                subs'[d] # None /\ subs[d].had \subseteq subs'[d].had,
           \A d \in Customers : subs'[d] # None => subs'[d].price \in subs'[d].had,
           subs'[c] # None /\ price \in subs'[c].had,
           row' = None \/ (row' \in Users /\ TierHad(row')),
           sessions' \in [Browsers -> Tokens \cup {None}],
           keys' \in [Keys -> BOOLEAN \cup {None}],
           (\E k \in Keys : keys'[k] # None) => row' # None,
           UNCHANGED person, latest' = latest, regular' \in BOOLEAN
    PROVE  IInv'
<1>1. sent' \in 0..MaxEvent /\ events' \subseteq Events
  <2>1. sent' = sent + 1 /\ sent < MaxEvent
    BY DEF Send
  <2>2. [no |-> sent + 1, type |-> type, customer |-> c, price |-> price] \in Events
    BY <2>1 DEF IInv, TypeOK, Events
  <2> QED BY <2>1, <2>2 DEF Send, IInv, TypeOK
<1>2. TypeOK'
  BY <1>1 DEF IInv, TypeOK
<1>3. Chosen'
  <2> SUFFICES ASSUME NEW e \in events'
               PROVE  subs'[e.customer] # None /\ e.price \in subs'[e.customer].had
    BY DEF Chosen
  <2>1. CASE e \in events
    <3>1. e.customer \in Customers
      BY <2>1 DEF IInv, TypeOK, Events
    <3> QED BY <2>1, <3>1 DEF IInv, Chosen
  <2>2. CASE e = [no |-> sent + 1, type |-> type, customer |-> c, price |-> price]
    BY <2>2
  <2> QED BY <2>1, <2>2 DEF Send
<1>4. TierIsOwn'
  <2> SUFFICES ASSUME row' # None, row'.tier > 0
               PROVE  /\ row'.customer # None /\ subs'[row'.customer] # None
                      /\ \E p \in subs'[row'.customer].had : Priced(p) /\ TierOf[p] = row'.tier
    BY DEF TierIsOwn
  <2>1. /\ row'.customer # None /\ subs[row'.customer] # None
        /\ \E p \in subs[row'.customer].had : Priced(p) /\ TierOf[p] = row'.tier
    BY DEF TierHad
  <2>2. row'.customer \in Customers
    BY <2>1 DEF Users
  <2> QED BY <2>1, <2>2
<1> QED BY <1>2, <1>3, <1>4 DEF IInv, KeysHaveUser

LEMMA EndedKeeps ==
    ASSUME IInv, NEW c \in Customers, subs[c] # None, Ended(c),
           row' = None \/ (row' \in Users /\ TierHad(row')),
           sessions' \in [Browsers -> Tokens \cup {None}],
           keys' \in [Keys -> BOOLEAN \cup {None}],
           (\E k \in Keys : keys'[k] # None) => row' # None,
           UNCHANGED person, latest' = latest, regular' \in BOOLEAN
    PROVE  IInv'
<1>1. subs[c] \in Subscriptions /\ subs[c].price \in Prices /\ subs[c].price \in subs[c].had
  BY DEF IInv, TypeOK, Chosen, Subscriptions
<1>2. /\ subs' = [subs EXCEPT ![c] = [@ EXCEPT !.status = "canceled"]]
      /\ Send("deleted", c, subs[c].price)
  BY DEF Ended
<1>3. subs' \in [Customers -> Subscriptions \cup {None}]
      /\ subs'[c] \in Subscriptions
      /\ subs'[c].had = subs[c].had /\ subs'[c].price = subs[c].price
  BY <1>1, <1>2 DEF IInv, TypeOK, Subscriptions
<1>4. \A d \in Customers : d # c => subs'[d] = subs[d]
  BY <1>2 DEF IInv, TypeOK
<1>5. \A d \in Customers : subs[d] # None =>
          subs'[d] # None /\ subs[d].had \subseteq subs'[d].had
  BY <1>3, <1>4
<1>6. \A d \in Customers : subs'[d] # None => subs'[d].price \in subs'[d].had
  BY <1>1, <1>3, <1>4 DEF IInv, Chosen
<1> QED
  BY <1>1, <1>2, <1>3, <1>5, <1>6, SendKeeps

\* Steps of a browser, which has a row afterwards unless it deletes it.
LEMMA BrowserKeeps ==
    ASSUME IInv, NEW b \in Browsers, Browser(b)
    PROVE  IInv'
<1> USE DEF IInv
<1>1. UserRow \in Users /\ TierHad(UserRow) /\ (row # None => UserRow = row)
  BY UserRowKeeps
<1>2. Synced(UserRow) \in Users /\ TierHad(Synced(UserRow))
  BY <1>1, SyncKeeps
<1>3. ASSUME UNCHANGED stripe, row' \in {UserRow, Synced(UserRow)}
      PROVE  row' \in Users /\ row' # None /\ TierHad(row')
  BY <1>1, <1>2, <1>3 DEF TierHad
<1>4. ASSUME Authenticated(b)
      PROVE  sessions' \in [Browsers -> Tokens \cup {None}]
  BY <1>4 DEF Authenticated, TypeOK, Tokens
<1>5. CASE Login(b) \/ LoginWithGoogle(b)
  <2>1. sessions' \in [Browsers -> Tokens \cup {None}]
    BY <1>5 DEF Login, LoginWithGoogle, TypeOK, Tokens
  <2>2. row' \in Users /\ row' # None /\ TierHad(row')
    BY <1>3, <1>5 DEF Login, LoginWithGoogle
  <2>3. TypeOK'
    BY <1>5, <2>1, <2>2 DEF Login, LoginWithGoogle, TypeOK
  <2> QED BY <1>5, <2>2, <2>3, QuietKeeps DEF Login, LoginWithGoogle, TierHad
<1>6. CASE Logout(b) \/ RequestRefused(b)
  <2>1. TypeOK'
    BY <1>6 DEF Logout, RequestRefused, TypeOK
  <2> QED BY <1>6, <2>1, QuietKeeps DEF Logout, RequestRefused, TierIsOwn, TierHad, KeysHaveUser
<1>7. CASE \E worth \in Tokens : TokenExpires(b, worth)
  <2>1. TypeOK'
    BY <1>7 DEF TokenExpires, TypeOK
  <2> QED BY <1>7, <2>1, QuietKeeps DEF TokenExpires, TierIsOwn, TierHad, KeysHaveUser
<1>8. CASE Request(b) \/ \E k \in Keys : CreateKey(b, k) \/ ToggleKey(b, k) \/ DeleteKey(b, k)
  <2>1. row' \in Users /\ row' # None /\ TierHad(row')
    BY <1>3, <1>8 DEF Request, CreateKey, ToggleKey, DeleteKey
  <2>2. sessions' \in [Browsers -> Tokens \cup {None}]
    BY <1>4, <1>8 DEF Request, CreateKey, ToggleKey, DeleteKey
  <2>3. keys' \in [Keys -> BOOLEAN \cup {None}]
    BY <1>8 DEF Request, CreateKey, ToggleKey, DeleteKey, TypeOK
  <2>4. TypeOK'
    BY <1>8, <2>1, <2>2, <2>3 DEF Request, CreateKey, ToggleKey, DeleteKey, TypeOK
  <2> QED BY <1>8, <2>1, <2>4, QuietKeeps DEF Request, CreateKey, ToggleKey, DeleteKey, TierHad
<1>9. CASE CancelSubscription(b)
  <2> DEFINE c == row'.customer
  <2>1. row' = UserRow /\ row' \in Users /\ c \in Customers /\ subs[c] # None
    BY <1>1, <1>9 DEF CancelSubscription, Users, Active
  <2>2. subs[c].price \in Prices /\ subs[c].price \in subs[c].had
    BY <2>1 DEF TypeOK, Subscriptions, Chosen
  <2>3. Send("updated", c, subs[c].price)
    BY <1>9 DEF CancelSubscription
  <2> HIDE DEF c
  <2>4. sessions' \in [Browsers -> Tokens \cup {None}]
    BY <1>4, <1>9 DEF CancelSubscription
  <2>5. UNCHANGED <<person, keys, subs, history>>
    BY <1>9 DEF CancelSubscription
  <2>6. row' # None /\ TierHad(row')
    BY <1>1, <2>1
  <2>7. \A d \in Customers : subs[d] # None => subs[d].price \in subs[d].had
    BY DEF Chosen
  <2> QED
    BY <2>1, <2>2, <2>3, <2>4, <2>5, <2>6, <2>7, SendKeeps DEF TypeOK
<1>10. CASE DeleteAccount(b)
  <2>1. row' = None /\ keys' = [k \in Keys |-> None] /\ regular' = FALSE /\ latest' = latest
        /\ UNCHANGED person /\ sessions' = [sessions EXCEPT ![b] = None]
    BY <1>10 DEF DeleteAccount
  <2>2. sessions' \in [Browsers -> Tokens \cup {None}]
    BY <2>1 DEF TypeOK
  <2>3. CASE UNCHANGED stripe
    <3>1. TypeOK'
      BY <2>1, <2>2, <2>3 DEF TypeOK
    <3> QED BY <2>1, <2>3, <3>1, QuietKeeps
  <2>4. CASE ~UNCHANGED stripe
    <3> DEFINE c == UserRow.customer
    <3>1. c # None /\ Active(c) /\ Ended(c)
      BY <1>10, <2>4 DEF DeleteAccount
    <3>2. c \in Customers /\ subs[c] # None
      BY <1>1, <3>1 DEF Users, Active
    <3> HIDE DEF c
    <3>3. IInv'
      BY <2>1, <2>2, <3>1, <3>2, EndedKeeps DEF TypeOK
    <3> QED BY <3>3
  <2> QED BY <2>3, <2>4
<1> QED BY <1>5, <1>6, <1>7, <1>8, <1>9, <1>10 DEF Browser

\* Steps of Stripe that no browser asked for.
LEMMA StripeKeeps ==
    ASSUME IInv, NEW c \in Customers, Stripe(c)
    PROVE  IInv'
<1> USE DEF IInv
<1>1. row = None \/ (row \in Users /\ TierHad(row))
  BY DEF TypeOK, TierIsOwn, TierHad
<1>2. \A d \in Customers : subs[d] # None => subs[d].price \in subs[d].had
  BY DEF Chosen
<1>3. CASE PeriodEnds(c)
  BY <1>1, <1>3, EndedKeeps DEF PeriodEnds, TypeOK, KeysHaveUser
<1>4. CASE Invoice(c)
  <2>1. subs[c] # None /\ Send("invoice", c, subs[c].price)
    BY <1>4 DEF Invoice, Active
  <2>2. subs[c].price \in Prices /\ subs[c].price \in subs[c].had
    BY <2>1, <1>2 DEF TypeOK, Subscriptions
  <2>3. UNCHANGED <<person, row, keys, sessions, subs, history>>
    BY <1>4 DEF Invoice
  <2> QED BY <1>1, <1>2, <2>1, <2>2, <2>3, SendKeeps DEF TypeOK, KeysHaveUser
<1>5. ASSUME NEW price \in Prices, Checkout(c, price) PROVE IInv'
  <2> DEFINE new == [price |-> price, status |-> "active", had |-> {price}]
  <2>1. new \in Subscriptions /\ new.price \in new.had /\ price \in new.had
    BY DEF Subscriptions
  <2>2. subs[c] = None /\ subs' = [subs EXCEPT ![c] = new] /\ Send("checkout", c, price)
        /\ UNCHANGED <<person, row, keys, sessions, latest>>
    BY <1>5 DEF Checkout
  <2> HIDE DEF new
  <2>3. subs' \in [Customers -> Subscriptions \cup {None}] /\ subs'[c] = new
    BY <2>1, <2>2 DEF TypeOK
  <2>4. \A d \in Customers : d # c => subs'[d] = subs[d]
    BY <2>2 DEF TypeOK
  <2>5. \A d \in Customers : subs[d] # None => subs'[d] # None /\ subs[d].had \subseteq subs'[d].had
    BY <2>2, <2>4
  <2>6. \A d \in Customers : subs'[d] # None => subs'[d].price \in subs'[d].had
    BY <1>2, <2>1, <2>3, <2>4
  <2>7. regular' \in BOOLEAN
    BY <1>5 DEF Checkout
  <2>8. subs'[c] # None /\ price \in subs'[c].had
    BY <2>1, <2>3
  <2> QED BY <1>1, <2>2, <2>3, <2>5, <2>6, <2>7, <2>8, SendKeeps DEF TypeOK, KeysHaveUser
<1>6. ASSUME NEW price \in Prices, NEW status \in {"active", "past_due"},
             Changes(c, price, status)
      PROVE  IInv'
  <2> DEFINE new == [subs[c] EXCEPT !.price = price, !.status = status, !.had = @ \cup {price}]
  <2>1. subs[c] # None /\ subs[c] \in Subscriptions
    BY <1>6 DEF Changes, TypeOK
  <2>2. new \in Subscriptions /\ new.price = price /\ new.had = subs[c].had \cup {price}
    BY <2>1 DEF Subscriptions
  <2>3. subs' = [subs EXCEPT ![c] = new] /\ Send("updated", c, price)
        /\ UNCHANGED <<person, row, keys, sessions, history>>
    BY <1>6 DEF Changes
  <2> HIDE DEF new
  <2>4. subs' \in [Customers -> Subscriptions \cup {None}] /\ subs'[c] = new
    BY <2>2, <2>3 DEF TypeOK
  <2>5. \A d \in Customers : d # c => subs'[d] = subs[d]
    BY <2>3 DEF TypeOK
  <2>6. \A d \in Customers : subs[d] # None => subs'[d] # None /\ subs[d].had \subseteq subs'[d].had
    BY <2>2, <2>4, <2>5
  <2>7. \A d \in Customers : subs'[d] # None => subs'[d].price \in subs'[d].had
    BY <1>2, <2>2, <2>4, <2>5
  <2>8. subs'[c] # None /\ price \in subs'[c].had
    BY <2>2, <2>4
  <2> QED BY <1>1, <2>3, <2>4, <2>6, <2>7, <2>8, SendKeeps DEF TypeOK, KeysHaveUser
<1> QED BY <1>3, <1>4, <1>5, <1>6 DEF Stripe

LEMMA WebhookKeeps ==
    ASSUME IInv, NEW e \in events, Webhook(e)
    PROVE  IInv'
<1> USE DEF IInv
<1>1. /\ row = None => row' = None
      /\ row # None => row' \in Users /\ TierHad(row')
  BY ApplyKeeps DEF Webhook
<1>2. events' \subseteq events /\ UNCHANGED <<person, keys, sessions, subs, sent>>
  BY DEF Webhook
<1>3. e \in Events /\ e.no \in 1..MaxEvent
  BY DEF TypeOK, Events
<1>4. latest' \in 0..MaxEvent
  BY <1>3 DEF Webhook, TypeOK
<1>5. regular' \in BOOLEAN
  BY DEF Webhook, TypeOK
<1>6. TypeOK'
  BY <1>1, <1>2, <1>4, <1>5 DEF TypeOK
<1>7. TierIsOwn' /\ KeysHaveUser' /\ Chosen'
  BY <1>1, <1>2 DEF TierIsOwn, TierHad, KeysHaveUser, Chosen
<1> QED BY <1>6, <1>7

LEMMA StepKeeps == IInv /\ [Next]_vars => IInv'
<1> SUFFICES ASSUME IInv, [Next]_vars PROVE IInv'
  OBVIOUS
<1>1. CASE Register \/ Crash
  <2>1. TypeOK'
    BY <1>1 DEF IInv, TypeOK, Register, Crash
  <2> QED
    BY <1>1, <2>1, QuietKeeps DEF IInv, Register, Crash, TierIsOwn, TierHad, KeysHaveUser
<1>2. CASE Registered
  <2>1. row' = UserRow
    BY <1>2 DEF Registered, UserRow
  <2>2. row' \in Users /\ TierHad(row')
    BY <2>1, UserRowKeeps DEF IInv
  <2>3. TypeOK'
    BY <1>2, <2>2 DEF IInv, TypeOK, Registered
  <2> QED BY <1>2, <2>2, <2>3, QuietKeeps DEF Registered
<1>3. ASSUME NEW k \in Keys, GenerateKey(k) PROVE IInv'
  <2>1. TypeOK'
    BY <1>3 DEF IInv, TypeOK, GenerateKey
  <2> QED BY <1>3, <2>1, QuietKeeps DEF IInv, GenerateKey, TierIsOwn, TierHad
<1>4. CASE UNCHANGED vars
  <2>1. TypeOK'
    BY <1>4 DEF IInv, TypeOK, vars
  <2> QED
    BY <1>4, <2>1, QuietKeeps DEF IInv, vars, TierIsOwn, TierHad, KeysHaveUser
<1> QED
  BY <1>1, <1>2, <1>3, <1>4, BrowserKeeps, StripeKeeps, WebhookKeeps DEF Next

-----------------------------------------------------------------------------
\* The order of events.

\* An event that tells of a subscription, and one that tells how it is now.
Told(e) == e.type # "invoice"
Current(e, c) ==
    /\ e.customer = c /\ e.price = subs[c].price
    /\ e.type = "deleted" <=> subs[c].status = "canceled"

\* Every event has a number of its own, and the first is that of a checkout.
Numbered ==
    /\ \A e \in events : e.no <= sent
    /\ \A e, f \in events : e.no = f.no => e = f
    /\ latest <= sent
    /\ (\A c \in Customers : subs[c] = None) => sent = 0
    /\ regular => \A e \in events : e.type = "checkout" => e.no = 1

\* There is one subscription, and the row is its customer's once the checkout was
\* told of.
OneCheckout(c) ==
    /\ \A d \in Customers : subs[d] # None => d = c
    /\ row # None
    /\ row.customer = c \/ \E e \in events : e.type = "checkout"

\* Either the newest change is still to be told of; or the row has it; or an event
\* was left behind, and when it comes the order will not have been kept.
ToCome(c) ==
    \E e \in events :
        /\ Told(e) /\ e.no > latest /\ Current(e, c)
        /\ \A f \in events : Told(f) => f.no <= e.no
Shown(c) ==
    /\ \A f \in events : Told(f) => f.no = latest /\ Current(f, c)
    /\ row.customer = c
    /\ \/ subs[c].status = "active" /\ row.tier = TierOf[subs[c].price]
       \/ subs[c].status = "canceled" /\ row.tier = 0
       \/ subs[c].status = "past_due"
LeftBehind == \E e \in events : Told(e) /\ e.no < latest

InOrder ==
    regular => \A c \in Customers : subs[c] # None =>
        OneCheckout(c) /\ (ToCome(c) \/ Shown(c) \/ LeftBehind)

OInv == IInv /\ Numbered /\ InOrder

LEMMA OrderInit == Init => Numbered /\ InOrder
BY DEF Init, Numbered, InOrder

\* The last change of a subscription comes after all events there were.
LEMMA SendIsNewest ==
    ASSUME OInv, NEW type \in {"checkout", "updated", "deleted"},
           NEW c \in Customers, NEW price \in Prices,
           Send(type, c, price),
           subs'[c] # None /\ subs'[c].price = price,
           type = "deleted" <=> subs'[c].status = "canceled",
           type = "checkout" /\ regular' => sent = 0,
           latest' = latest, regular' => regular,
           regular' => /\ \A d \in Customers : subs'[d] # None => d = c
                       /\ row' # None
                       /\ row'.customer = c \/ \E e \in events' : e.type = "checkout"
    PROVE  Numbered' /\ InOrder'
<1>1. PICK new : new = [no |-> sent + 1, type |-> type, customer |-> c, price |-> price]
  OBVIOUS
<1>2. sent' = sent + 1 /\ sent \in Nat /\ events' = events \cup {new}
      /\ latest \in Nat /\ latest <= sent
  BY <1>1 DEF Send, OInv, IInv, TypeOK, Numbered
<1>3. new.no = sent + 1 /\ new.type = type /\ new.customer = c /\ new.price = price
  BY <1>1
<1>4. \A e \in events : e.no \in Nat /\ e.no <= sent
  BY DEF OInv, IInv, TypeOK, Events, Numbered
<1>5. Numbered'
  <2>1. \A e \in events' : e.no <= sent'
    BY <1>2, <1>3, <1>4
  <2>2. \A e, f \in events' : e.no = f.no => e = f
    BY <1>2, <1>3, <1>4 DEF OInv, Numbered
  <2>3. regular' => \A e \in events' : e.type = "checkout" => e.no = 1
    BY <1>2, <1>3, <1>4 DEF OInv, Numbered
  <2> QED BY <1>2, <2>1, <2>2, <2>3 DEF Numbered
<1>6. InOrder'
  <2> SUFFICES ASSUME regular', NEW d \in Customers, subs'[d] # None
               PROVE  OneCheckout(d)' /\ ToCome(d)'
    BY DEF InOrder
  <2>1. d = c
    OBVIOUS
  <2>2. OneCheckout(c)'
    BY DEF OneCheckout
  <2>3. Told(new) /\ Current(new, c)'
    BY <1>3 DEF Told, Current
  <2>4. new \in events' /\ new.no > latest'
    BY <1>2, <1>3
  <2>5. \A f \in events' : f.no <= new.no
    BY <1>2, <1>3, <1>4
  <2>6. ToCome(c)'
    BY <2>3, <2>4, <2>5 DEF ToCome
  <2> QED BY <2>1, <2>2, <2>6
<1> QED BY <1>5, <1>6

\* What logins, requests and invoices may do to a user: the tier stays, or is the
\* one of the subscription.
SameOrSynced(u, v) ==
    /\ v.customer = u.customer
    /\ \/ v.tier = u.tier
       \/ u.customer \in Customers /\ ~Active(u.customer) /\ v.tier = 0
       \/ /\ u.customer \in Customers /\ Active(u.customer)
          /\ v.tier = TierOf[subs[u.customer].price]
       \/ u.customer = None /\ v.tier = 0

\* The two parts of InOrder that speak of the row survive that.
LEMMA RowHolds ==
    ASSUME OInv, regular, NEW c \in Customers, subs[c] # None, subs' = subs,
           latest' = latest,
           \A e \in events' : Told(e) => e \in events,
           \A e \in events : Told(e) => e \in events',
           row # None => row' # None /\ SameOrSynced(row, row')
    PROVE  OneCheckout(c)' /\ (ToCome(c)' \/ Shown(c)' \/ LeftBehind')
<1>1. OneCheckout(c) /\ (ToCome(c) \/ Shown(c) \/ LeftBehind)
  BY DEF OInv, InOrder
<1>2. row # None /\ row' # None /\ row'.customer = row.customer
  BY <1>1 DEF OneCheckout, SameOrSynced
<1>3. OneCheckout(c)'
  <2>1. row'.customer = c \/ \E e \in events' : e.type = "checkout"
    BY <1>1, <1>2 DEF OneCheckout, Told
  <2> QED BY <1>1, <1>2, <2>1 DEF OneCheckout
<1>4. CASE ToCome(c)
  <2>1. PICK e \in events : /\ Told(e) /\ e.no > latest /\ Current(e, c)
                            /\ \A f \in events : Told(f) => f.no <= e.no
    BY <1>4 DEF ToCome
  <2>2. e \in events' /\ e.no > latest' /\ Current(e, c)'
    BY <2>1 DEF Current
  <2>3. \A f \in events' : Told(f) => f.no <= e.no
    BY <2>1
  <2>4. ToCome(c)'
    BY <2>1, <2>2, <2>3 DEF ToCome
  <2> QED BY <1>3, <2>4
<1>5. CASE Shown(c)
  <2>1. \A f \in events' : Told(f) => f.no = latest' /\ Current(f, c)'
    BY <1>5 DEF Shown, Current
  <2>2. row.customer = c /\ row'.customer = c /\ c # None
    BY <1>2, <1>5 DEF Shown
  <2>3. subs[c].status \in {"active", "past_due", "canceled"}
    BY DEF OInv, IInv, TypeOK, Subscriptions
  <2>4. \/ row'.tier = row.tier
        \/ subs[c].status # "active" /\ row'.tier = 0
        \/ subs[c].status = "active" /\ row'.tier = TierOf[subs[c].price]
    BY <1>2, <2>2 DEF SameOrSynced, Active
  <2>5. \/ subs[c].status = "active" /\ row'.tier = TierOf[subs[c].price]
        \/ subs[c].status = "canceled" /\ row'.tier = 0
        \/ subs[c].status = "past_due"
    BY <1>5, <2>3, <2>4 DEF Shown
  <2>6. Shown(c)'
    BY <2>1, <2>2, <2>5 DEF Shown
  <2> QED BY <1>3, <2>6
<1>6. CASE LeftBehind
  <2>1. PICK e \in events : Told(e) /\ e.no < latest
    BY <1>6 DEF LeftBehind
  <2>2. LeftBehind'
    BY <2>1 DEF LeftBehind
  <2> QED BY <1>3, <2>2
<1> QED BY <1>1, <1>4, <1>5, <1>6

LEMMA SyncIsSame ==
    ASSUME TypeOK, NEW u \in Users
    PROVE  SameOrSynced(u, u) /\ SameOrSynced(u, Synced(u))
<1>1. SameOrSynced(u, u)
  BY DEF SameOrSynced
<1>2. CASE u.customer # None /\ Active(u.customer) /\ Priced(subs[u.customer].price)
  <2>1. Synced(u) = [u EXCEPT !.tier = TierOf[subs[u.customer].price]]
    BY <1>2 DEF Synced
  <2>2. Synced(u).customer = u.customer /\ Synced(u).tier = TierOf[subs[u.customer].price]
    BY <2>1 DEF Users
  <2>3. u.customer \in Customers
    BY <1>2 DEF Users
  <2> QED BY <1>1, <1>2, <2>2, <2>3 DEF SameOrSynced
<1>3. CASE u.customer # None /\ Active(u.customer) /\ ~Priced(subs[u.customer].price)
  BY <1>1, <1>3 DEF Synced
<1>4. CASE ~(u.customer # None /\ Active(u.customer))
  <2>1. Synced(u) = [u EXCEPT !.tier = 0]
    BY <1>4 DEF Synced
  <2>2. Synced(u).customer = u.customer /\ Synced(u).tier = 0
    BY <2>1 DEF Users
  <2> QED BY <1>1, <1>4, <2>2 DEF SameOrSynced, Users
<1> QED BY <1>2, <1>3, <1>4

\* A step that leaves Stripe's subscriptions and the order alone.
LEMMA QuietOrder ==
    ASSUME OInv, UNCHANGED stripe, UNCHANGED history,
           row # None => row' # None /\ SameOrSynced(row, row')
    PROVE  Numbered' /\ InOrder'
<1>1. Numbered'
  BY DEF OInv, Numbered
<1>2. InOrder'
  BY RowHolds DEF InOrder
<1> QED BY <1>1, <1>2

LEMMA InvoiceOrder ==
    ASSUME OInv, NEW c \in Customers, Invoice(c)
    PROVE  Numbered' /\ InOrder'
<1>1. PICK new : new = [no |-> sent + 1, type |-> "invoice", customer |-> c,
                        price |-> subs[c].price]
  OBVIOUS
<1>2. sent' = sent + 1 /\ sent \in Nat /\ events' = events \cup {new}
      /\ latest \in Nat /\ latest <= sent
  BY <1>1 DEF Invoice, Send, OInv, IInv, TypeOK, Numbered
<1>3. new.no = sent + 1 /\ new.type = "invoice"
  BY <1>1
<1>4. \A e \in events : e.no \in Nat /\ e.no <= sent
  BY DEF OInv, IInv, TypeOK, Events, Numbered
<1>5. UNCHANGED <<row, subs, history>> /\ subs[c] # None
  BY DEF Invoice, Active
<1>6. Numbered'
  <2>1. \A e \in events' : e.no <= sent'
    BY <1>2, <1>3, <1>4
  <2>2. \A e, f \in events' : e.no = f.no => e = f
    BY <1>2, <1>3, <1>4 DEF OInv, Numbered
  <2>3. regular' => \A e \in events' : e.type = "checkout" => e.no = 1
    BY <1>2, <1>3, <1>5 DEF OInv, Numbered
  <2> QED BY <1>2, <1>5, <2>1, <2>2, <2>3 DEF Numbered
<1>7. InOrder'
  <2>1. \A e \in events' : Told(e) => e \in events
    BY <1>2, <1>3 DEF Told
  <2>2. row # None => SameOrSynced(row, row')
    BY <1>5 DEF SameOrSynced
  <2> QED BY <1>2, <1>5, <2>1, <2>2, RowHolds DEF InOrder
<1> QED BY <1>6, <1>7

\* The row after a webhook that tells of a subscription.
LEMMA ToldRow ==
    ASSUME row \in Users, row # None, NEW e \in Events, Told(e)
    PROVE  IF e.type = "checkout" \/ row.customer = e.customer
             THEN /\ Apply(e).customer = e.customer
                  /\ Apply(e).tier = IF e.type = "deleted" THEN 0 ELSE TierOf[e.price]
             ELSE Apply(e) = row
<1>1. e.type \in {"checkout", "updated", "deleted"}
  BY DEF Told, Events
<1>2. CASE e.type = "checkout"
  BY <1>2 DEF Apply, CheckedOut
<1>3. CASE e.type # "checkout"
  <2>1. Apply(e) = Updated(e)
    BY <1>1, <1>3 DEF Apply
  <2> QED BY <1>3, <2>1 DEF Updated, Users
<1> QED BY <1>2, <1>3

LEMMA ToldOrder ==
    ASSUME OInv, NEW e \in events, Told(e), Webhook(e)
    PROVE  Numbered' /\ InOrder'
<1>1. /\ e \in Events /\ e.no \in Nat /\ e.no <= sent
      /\ latest \in Nat /\ sent \in Nat /\ latest <= sent
  BY DEF OInv, IInv, TypeOK, Events, Numbered
<1>2. /\ latest' = IF e.no > latest THEN e.no ELSE latest
      /\ regular' => regular /\ row # None /\ e.no >= latest
  BY DEF Webhook, Told
<1>3. events' \subseteq events /\ (\A f \in events : f # e => f \in events')
      /\ subs' = subs /\ sent' = sent /\ row' = Apply(e)
  BY DEF Webhook
<1>4. \A f \in events : f.no \in Nat
  BY DEF OInv, IInv, TypeOK, Events
<1>5. \A f, g \in events : f.no = g.no => f = g
  BY DEF OInv, Numbered
<1>6. Numbered'
  <2>1. latest' <= sent'
    BY <1>1, <1>2, <1>3
  <2> QED BY <1>2, <1>3, <2>1 DEF OInv, Numbered
<1>7. ASSUME regular', NEW c \in Customers, subs'[c] # None
      PROVE  OneCheckout(c)' /\ (ToCome(c)' \/ Shown(c)' \/ LeftBehind')
  <2>1. regular /\ row # None /\ e.no >= latest /\ latest' = e.no /\ subs[c] # None
    <3>1. regular /\ row # None /\ e.no >= latest /\ subs[c] # None
      BY <1>2, <1>3, <1>7
    <3>2. latest' = e.no
      BY <1>1, <1>2, <3>1
    <3> QED BY <3>1, <3>2
  <2>2. OneCheckout(c) /\ (ToCome(c) \/ Shown(c) \/ LeftBehind)
    BY <2>1 DEF OInv, InOrder
  <2>3. e.customer = c
    <3>1. subs[e.customer] # None /\ e.customer \in Customers
      BY <1>1 DEF OInv, IInv, Chosen, Events
    <3> QED BY <2>2, <3>1 DEF OneCheckout
  <2>4. row' # None
    <3>1. e.type = "checkout" => Priced(e.price)
      BY DEF Webhook
    <3>2. row' \in Users
      BY <1>3, <2>1, <3>1, ApplyKeeps DEF OInv, IInv
    <3> QED BY <3>2, NoneAssumption
  <2>5. IF e.type = "checkout" \/ row.customer = c
          THEN /\ row'.customer = c
               /\ row'.tier = IF e.type = "deleted" THEN 0 ELSE TierOf[e.price]
          ELSE row' = row
    <3>1. row \in Users
      BY <2>1 DEF OInv, IInv, TypeOK
    <3> QED BY <1>1, <1>3, <2>1, <2>3, <3>1, ToldRow
  <2>6. row'.customer = c \/ \E f \in events' : f.type = "checkout"
    BY <1>3, <2>2, <2>5 DEF OneCheckout
  <2>7. OneCheckout(c)'
    BY <1>3, <2>2, <2>4, <2>6 DEF OneCheckout
  <2>8. ASSUME Current(e, c), row'.customer = c,
               row'.tier = IF e.type = "deleted" THEN 0 ELSE TierOf[e.price],
               \A f \in events' : Told(f) => f = e
        PROVE  Shown(c)'
    <3>1. subs[c].status \in {"active", "past_due", "canceled"}
      BY <2>1 DEF OInv, IInv, TypeOK, Subscriptions
    <3>2. Current(e, c)'
      BY <1>3, <2>8 DEF Current
    <3>3. \/ subs'[c].status = "active" /\ row'.tier = TierOf[subs'[c].price]
          \/ subs'[c].status = "canceled" /\ row'.tier = 0
          \/ subs'[c].status = "past_due"
      BY <1>3, <2>8, <3>1 DEF Current
    <3>4. \A f \in events' : Told(f) => f.no = latest' /\ Current(f, c)'
      BY <2>1, <2>8, <3>2
    <3> QED BY <2>8, <3>3, <3>4 DEF Shown
  <2>9. CASE ToCome(c)
    <3>1. PICK t \in events : /\ Told(t) /\ t.no > latest /\ Current(t, c)
                              /\ \A f \in events : Told(f) => f.no <= t.no
      BY <2>9 DEF ToCome
    <3>2. CASE t # e
      <4>1. t.no > e.no
        BY <1>1, <1>4, <1>5, <3>1, <3>2
      <4>2. t \in events' /\ t.no > latest' /\ Current(t, c)'
        BY <1>3, <2>1, <3>1, <3>2, <4>1 DEF Current
      <4>3. \A f \in events' : Told(f) => f.no <= t.no
        BY <1>3, <3>1
      <4>4. ToCome(c)'
        BY <3>1, <4>2, <4>3 DEF ToCome
      <4> QED BY <2>7, <4>4
    <3>3. CASE t = e /\ \E f \in events' : Told(f) /\ f # e
      <4>1. PICK f \in events' : Told(f) /\ f # e
        BY <3>3
      <4>2. f.no < latest'
        BY <1>1, <1>3, <1>4, <1>5, <2>1, <3>1, <3>3, <4>1
      <4>3. LeftBehind'
        BY <4>1, <4>2 DEF LeftBehind
      <4> QED BY <2>7, <4>3
    <3>4. CASE t = e /\ \A f \in events' : Told(f) => f = e
      <4>1. e.type = "checkout" \/ row.customer = c
        BY <1>3, <2>5, <2>6, <3>4 DEF Told
      <4>2. Shown(c)'
        BY <2>5, <2>8, <3>1, <3>4, <4>1
      <4> QED BY <2>7, <4>2
    <3> QED BY <3>2, <3>3, <3>4
  <2>10. CASE Shown(c)
    <3>1. Current(e, c) /\ row.customer = c
      BY <2>10 DEF Shown
    <3>2. \A f \in events' : Told(f) => f = e
      BY <1>3, <1>5, <2>10 DEF Shown
    <3>3. Shown(c)'
      BY <2>5, <2>8, <3>1, <3>2
    <3> QED BY <2>7, <3>3
  <2>11. CASE LeftBehind
    <3>1. PICK f \in events : Told(f) /\ f.no < latest
      BY <2>11 DEF LeftBehind
    <3>2. f \in events' /\ f.no < latest'
      BY <1>1, <1>3, <1>4, <2>1, <3>1
    <3>3. LeftBehind'
      BY <3>1, <3>2 DEF LeftBehind
    <3> QED BY <2>7, <3>3
  <2> QED BY <2>2, <2>9, <2>10, <2>11
<1>8. InOrder'
  BY <1>7 DEF InOrder
<1> QED BY <1>6, <1>8

\* What a subscription that ends leaves as it was.
LEMMA EndedIs ==
    ASSUME TypeOK, NEW c \in Customers, subs[c] \in Subscriptions, Ended(c)
    PROVE  /\ subs'[c] # None /\ subs'[c].status = "canceled"
           /\ subs'[c].price = subs[c].price /\ subs[c].price \in Prices
           /\ Send("deleted", c, subs[c].price)
           /\ \A d \in Customers : subs'[d] # None => subs[d] # None
<1>1. subs' = [subs EXCEPT ![c] = [@ EXCEPT !.status = "canceled"]]
  BY DEF Ended
<1>2. subs'[c] = [subs[c] EXCEPT !.status = "canceled"]
      /\ \A d \in Customers : d # c => subs'[d] = subs[d]
  BY <1>1 DEF TypeOK
<1>3. subs'[c] \in Subscriptions /\ subs'[c].price = subs[c].price
      /\ subs'[c].status = "canceled" /\ subs[c].price \in Prices
  BY <1>2 DEF Subscriptions
<1> QED BY <1>2, <1>3, NoneAssumption DEF Ended

LEMMA BrowserOrder ==
    ASSUME OInv, NEW b \in Browsers, Browser(b)
    PROVE  Numbered' /\ InOrder'
<1>1. row # None => row \in Users /\ UserRow = row
  BY DEF OInv, IInv, TypeOK, UserRow
<1>2. row # None => SameOrSynced(row, row) /\ SameOrSynced(row, Synced(row))
  BY <1>1, SyncIsSame DEF OInv, IInv
<1>3. CASE CancelSubscription(b)
  <2>1. PICK c : c = row'.customer
    OBVIOUS
  <2>2. row' = UserRow /\ row' \in Users /\ c # None /\ Active(c)
        /\ Send("updated", c, subs[c].price)
    <3>1. UserRow \in Users
      BY UserRowKeeps DEF OInv, IInv
    <3> QED BY <1>3, <2>1, <3>1 DEF CancelSubscription
  <2>3. c \in Customers /\ subs[c] # None /\ subs[c].status = "active" /\ row' # None
    BY <2>1, <2>2, NoneAssumption DEF Users, Active
  <2>4. subs[c].price \in Prices
    BY <2>3 DEF OInv, IInv, TypeOK, Subscriptions
  <2>5. UNCHANGED <<subs, history>>
    BY <1>3 DEF CancelSubscription
  <2>6. regular => \A d \in Customers : subs[d] # None => d = c
    BY <2>3 DEF OInv, InOrder, OneCheckout
  <2> QED BY <2>1, <2>2, <2>3, <2>4, <2>5, <2>6, SendIsNewest
<1>4. CASE DeleteAccount(b)
  <2>1. regular' = FALSE /\ latest' = latest
    BY <1>4 DEF DeleteAccount
  <2>2. CASE UNCHANGED stripe
    BY <2>1, <2>2 DEF OInv, Numbered, InOrder
  <2>3. CASE ~UNCHANGED stripe
    <3>1. PICK c : c = UserRow.customer
      OBVIOUS
    <3>2. c # None /\ Active(c) /\ Ended(c)
      BY <1>4, <2>3, <3>1 DEF DeleteAccount
    <3>3. UserRow \in Users
      BY UserRowKeeps DEF OInv, IInv
    <3>4. c \in Customers /\ subs[c] \in Subscriptions
      BY <3>1, <3>2, <3>3 DEF Users, Active, OInv, IInv, TypeOK
    <3>5. subs'[c] # None /\ subs'[c].price = subs[c].price /\ subs'[c].status = "canceled"
          /\ subs[c].price \in Prices /\ Send("deleted", c, subs[c].price)
      BY <3>2, <3>4, EndedIs DEF OInv, IInv
    <3> QED BY <2>1, <3>4, <3>5, SendIsNewest
  <2> QED BY <2>2, <2>3
<1>5. CASE ~CancelSubscription(b) /\ ~DeleteAccount(b)
  <2>1. UNCHANGED stripe /\ UNCHANGED history
    BY <1>5 DEF Browser, Login, LoginWithGoogle, Logout, Request, RequestRefused,
         TokenExpires, CreateKey, ToggleKey, DeleteKey
  <2>2. row' \in {row, UserRow, Synced(UserRow)}
    BY <1>5 DEF Browser, Login, LoginWithGoogle, Logout, Request, RequestRefused,
         TokenExpires, CreateKey, ToggleKey, DeleteKey
  <2>3. row # None => row' # None
    <3>1. row # None => Synced(row) \in Users
      BY <1>1, SyncKeeps DEF OInv, IInv, TierIsOwn, TierHad
    <3> QED BY <1>1, <2>2, <3>1, NoneAssumption
  <2>4. row # None => SameOrSynced(row, row')
    BY <1>1, <1>2, <2>2
  <2> QED BY <2>1, <2>3, <2>4, QuietOrder
<1> QED BY <1>3, <1>4, <1>5

LEMMA StripeOrder ==
    ASSUME OInv, NEW c \in Customers, Stripe(c)
    PROVE  Numbered' /\ InOrder'
<1>1. subs[c] # None => subs[c] \in Subscriptions
  BY DEF OInv, IInv, TypeOK
<1>2. subs[c] # None /\ regular => OneCheckout(c)
  BY DEF OInv, InOrder
<1>3. CASE PeriodEnds(c)
  <2>1. subs[c] \in Subscriptions /\ Ended(c) /\ UNCHANGED <<row, history>>
    BY <1>1, <1>3 DEF PeriodEnds
  <2>2. subs'[c] # None /\ subs'[c].price = subs[c].price /\ subs'[c].status = "canceled"
        /\ subs[c].price \in Prices /\ Send("deleted", c, subs[c].price)
        /\ \A d \in Customers : subs'[d] # None => subs[d] # None
    BY <2>1, EndedIs DEF OInv, IInv
  <2>3. subs[c] # None
    BY <1>3 DEF PeriodEnds
  <2> QED BY <1>2, <2>1, <2>2, <2>3, SendIsNewest DEF OneCheckout, Send
<1>4. CASE Invoice(c)
  BY <1>4, InvoiceOrder
<1>5. ASSUME NEW price \in Prices, Checkout(c, price) PROVE Numbered' /\ InOrder'
  <2>1. subs' = [subs EXCEPT ![c] = [price |-> price, status |-> "active", had |-> {price}]]
        /\ Send("checkout", c, price) /\ row # None /\ row' = row /\ latest' = latest
    BY <1>5 DEF Checkout
  <2>2. regular' => regular /\ \A d \in Customers : subs[d] = None
    BY <1>5 DEF Checkout
  <2>3. subs'[c] = [price |-> price, status |-> "active", had |-> {price}]
        /\ \A d \in Customers : d # c => subs'[d] = subs[d]
    BY <2>1 DEF OInv, IInv, TypeOK
  <2>4. subs'[c] # None /\ subs'[c].price = price /\ subs'[c].status = "active"
    <3>1. subs'[c] \in Subscriptions
      BY <2>3 DEF Subscriptions
    <3> QED BY <2>3, <3>1, NoneAssumption
  <2>5. regular' => sent = 0
    BY <2>2 DEF OInv, Numbered
  <2>6. \E e \in events' : e.type = "checkout"
    <3>1. PICK new : new = [no |-> sent + 1, type |-> "checkout", customer |-> c, price |-> price]
      OBVIOUS
    <3>2. new \in events' /\ new.type = "checkout"
      BY <2>1, <3>1 DEF Send
    <3> QED BY <3>2
  <2>7. regular' => \A d \in Customers : subs'[d] # None => d = c
    BY <2>2, <2>3
  <2> QED BY <2>1, <2>2, <2>4, <2>5, <2>6, <2>7, SendIsNewest
<1>6. ASSUME NEW price \in Prices, NEW status \in {"active", "past_due"},
             Changes(c, price, status)
      PROVE  Numbered' /\ InOrder'
  <2>1. PICK new : new = [subs[c] EXCEPT !.price = price, !.status = status, !.had = @ \cup {price}]
    OBVIOUS
  <2>2. subs' = [subs EXCEPT ![c] = new] /\ Send("updated", c, price)
        /\ UNCHANGED <<row, history>> /\ subs[c] # None
    BY <1>6, <2>1 DEF Changes
  <2>3. new \in Subscriptions /\ new.price = price /\ new.status = status
    BY <1>1, <2>1, <2>2 DEF Subscriptions
  <2>4. subs'[c] = new /\ \A d \in Customers : d # c => subs'[d] = subs[d]
    BY <2>2 DEF OInv, IInv, TypeOK
  <2>5. subs'[c] # None /\ subs'[c].price = price /\ subs'[c].status # "canceled"
    BY <2>3, <2>4, NoneAssumption
  <2>6. regular => /\ \A d \in Customers : subs'[d] # None => d = c
                   /\ row' # None
                   /\ row'.customer = c \/ \E e \in events' : e.type = "checkout"
    BY <1>2, <2>2, <2>4 DEF OneCheckout, Send
  <2> QED BY <2>2, <2>5, <2>6, SendIsNewest
<1> QED BY <1>3, <1>4, <1>5, <1>6 DEF Stripe

LEMMA WebhookOrder ==
    ASSUME OInv, NEW e \in events, Webhook(e)
    PROVE  Numbered' /\ InOrder'
<1>1. CASE Told(e)
  BY <1>1, ToldOrder
<1>2. CASE e.type = "invoice"
  <2>1. UNCHANGED history /\ subs' = subs /\ sent' = sent /\ events' \subseteq events
        /\ (\A f \in events : f # e => f \in events') /\ row' = Apply(e)
    BY <1>2 DEF Webhook
  <2>2. Numbered'
    BY <2>1 DEF OInv, Numbered
  <2>3. row # None => row' # None /\ SameOrSynced(row, row')
    <3>1. row # None => row' \in Users
      BY <1>2, <2>1, ApplyKeeps DEF OInv, IInv
    <3>2. Apply(e) = Paid(e)
      BY <1>2 DEF Apply
    <3>3. row # None => row'.customer = row.customer /\ row'.tier = row.tier
      BY <2>1, <3>2 DEF Paid, OInv, IInv, TypeOK, Users
    <3> QED BY <3>1, <3>3, NoneAssumption DEF SameOrSynced
  <2>4. InOrder'
    BY <1>2, <2>1, <2>3, RowHolds DEF InOrder, Told
  <2> QED BY <2>2, <2>4
<1> QED BY <1>1, <1>2 DEF Told

LEMMA StepInOrder == OInv /\ [Next]_vars => Numbered' /\ InOrder'
<1> SUFFICES ASSUME OInv, [Next]_vars PROVE Numbered' /\ InOrder'
  OBVIOUS
<1>1. row # None => SameOrSynced(row, row)
  BY DEF SameOrSynced
<1>2. CASE Register \/ Registered \/ Crash \/ (\E k \in Keys : GenerateKey(k)) \/ UNCHANGED vars
  <2>1. UNCHANGED stripe /\ UNCHANGED history /\ (row # None => row' = row)
    BY <1>2 DEF Register, Registered, Crash, GenerateKey, vars
  <2>2. row # None => row' # None /\ SameOrSynced(row, row')
    BY <1>1, <2>1
  <2> QED BY <2>1, <2>2, QuietOrder
<1> QED BY <1>2, BrowserOrder, StripeOrder, WebhookOrder DEF Next

-----------------------------------------------------------------------------
\* The theorems.

\* Whatever the order and the number of registrations, logins, requests, crashes
\* and webhooks (sessions.py, auth.py): the variables have their types, nothing is
\* given that was not bought, no key is without its user, and the newest change of
\* the one subscription is shown, still to come, or overtaken.
THEOREM Invariance == Spec => []OInv
<1>1. Init => OInv
  BY InitHolds, OrderInit DEF OInv
<1>2. OInv /\ [Next]_vars => OInv'
  BY StepKeeps, StepInOrder DEF OInv
<1> QED BY <1>1, <1>2, PTL DEF Spec

\* Users, keys, sessions and events are of the shapes auth.py and sessions.py give.
THEOREM TypeCorrect == Spec => []TypeOK
<1>1. OInv => TypeOK
  BY DEF OInv, IInv
<1> QED BY <1>1, Invariance, PTL

\* The webhooks of auth.py, in any order and any number of times, never leave a
\* tier that the subscription of the row's own customer had at no time.
THEOREM NothingForeign == Spec => []TierIsOwn
<1>1. OInv => TierIsOwn
  BY DEF OInv, IInv
<1> QED BY <1>1, Invariance, PTL

\* delete_account and the key handlers leave no key whose user is gone.
THEOREM NoKeyIsLeft == Spec => []KeysHaveUser
<1>1. OInv => KeysHaveUser
  BY DEF OInv, IInv
<1> QED BY <1>1, Invariance, PTL

\* When the webhooks of a subscription have come in their order, the tier is what
\* it says, logins or not.
THEOREM TierIsTold == Spec => []TierFollows
<1>1. OInv => TierFollows
  <2> SUFFICES ASSUME OInv, regular, row # None, \A e \in events : e.type = "invoice",
                      NEW c \in Customers, subs[c] # None
               PROVE  Shown(c)
    BY DEF TierFollows, Shown
  <2>1. ToCome(c) \/ Shown(c) \/ LeftBehind
    BY DEF OInv, InOrder
  <2> QED BY <2>1 DEF ToCome, LeftBehind, Told
<1> QED BY <1>1, Invariance, PTL
=============================================================================
