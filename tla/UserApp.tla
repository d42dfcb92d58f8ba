------------------------------- MODULE UserApp -------------------------------
(***************************************************************************)
(* People who register for a wallet, log in and pay: the pages Signup,     *)
(* Login, Wallet and TransactionResult with the session they keep, and the *)
(* handlers registerUser and loginUser.  A registration reads the account  *)
(* and later, in the same transaction, links it; between the two the       *)
(* account may be linked by another.  An answer may be lost, which the     *)
(* pages show as a failure.  Leaving a page stops no call: its answer is   *)
(* shown wherever the person is by then.                                   *)
(***************************************************************************)
EXTENDS Listing

CONSTANTS
    People,      \* who may register, each with an e-mail address
    Wallets,     \* accounts that an administrator may create
    MaxPays      \* bound: payments that people try, all together

ASSUME UnsetIsNobody == Unset \notin People \cup Wallets

VARIABLES
    wallets,     \* the accounts in the table Account
    users,       \* the people in the table User
    owner,       \* owner[a]: the userId of account a, or Unset
    request,     \* request[p]: the registration of p that is under way
    browser,     \* browser[p]: the page p is on, with its state, and the session
    payment,     \* payment[p]: the calls of /payments that are under way; unless it is
                 \* heard, a call goes on at the server only
    keys,        \* keys[p]: the idempotency keys p has paid with
    tried,       \* tried[p]: how many payments p has sent
    successes,   \* history: successes[p]: the keys of the successes p was shown
    lost,        \* history: lost[p]: the keys of the payments whose answer was lost
    raced        \* history: accounts that were linked while another registration
                 \* had found them free

accountVars == <<wallets, users, owner, request, raced>>
payVars == <<payment, keys, tried, successes, lost>>
userVars == <<accountVars, browser, payVars>>

Idle == [at |-> "idle", account |-> Unset]
UserLayout == {"wallet", "result", "ledger"}     \* the pages with the menu

Navigate(p, page) == browser' = [browser EXCEPT ![p].at = page, ![p].error = FALSE]

\* A key is random; all keys that have never been sent are alike.
createIdempotencyKey_Fixed(p) == 1      \* mutant: not a new key
createIdempotencyKey(p) == tried[p] + 1

\* The wallet is mounted, with a new key.
OpensWallet(p) ==
    browser' = [browser EXCEPT ![p].at = "wallet", ![p].key = createIdempotencyKey(p),
                               ![p].error = FALSE]

-----------------------------------------------------------------------------
(* Registration.                                                           *)

\* An administrator creates a wallet, which belongs to nobody.
createAccount(a) ==
    /\ a \in Wallets \ wallets
    /\ wallets' = wallets \cup {a}
    /\ UNCHANGED <<users, owner, request, raced, browser, payVars>>

\* Signup.handleSubmit; the button is disabled until the answer is there.
Signup(p, a) ==
    /\ browser[p].at = "signup" /\ request[p].at = "idle"
    /\ request' = [request EXCEPT ![p] = [at |-> "sent", account |-> a]]
    /\ browser' = [browser EXCEPT ![p].error = FALSE]
    /\ UNCHANGED <<wallets, users, owner, raced, payVars>>

To(p, stage) == request' = [request EXCEPT ![p].at = stage]

\* registerUser looks for the e-mail address, checks it and the password, and hashes.
registerUser(p) ==
    /\ request[p].at = "sent"
    /\ \/ p \notin users /\ To(p, "hashed")
       \/ To(p, "refused")                  \* the address is known, or invalid
    /\ UNCHANGED <<wallets, users, owner, raced, browser, payVars>>

\* addNewUser, its first statement: the account exists and is free.
checkAccount_NotLinked(p) ==        \* mutant: it need not be free
    /\ request[p].at = "hashed"
    /\ To(p, IF request[p].account \in wallets THEN "free" ELSE "refused")
    /\ UNCHANGED <<wallets, users, owner, raced, browser, payVars>>
checkAccount(p) ==
    /\ request[p].at = "hashed"
    /\ To(p, IF request[p].account \in wallets /\ owner[request[p].account] = Unset
             THEN "free" ELSE "refused")
    /\ UNCHANGED <<wallets, users, owner, raced, browser, payVars>>

\* The user is created, unless the address is taken by now, and the account linked
\* without looking at it again.  The transaction commits.
linkAccount(p) ==
    /\ request[p].at = "free"
    /\ IF p \in users
       THEN To(p, "refused") /\ UNCHANGED <<users, owner, raced>>
       ELSE /\ To(p, "registered")
            /\ users' = users \cup {p}
            /\ owner' = [owner EXCEPT ![request[p].account] = p]
            /\ raced' = raced \cup {a \in {request[p].account} :
                            \E q \in People \ {p} : request[q] = [at |-> "free", account |-> a]}
    /\ UNCHANGED <<wallets, browser, payVars>>

\* login(token, user): the session has the account that was asked for.
Registered(p) ==
    /\ request[p].at \in {"registered", "refused"}
    /\ request' = [request EXCEPT ![p] = [at |-> IF @.at = "registered" THEN "done" ELSE "idle",
                                          account |-> @.account]]
    /\ browser' = IF request[p].at = "registered"
                  THEN [browser EXCEPT ![p].session = request[p].account, ![p].at = "wallet",
                                       ![p].key = createIdempotencyKey(p), ![p].error = FALSE]
                  ELSE [browser EXCEPT ![p].error = TRUE]
    /\ UNCHANGED <<wallets, users, owner, raced, payVars>>
RegistrationLost(p) ==
    /\ request[p].at \in {"registered", "refused"}
    /\ request' = [request EXCEPT ![p].at = IF @ = "registered" THEN "done" ELSE "idle"]
    /\ browser' = [browser EXCEPT ![p].error = TRUE]
    /\ UNCHANGED <<wallets, users, owner, raced, payVars>>

-----------------------------------------------------------------------------
(* The session.                                                            *)

AccountsOf(p) == {a \in Wallets : owner[a] = p}

\* loginUser: a user without an account is refused; the token names one of them.
loginUser(p) ==
    /\ browser[p].at = "login"
    /\ \/ /\ p \in users
          /\ \E a \in AccountsOf(p) :
               browser' = [browser EXCEPT ![p].session = a, ![p].at = "wallet",
                                          ![p].key = createIdempotencyKey(p), ![p].error = FALSE]
       \/ browser' = [browser EXCEPT ![p].error = TRUE]     \* refused, or the answer is lost
    /\ UNCHANGED <<accountVars, payVars>>
\* Out of the menu, whatever is under way; the pages are there without a session, too.
logout(p) ==
    /\ browser[p].at \in UserLayout
    /\ browser' = [browser EXCEPT ![p].session = Unset, ![p].at = "login", ![p].error = FALSE]
    /\ UNCHANGED <<accountVars, payVars>>
\* The links between the two pages.
SignIn(p) == /\ browser[p].at = "signup" /\ request[p].at \in {"idle", "done"}
             /\ Navigate(p, "login") /\ UNCHANGED <<accountVars, payVars>>
SignUp(p) == /\ browser[p].at = "login" /\ request[p].at = "idle"
             /\ Navigate(p, "signup") /\ UNCHANGED <<accountVars, payVars>>

-----------------------------------------------------------------------------
(* The wallet.                                                             *)

\* The wallet that is mounted awaits an answer.
Processing(p) ==
    browser[p].at = "wallet" /\ \E c \in payment[p] : c.heard /\ c.key = browser[p].key

MayPay == FoldFunction(LAMBDA n, m : n + m, 0, tried) < MaxPays    \* the bound

\* handlePayment: the form is checked, and the payment sent with the key of the page; it
\* is refused without a session.
handlePayment(p) ==
    /\ browser[p].at = "wallet" /\ ~Processing(p)
    /\ MayPay
    /\ payment' = [payment EXCEPT ![p] = @ \cup
                     {[key |-> browser[p].key, heard |-> TRUE,
                       at |-> IF browser[p].session = Unset THEN "refused" ELSE "sent"]}]
    /\ tried' = [tried EXCEPT ![p] = @ + 1]
    /\ UNCHANGED <<accountVars, browser, keys, successes, lost>>

\* A call is over for the server, and its answer on the way if anybody hears it.
Done(p, c, at) ==
    payment' = [payment EXCEPT ![p] = (@ \ {c}) \cup
                                      {[d EXCEPT !.at = at] : d \in {e \in {c} : e.heard}}]

\* The backend, as IdempotentPayment promises: a key pays at most once, and a key that
\* has paid is answered with the stored success.  Anything may also be refused.
Pays(p, c) ==
    /\ c.at = "sent"
    /\ \/ /\ Done(p, c, "paid")
          /\ keys' = [keys EXCEPT ![p] = @ \cup {c.key}]
       \/ /\ c.key \notin keys[p]
          /\ Done(p, c, "refused")
          /\ UNCHANGED keys
    /\ UNCHANGED <<accountVars, browser, tried, successes, lost>>

\* Whatever the answer is, and wherever the person is, the result page is shown.
Result(p, success) ==
    browser' = [browser EXCEPT ![p].at = "result", ![p].error = ~success]
PaymentAnswered(p, c) ==
    /\ c.heard /\ c.at \in {"paid", "refused"}
    /\ Result(p, c.at = "paid")
    /\ payment' = [payment EXCEPT ![p] = @ \ {c}]
    /\ successes' = [successes EXCEPT ![p] = IF c.at = "paid" THEN Append(@, c.key) ELSE @]
    /\ UNCHANGED <<accountVars, keys, tried, lost>>

\* Nobody hears any more of some calls; those that the server has not answered go on.
Unheard(p, cs) ==
    /\ payment' = [payment EXCEPT ![p] = (@ \ cs) \cup
                     {[c EXCEPT !.heard = FALSE] : c \in {d \in cs : d.at = "sent"}}]
    /\ lost' = [lost EXCEPT ![p] = @ \cup {c.key : c \in cs}]
    /\ UNCHANGED <<accountVars, keys, tried, successes>>
PaymentLost(p, c) == c.heard /\ Result(p, FALSE) /\ Unheard(p, {c})

\* The page is loaded again, though the wallet that is processing warns of it.
Reload(p) ==
    LET heard == {c \in payment[p] : c.heard}
    IN  /\ heard # {} /\ Unheard(p, heard)
        /\ IF browser[p].at = "wallet" THEN OpensWallet(p) ELSE Navigate(p, browser[p].at)

\* TransactionResult, "New Transaction" and "View Transactions"; the way back from the
\* movements, and to them while the wallet is not processing.
NewTransaction(p) ==
    /\ browser[p].at \in {"result", "ledger"}
    /\ OpensWallet(p)
    /\ UNCHANGED <<accountVars, payVars>>
ViewTransactions(p) ==
    /\ browser[p].at \in {"wallet", "result"} /\ ~Processing(p)
    /\ Navigate(p, "ledger")
    /\ UNCHANGED <<accountVars, payVars>>

\* The browser's Back and Forward lead anywhere, also out of a wallet that is processing.
\* (A result that is shown once more is none of those that are counted.)
Back(p, page) ==
    /\ browser[p].at \in UserLayout \cup {"login"}
    /\ IF page = "wallet" THEN OpensWallet(p) ELSE Navigate(p, page)
    /\ UNCHANGED <<accountVars, payVars>>

-----------------------------------------------------------------------------
UserInit ==
    /\ wallets = {} /\ users = {}
    /\ owner = [a \in Wallets |-> Unset]
    /\ request = [p \in People |-> Idle]
    /\ browser = [p \in People |-> [at |-> "signup", error |-> FALSE, session |-> Unset, key |-> 0]]
    /\ payment = [p \in People |-> {}]
    /\ keys = [p \in People |-> {}]
    /\ tried = [p \in People |-> 0]
    /\ successes = [p \in People |-> <<>>] /\ lost = [p \in People |-> {}]
    /\ raced = {}

UserNext ==
    \/ \E a \in Wallets : createAccount(a)
    \/ \E p \in People :
        \/ \E a \in Wallets \cup {Unset} : Signup(p, a)
        \/ registerUser(p) \/ checkAccount(p) \/ linkAccount(p) \/ Registered(p)
        \/ RegistrationLost(p)
        \/ loginUser(p) \/ logout(p) \/ SignIn(p) \/ SignUp(p)
        \/ handlePayment(p)
        \/ \E c \in payment[p] : Pays(p, c) \/ PaymentAnswered(p, c) \/ PaymentLost(p, c)
        \/ Reload(p) \/ NewTransaction(p) \/ ViewTransactions(p)
        \/ \E page \in {"login", "wallet", "ledger"} \ {browser[p].at} : Back(p, page)

-----------------------------------------------------------------------------
\* Who has registered keeps the account and can log in, unless two registrations
\* for the account overlapped.
RegisteredKeepsAccount ==
    \A p \in users : request[p].account \notin raced => owner[request[p].account] = p

\* Every success a person is shown is a payment of its own, however many payments the
\* person has under way and wherever their answers find the person; and there are no other
\* payments than these and those whose answer is lost or still awaited.
EverySuccessIsAPayment ==
    \A p \in People :
        /\ IsInjective(successes[p]) /\ Range(successes[p]) \subseteq keys[p]
        /\ keys[p] \subseteq Range(successes[p]) \cup lost[p] \cup
              {c.key : c \in {d \in payment[p] : d.heard /\ d.at = "paid"}}
=============================================================================
