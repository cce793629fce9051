----------------------------- MODULE AccountViews -----------------------------
(***************************************************************************)
(* What the frontend shows of the connected account besides its session:   *)
(* the ETH balance WalletContext polls, the rides of ActivityPage, and     *)
(* NetworkBanner.                                                          *)
(*                                                                         *)
(* A fetch lives on when its effect is cleaned up, with its flag cleared;  *)
(* fetches may answer in any order.  Fetches for the same view that differ *)
(* in nothing are one.  A balance or a list of rides is represented by     *)
(* what it was asked for.                                                  *)
(***************************************************************************)

CONSTANTS
    Account,              \* wallet addresses
    NoAccount             \* null

ViewsAssumption == NoAccount \notin Account

VARIABLES
    address, walletProvider, isOnSepolia,
    ethBalance,           \* whose balance is shown
    balanceFetches,
    activity              \* ActivityPage: mounted, its state and its fetches, and whether
                          \* one has failed since the effect ran (history)

viewVars == <<address, walletProvider, isOnSepolia, ethBalance, balanceFetches, activity>>

MaybeAccount == Account \cup {NoAccount}
Role         == {"rider", "driver"}
BalanceFetch == [account : Account, live : BOOLEAN]
RidesFetch   == [account : Account, role : Role, live : BOOLEAN]
Rides        == [account : MaybeAccount, role : Role]
Activity     == [mounted : BOOLEAN, role : Role, loading : BOOLEAN, rides : Rides,
                 failed : BOOLEAN, fetches : SUBSET RidesFetch]

NoRides == [account |-> NoAccount, role |-> "rider"]
Unmounted(fetches) ==
    [mounted |-> FALSE, role |-> "rider", loading |-> TRUE, rides |-> NoRides,
     failed |-> FALSE, fetches |-> fetches]

ViewsInit ==
    /\ address = NoAccount /\ walletProvider = FALSE /\ isOnSepolia = FALSE
    /\ ethBalance = NoAccount /\ balanceFetches = {}
    /\ activity = Unmounted({})

\* What is shown to a connected account, and what on the wrong network only.
ActivityShown == activity.mounted /\ address # NoAccount
RidesListed   == ActivityShown /\ ~ activity.loading /\ activity.rides # NoRides
BannerShown   == address # NoAccount /\ ~ isOnSepolia

Kept(fetches) == fetches
\* The cleanup of an effect.
Dropped(fetches) == {[f EXCEPT !.live = FALSE] : f \in fetches}

\* The balance effect, with the address and provider it now depends on.
BalanceEffect(a, provider) ==
    IF a = NoAccount \/ ~ provider
    THEN ethBalance' = NoAccount /\ balanceFetches' = Dropped(balanceFetches)
    ELSE /\ balanceFetches' = Dropped(balanceFetches) \cup {[account |-> a, live |-> TRUE]}
         /\ UNCHANGED ethBalance

\* Without the spinner.
FetchingQuietly(page, a) ==
    [page EXCEPT !.fetches = @ \cup {[account |-> a, role |-> page.role, live |-> TRUE]}]

\* fetchRides: the list is loading until this fetch, or an earlier one, answers.
Fetching(page, a) ==
    [page EXCEPT !.loading = TRUE,
                 !.fetches = @ \cup {[account |-> a, role |-> page.role, live |-> TRUE]}]

\* The effect of ActivityPage, with the address it now depends on.
RidesEffect(page, a) ==
    LET cleaned == [page EXCEPT !.fetches = Dropped(@), !.failed = FALSE] IN
    IF page.mounted /\ a # NoAccount THEN Fetching(cleaned, a) ELSE cleaned

-----------------------------------------------------------------------------
AddressBecomes(a) ==
    /\ a # address
    /\ address' = a
    /\ walletProvider' = (walletProvider /\ a # NoAccount)
    /\ BalanceEffect(a, walletProvider')
    /\ activity' = RidesEffect(activity, a)
    /\ UNCHANGED isOnSepolia

ProviderBecomes(provider) ==
    /\ provider # walletProvider /\ address # NoAccount
    /\ walletProvider' = provider
    /\ BalanceEffect(address, provider)
    /\ UNCHANGED <<address, isOnSepolia, activity>>

\* The interval of the balance effect.
BalanceTick ==
    /\ address # NoAccount /\ walletProvider
    /\ balanceFetches' = balanceFetches \cup {[account |-> address, live |-> TRUE]}
    /\ UNCHANGED <<address, walletProvider, isOnSepolia, ethBalance, activity>>

BalanceAnswers(f) ==
    /\ ethBalance' = IF f.live THEN f.account ELSE ethBalance
    /\ balanceFetches' = balanceFetches \ {f}
    /\ UNCHANGED <<address, walletProvider, isOnSepolia, activity>>

BalanceFails(f) ==
    /\ balanceFetches' = balanceFetches \ {f}
    /\ UNCHANGED <<address, walletProvider, isOnSepolia, ethBalance, activity>>

-----------------------------------------------------------------------------
\* Navbar's links: the page mounts with nothing shown, and keeps nothing when left.
OpenActivity ==
    /\ ~ activity.mounted
    /\ activity' = RidesEffect([activity EXCEPT !.mounted = TRUE], address)
    /\ UNCHANGED <<address, walletProvider, isOnSepolia, ethBalance, balanceFetches>>

LeaveActivity ==
    /\ activity.mounted
    /\ activity' = Unmounted(Dropped(activity.fetches))
    /\ UNCHANGED <<address, walletProvider, isOnSepolia, ethBalance, balanceFetches>>

\* "As Rider" and "As Driver".
ChooseRole(role) ==
    /\ ActivityShown /\ role # activity.role
    /\ activity' = RidesEffect([activity EXCEPT !.role = role], address)
    /\ UNCHANGED <<address, walletProvider, isOnSepolia, ethBalance, balanceFetches>>

\* An event of the channel on ride_requests.
RidesChange ==
    /\ ActivityShown
    /\ activity' = Fetching(activity, address)
    /\ UNCHANGED <<address, walletProvider, isOnSepolia, ethBalance, balanceFetches>>

\* An error leaves the rows that are shown and ends the spinner.
RidesAnswer(f, ok) ==
    /\ activity' = [activity EXCEPT
           !.fetches = @ \ {f},
           !.loading = @ /\ ~ f.live,
           !.failed = @ \/ (f.live /\ ~ ok),
           !.rides = IF f.live /\ ok THEN [account |-> f.account, role |-> f.role] ELSE @]
    /\ UNCHANGED <<address, walletProvider, isOnSepolia, ethBalance, balanceFetches>>

-----------------------------------------------------------------------------
\* The button of NetworkBanner.
switchToSepolia ==
    /\ BannerShown
    /\ isOnSepolia' = TRUE
    /\ UNCHANGED <<address, walletProvider, ethBalance, balanceFetches, activity>>

WalletSwitchesNetwork ==
    /\ isOnSepolia' = ~ isOnSepolia
    /\ UNCHANGED <<address, walletProvider, ethBalance, balanceFetches, activity>>

ViewsNext ==
    \/ \E a \in MaybeAccount : AddressBecomes(a)
    \/ \E provider \in BOOLEAN : ProviderBecomes(provider)
    \/ BalanceTick
    \/ \E f \in balanceFetches : BalanceAnswers(f) \/ BalanceFails(f)
    \/ OpenActivity \/ LeaveActivity
    \/ \E role \in Role : ChooseRole(role)
    \/ RidesChange
    \/ \E f \in activity.fetches, ok \in BOOLEAN : RidesAnswer(f, ok)
    \/ switchToSepolia \/ WalletSwitchesNetwork

ViewsSpec == ViewsInit /\ [][ViewsNext]_viewVars

-----------------------------------------------------------------------------
ViewsTypeOK ==
    /\ address \in MaybeAccount /\ walletProvider \in BOOLEAN /\ isOnSepolia \in BOOLEAN
    /\ ethBalance \in MaybeAccount
    /\ balanceFetches \subseteq BalanceFetch
    /\ activity \in Activity

(***************************************************************************)
(* An answer that arrives after the account or the role has changed        *)
(* changes nothing: balance and rides only ever become those of the        *)
(* account and role the page is for at that moment, or are cleared.        *)
(***************************************************************************)
ViewsOnlyForPresent ==
    [][/\ ethBalance' # ethBalance => ethBalance' \in {NoAccount, address'}
       /\ activity'.rides # activity.rides =>
             activity'.rides \in {NoRides, [account |-> address', role |-> activity'.role]}
      ]_viewVars

(***************************************************************************)
(* The rides ActivityPage lists are those of the account and the role it   *)
(* is for, unless a request for them has failed: a list of before is never *)
(* shown in place of one that is still to come.                            *)
(***************************************************************************)
ListedIsPresent ==
    RidesListed /\ ~ activity.failed =>
        activity.rides = [account |-> address, role |-> activity.role]
=============================================================================
