----------------------------- MODULE DriverPanels -----------------------------
(***************************************************************************)
(* DriverPage.tsx beside its rides: the collateral panel, and the button   *)
(* that registers the driver.                                              *)
(*                                                                         *)
(* The panel asks the chain for the deposit once, when somebody signs in,  *)
(* and keeps the sum itself from then on.  Handlers and that fetch are cut *)
(* at their awaits.  A transaction that is mined did not revert; amounts   *)
(* are a few units.  The page stays mounted, and the wallet signs for the  *)
(* account that is signed in.                                              *)
(* Bounds: MaxDeposit; one fetch of an account's deposit at a time.        *)
(***************************************************************************)
EXTENDS Integers

CONSTANTS
    Account,              \* wallet addresses
    NoAccount,            \* nobody is signed in
    Unknown,              \* no sum has been read
    Amount,               \* sums a driver may type
    MinDeposit,           \* DRIVER_MIN_DEPOSIT
    MaxDeposit

PanelsAssumption ==
    /\ NoAccount \notin Account /\ Unknown \notin Int /\ Amount \subseteq Nat
    /\ MinDeposit \in Nat /\ MaxDeposit \in Nat

VARIABLES
    driver,               \* the address signed in
    onChain,              \* contract: who is registered, and with what deposit
    depositedWei,         \* what the panel shows
    reading,              \* fetches of the deposit
    registering, depositing, withdrawing,
    registrations,        \* the accounts whose registerDriver is sent and not yet mined
    exact                 \* history: nothing crossed a fetch of the sum that is shown

panelsVars == <<driver, onChain, depositedWei, reading, registering, registrations, depositing,
                withdrawing, exact>>

OnChain      == [registered : BOOLEAN, deposit : Nat]
Reading      == [account : Account, sum : Nat \cup {Unknown}, exact : BOOLEAN]
Transfer     == [at : {"idle", "sent", "mined"}, account : Account \cup {NoAccount}, value : Nat]
NoTransfer   == [at |-> "idle", account |-> NoAccount, value |-> 0]

PanelsInit ==
    /\ driver = NoAccount
    /\ onChain = [a \in Account |-> [registered |-> FALSE, deposit |-> 0]]
    /\ depositedWei = Unknown /\ reading = {} /\ exact = FALSE
    /\ registering = NoAccount /\ registrations = {}
    /\ depositing = NoTransfer /\ withdrawing = NoTransfer

\* The buttons are there for a driver who is signed in, and disabled while they work.
RegisterShown == driver # NoAccount /\ registering = NoAccount
DepositShown  == driver # NoAccount /\ depositing = NoTransfer
WithdrawShown == driver # NoAccount /\ withdrawing = NoTransfer

\* The badge beside the sum.  The minimum is fixed, and read with the first sum.
Sufficient == depositedWei # Unknown /\ depositedWei >= MinDeposit

-----------------------------------------------------------------------------
(***************************************************************************)
(* The sum the panel shows.                                                *)
(***************************************************************************)

\* The effect asks for the sum; no clean-up stops its answer.
DriverBecomes(a) ==
    /\ a # driver
    /\ driver' = a
    /\ a = NoAccount \/ \A f \in reading : f.account # a
    /\ reading' = IF a = NoAccount THEN reading
                  ELSE reading \cup {[account |-> a, sum |-> Unknown, exact |-> TRUE]}
    /\ exact' = FALSE
    /\ UNCHANGED <<onChain, depositedWei, registering, registrations, depositing,
                   withdrawing>>

Mined(t, a) == t.at = "mined" /\ t.account = a

ReadingServed(f) ==
    /\ f.sum = Unknown
    /\ reading' = (reading \ {f}) \cup
           {[f EXCEPT !.sum = onChain[f.account].deposit,
                      !.exact = ~ Mined(depositing, f.account) /\ ~ Mined(withdrawing, f.account)]}
    /\ UNCHANGED <<driver, onChain, depositedWei, registering, registrations,
                   depositing, withdrawing, exact>>

ReadingAnswers(f) ==
    /\ f.sum # Unknown
    /\ reading' = reading \ {f}
    /\ depositedWei' = f.sum /\ exact' = (f.exact /\ f.account = driver)
    /\ UNCHANGED <<driver, onChain, registering, registrations, depositing, withdrawing>>

ReadingFails(f) ==
    /\ reading' = reading \ {f}
    /\ UNCHANGED <<driver, onChain, depositedWei, registering, registrations,
                   depositing, withdrawing, exact>>

\* A transfer of account a is mined: what was read of it before is out of date.
Crossed(a) == {[f EXCEPT !.exact = @ /\ (f.account # a \/ f.sum = Unknown)] : f \in reading}

-----------------------------------------------------------------------------
(***************************************************************************)
(* The panel's buttons.                                                    *)
(***************************************************************************)

registerOnChain ==
    /\ RegisterShown
    /\ registering' = driver
    /\ UNCHANGED <<driver, onChain, depositedWei, reading, registrations, depositing,
                   withdrawing,
                   exact>>

\* The backend broadcasts registerDriver for the account.
RegisterSent ==
    /\ registering # NoAccount
    /\ registrations' = registrations \cup {registering}
    /\ UNCHANGED <<driver, onChain, depositedWei, reading, registering, depositing,
                   withdrawing,
                   exact>>

RegistrationMined(a) ==
    /\ onChain' = [onChain EXCEPT ![a].registered = TRUE]
    /\ registrations' = registrations \ {a}
    /\ UNCHANGED <<driver, depositedWei, reading, registering, depositing, withdrawing,
                   exact>>

\* /admin/register-driver answers: mined, or refused, reverted or not mined in a minute,
\* and then the transaction may be mined yet.
RegisterAnswers(ok) ==
    /\ registering # NoAccount
    /\ ok => onChain[registering].registered
    /\ registering' = NoAccount
    /\ UNCHANGED <<driver, onChain, depositedWei, reading, registrations, depositing,
                   withdrawing,
                   exact>>

depositCollateral(v) ==
    /\ DepositShown
    /\ depositing' = [at |-> "sent", account |-> driver, value |-> v]
    /\ UNCHANGED <<driver, onChain, depositedWei, reading, registering, registrations,
                   withdrawing, exact>>

DepositMined ==
    LET a == depositing.account IN
    /\ depositing.at = "sent" /\ onChain[a].registered
    /\ onChain[a].deposit + depositing.value <= MaxDeposit
    /\ onChain' = [onChain EXCEPT ![a].deposit = @ + depositing.value]
    /\ depositing' = [depositing EXCEPT !.at = "mined"]
    /\ reading' = Crossed(a)
    /\ UNCHANGED <<driver, depositedWei, registering, registrations, withdrawing, exact>>

DepositOverwrites ==
    /\ depositing.at = "mined"
    /\ depositedWei' = depositing.value
    /\ exact' = (exact /\ depositing.account = driver)
    /\ depositing' = NoTransfer
    /\ UNCHANGED <<driver, onChain, reading, registering, registrations, withdrawing>>

\* The value is added to whatever sum is shown by now, or to nothing.
DepositAdded ==
    /\ depositing.at = "mined"
    /\ depositedWei' = (IF depositedWei = Unknown THEN 0 ELSE depositedWei) + depositing.value
    /\ exact' = (exact /\ depositing.account = driver)
    /\ depositing' = NoTransfer
    /\ UNCHANGED <<driver, onChain, reading, registering, registrations, withdrawing>>

\* The wallet refuses, or the call would revert.
DepositFails ==
    /\ depositing.at = "sent"
    /\ depositing' = NoTransfer
    /\ UNCHANGED <<driver, onChain, depositedWei, reading, registering, registrations,
                   withdrawing, exact>>

withdrawCollateral(v) ==
    /\ WithdrawShown
    /\ withdrawing' = [at |-> "sent", account |-> driver, value |-> v]
    /\ UNCHANGED <<driver, onChain, depositedWei, reading, registering, registrations,
                   depositing, exact>>

WithdrawalMined ==
    LET a == withdrawing.account IN
    /\ withdrawing.at = "sent" /\ onChain[a].deposit >= withdrawing.value
    /\ onChain' = [onChain EXCEPT ![a].deposit = @ - withdrawing.value]
    /\ withdrawing' = [withdrawing EXCEPT !.at = "mined"]
    /\ reading' = Crossed(a)
    /\ UNCHANGED <<driver, depositedWei, registering, registrations, depositing, exact>>

WithdrawalSubtracted ==
    /\ withdrawing.at = "mined"
    /\ depositedWei' = IF depositedWei = Unknown THEN Unknown ELSE depositedWei - withdrawing.value
    /\ exact' = (exact /\ withdrawing.account = driver)
    /\ withdrawing' = NoTransfer
    /\ UNCHANGED <<driver, onChain, reading, registering, registrations, depositing>>

WithdrawalFails ==
    /\ withdrawing.at = "sent"
    /\ withdrawing' = NoTransfer
    /\ UNCHANGED <<driver, onChain, depositedWei, reading, registering, registrations,
                   depositing, exact>>

-----------------------------------------------------------------------------
PanelsNext ==
    \/ \E a \in Account \cup {NoAccount} : DriverBecomes(a)
    \/ \E f \in reading : ReadingServed(f) \/ ReadingAnswers(f) \/ ReadingFails(f)
    \/ registerOnChain \/ RegisterSent
    \/ \E a \in registrations : RegistrationMined(a)
    \/ \E ok \in BOOLEAN : RegisterAnswers(ok)
    \/ \E v \in Amount : depositCollateral(v) \/ withdrawCollateral(v)
    \/ DepositMined \/ DepositAdded \/ DepositFails
    \/ WithdrawalMined \/ WithdrawalSubtracted \/ WithdrawalFails

PanelsSpec == PanelsInit /\ [][PanelsNext]_panelsVars

-----------------------------------------------------------------------------
PanelsTypeOK ==
    /\ driver \in Account \cup {NoAccount} /\ registering \in Account \cup {NoAccount}
    /\ registrations \subseteq Account
    /\ onChain \in [Account -> OnChain]
    /\ depositedWei \in Int \cup {Unknown}
    /\ reading \subseteq Reading
    /\ depositing \in Transfer /\ withdrawing \in Transfer
    /\ exact \in BOOLEAN

Pending(t) == IF Mined(t, driver) THEN t.value ELSE 0

(***************************************************************************)
(* The sum the page keeps by itself is the deposit on the chain, short of  *)
(* the transfers whose confirmation it has not heard, though a deposit and *)
(* a withdrawal may overlap; unless one crossed the fetch of the sum.  So  *)
(* a driver told that the collateral suffices has it, but for withdrawals  *)
(* not heard of.                                                           *)
(***************************************************************************)
SumIsRight ==
    exact =>
        /\ depositedWei = onChain[driver].deposit - Pending(depositing) + Pending(withdrawing)
        /\ Sufficient => onChain[driver].deposit + Pending(withdrawing) >= MinDeposit
=============================================================================
