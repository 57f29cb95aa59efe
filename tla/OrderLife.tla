----------------------------- MODULE OrderLife -----------------------------
(***************************************************************************)
(* What the order component promises when the requests about an order come *)
(* one at a time: an order walks the table of transitions, one driver is   *)
(* given to it once, and the entries it causes in the drivers' wallets     *)
(* come in their place: one deposit when it is accepted, a refund before   *)
(* each payment, a payment only in transit, and before it is delivered.    *)
(* Requests, saves, crashes and wallets are not visible here.              *)
(***************************************************************************)
EXTENDS Naturals

CONSTANTS
    Orders,
    Drivers,
    None         \* no driver

VARIABLES
    status,      \* order -> its status, "none" before it is created
    driver,      \* order -> its driver, or None
    deposits,    \* order -> driver -> entries of that kind in his wallet
    refunds,
    payments

vars == <<status, driver, deposits, refunds, payments>>
money == <<deposits, refunds, payments>>

\* Where the statuses lead.
After ==
    [pending    |-> {"accepted", "cancelled"},
     accepted   |-> {"picked_up", "cancelled"},
     picked_up  |-> {"in_transit", "cancelled"},
     in_transit |-> {"delivered", "cancelled"},
     delivered  |-> {},
     cancelled  |-> {}]

Init ==
    /\ status = [o \in Orders |-> "none"]
    /\ driver = [o \in Orders |-> None]
    /\ deposits = [o \in Orders |-> [d \in Drivers |-> 0]]
    /\ refunds = [o \in Orders |-> [d \in Drivers |-> 0]]
    /\ payments = [o \in Orders |-> [d \in Drivers |-> 0]]

Create(o) ==
    /\ status[o] = "none"
    /\ status' = [status EXCEPT ![o] = "pending"]
    /\ UNCHANGED <<driver, money>>

Accept(o, d) ==
    /\ status[o] = "pending"
    /\ status' = [status EXCEPT ![o] = "accepted"]
    /\ driver' = [driver EXCEPT ![o] = d]
    /\ UNCHANGED money

\* An order that has a driver is delivered only once he was paid.
Advance(o, s) ==
    /\ status[o] # "none"
    /\ s \in After[status[o]]
    /\ s = "delivered" /\ driver[o] # None => payments[o][driver[o]] > 0
    /\ status' = [status EXCEPT ![o] = s]
    /\ UNCHANGED <<driver, money>>

Deposit(o, d) ==
    /\ status[o] = "accepted" /\ driver[o] = d
    /\ deposits[o][d] = 0
    /\ deposits' = [deposits EXCEPT ![o][d] = 1]
    /\ UNCHANGED <<status, driver, refunds, payments>>

Refund(o, d) ==
    /\ driver[o] = d /\ status[o] # "delivered"
    /\ refunds' = [refunds EXCEPT ![o][d] = @ + 1]
    /\ UNCHANGED <<status, driver, deposits, payments>>

Pay(o, d) ==
    /\ driver[o] = d /\ status[o] = "in_transit"
    /\ payments[o][d] < refunds[o][d]
    /\ payments' = [payments EXCEPT ![o][d] = @ + 1]
    /\ UNCHANGED <<status, driver, deposits, refunds>>

Next ==
    \E o \in Orders :
        \/ Create(o)
        \/ \E s \in DOMAIN After : Advance(o, s)
        \/ \E d \in Drivers : Accept(o, d) \/ Deposit(o, d) \/ Refund(o, d) \/ Pay(o, d)

Spec == Init /\ [][Next]_vars
=============================================================================
