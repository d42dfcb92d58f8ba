\* Two wallets and three system accounts, all small amounts and charges; runs of k6
\* with three users and up to three payments; forms with ten texts in each field.
SPECIFICATION CheckSpec
CONSTANTS
    Wallets = {"w1", "w2"}
    SystemAccounts = {"DEPOSIT", "FEE_REVENUE", "TREASURY"}
    FeeRevenue = "FEE_REVENUE"
    Treasury = "TREASURY"
    MaxAmount = 3
    MaxCharge = 2
    MaxBalance = 7
    Unset = Unset
INVARIANTS
    BuiltJournalsBalance
    StampsAreRunningBalances
    DebitCheckSuffices
    RefundUndoesPayment
    EveryLegIsShown
    PayerSeesEveryCharge
    WhatRunsIsWhatWasAccepted
    ResultsPageShowsK6Numbers
    PayerIsChargedWhatWasShown
