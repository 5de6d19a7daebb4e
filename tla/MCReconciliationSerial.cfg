CONSTANTS
    Requests = {s1}
    Txns = {t1, t2}
    bank = bank
    rent = rent
    fees = fees
    Bank = bank
    Accounts <- MCAccounts
    BalanceSheet <- MCBalanceSheet
    Categories <- MCCategories
    Postings <- MCPostings
    MaxDate = 2
    MaxEdits = 1
    Kinds = {"journal_entry"}
    ClosingDates = {0}
    RecIds = {r1}
    Endings <- MCEndings
    None = None
    Keep = Keep
SYMMETRY Symmetry
SPECIFICATION RecSpec
INVARIANTS
    WorksheetWithinStatement

    
