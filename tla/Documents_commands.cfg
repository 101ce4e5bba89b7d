SPECIFICATION Spec
CONSTANTS
    Inserts <- MCInserts
    Queries <- MCQueries
    Hints <- MCHints
    Changes <- MCChanges
    Modifies <- MCModifies
    Catalogue <- MCCatalogue
    Probes <- MCProbes
    Operators <- MCOperators
    MaxRecord = 2
    MaxCommits = 1
    MaxWeight = 9
INVARIANTS FindsWhatMatches PlansFindAllThatMatch OrderOfOperatorsDoesNotMatter
PROPERTIES CommandsChangeWhatMatches RetriedUpsertsUpdate
