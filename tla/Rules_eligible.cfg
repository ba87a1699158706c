SPECIFICATION RulesSpec
INVARIANT EligibleIsValid
