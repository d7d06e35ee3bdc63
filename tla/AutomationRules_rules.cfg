CONSTANTS
    Editor = {e1, e2}
    e1 = e1
    e2 = e2
    None = None
    NaN = NaN
    Key = {"score", "status"}
    Value <- MCValue
    Texts <- MCTexts
    NumberOf <- MCNumberOf
    TimeOf <- MCTimeOf
    Printed <- MCPrinted
    Contained <- MCContained
    Options = {"vip"}
    CronExpr = {"0 0 * * *"}
    Zone = {"UTC"}
    Id = {"hook", "role"}
    Columns <- MCColumns
    Request <- MCRequest
    Named = {{"enabled"}, {"trigger"}, {"params"}, {"trigger", "params"}, {"conditions"}, {"actions"}}
    Redefined <- MCRedefined
    Starts <- MCStarts
    Bound <- MCBound
SPECIFICATION Spec
INVARIANTS
    RulesDoAsAsked
    RuleIsAsAsked
    MatchingIsTyped
    StoredRulesStayEditable
SYMMETRY Symmetry
CHECK_DEADLOCK FALSE
