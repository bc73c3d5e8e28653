CONSTANTS
    Scopes = {"request.params", "request.body", "response.body"}
    NestedScopes = {"request.body", "response.body"}
    ResponseScopes = {"response.body"}
    ScalarTypes = {"string"}
    Names = {"a"}
    Statuses = {200, 404}
    MaxFields = 3
    MaxResponses = 2
    BodyModes = {"none", "form-data", "urlencoded", "json"}
SPECIFICATION Spec
CHECK_DEADLOCK FALSE
INVARIANTS
    TreeShape
    MergeKeepsValues
    OwnSchemaAccepted
