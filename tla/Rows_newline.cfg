SPECIFICATION RowsSpec
CONSTANTS
    Number <- MCNumber
    Negative <- MCNegative
    Printed <- MCPrinted
    Listing <- MCListing
    Foreign <- MCForeign
    Redacted <- MCRedacted
INVARIANT RoundTripAlways
