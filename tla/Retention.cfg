SPECIFICATION Spec
CONSTANTS
    Lines <- AllLines
INVARIANT NewestSurvives
INVARIANT MinLogsKept
