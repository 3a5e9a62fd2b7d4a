SPECIFICATION Spec
CONSTANTS
    Subs = {"s1", "s3"}
    Streams = {"log", "api"}
    MaxLines = 1
    MaxFails = 1
    AgentName <- MCAgentName
    Categories <- MCCategories
    MaxItems <- MCMaxItems
    CategoryOf <- MCCategoryOf
CHECK_DEADLOCK FALSE
PROPERTY DropsDoNotBlock
