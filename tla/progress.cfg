SPECIFICATION ProgressSpec
CONSTANT
    None = None
PROPERTIES
    LaggardsCatchUp
    PromisesEnd
CHECK_DEADLOCK FALSE
