SPECIFICATION CommandsFairSpec
CONSTANTS
    TCP_RX_BUFSIZE = 30
    ACCOUNT_MAX = 3
    master <- Master
    SERVER <- Server
    password <- Password
    Messages <- Rows
INVARIANTS TypeOK CarriesOutAll
PROPERTY ReadsOn
