------------------------ MODULE MCOperationalRuntime ------------------------
EXTENDS OperationalRuntime

ServerDriven == <<"ingest", "configuration", "sync", "snapshot">>
Static == <<"ingest", "deepstream", "sync">>
AllDeployments == {ServerDriven, Static, <<>>}
=============================================================================
