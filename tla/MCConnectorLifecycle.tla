------------------------ MODULE MCConnectorLifecycle ------------------------
EXTENDS ConnectorLifecycle
=============================================================================
