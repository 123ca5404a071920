--------------------------- MODULE MCPluginReload ---------------------------
EXTENDS PluginReload

=============================================================================
