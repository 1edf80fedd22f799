------------------------------- MODULE MCCli -------------------------------
EXTENDS Cli

CONSTANTS
  t1, t2,
  gatewayUrl, token, url

MCCommands == {t1, t2}

MCKeys == {gatewayUrl, token}

MCValues == {url}
=============================================================================
