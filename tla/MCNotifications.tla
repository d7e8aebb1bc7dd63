---------------------------- MODULE MCNotifications ----------------------------
EXTENDS Notifications
=============================================================================
