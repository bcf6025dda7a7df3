-------------------------- MODULE MCWebhookDelivery --------------------------
EXTENDS WebhookDelivery
CONSTANTS e1, e2, h1, h2, c1
=============================================================================
